---------------------------- MODULE WriterAdmission ----------------------------
(***************************************************************************)
(* In-process write admission of the server's Binary DB                    *)
(* (remote_binary_db/admission.rs): one ticket lane per write lock.  A     *)
(* serving writer takes a ticket in each lane of its command scope, one    *)
(* lane after the other, and sleeps on the lane's condition variable until *)
(* its ticket is served.  A waiter whose time budget runs out cancels its  *)
(* ticket and gives back the lanes it already has.                         *)
(*                                                                         *)
(* Every action is one critical section under one lane's mutex.            *)
(***************************************************************************)
EXTENDS BinaryDbScopes, FiniteSets

CONSTANTS
  Threads,      \* the writer threads of the server process
  UsedScopes,   \* the command scopes they write in
  MaxTicket     \* u64::MAX: the ticket value that is never handed out

ASSUME ScopesAssumption == UsedScopes \subseteq Scopes
ASSUME MaxTicketAssumption == MaxTicket \in Nat \ {0}

Lanes == LockNames
NoScope == "none"   \* no request

VARIABLES
  next,       \* lane -> next_ticket
  serving,    \* lane -> serving_ticket
  cancelled,  \* lane -> cancelled_tickets
  pc,         \* thread -> what it is doing
  scope,      \* thread -> the command scope of its request
  held,       \* thread -> how many lanes of its scope its guard holds
  ticket      \* thread -> lane -> the ticket it has there, 0 without one

vars == <<next, serving, cancelled, pc, scope, held, ticket>>

(* "enter": about to lock the next lane; "asleep": waits on its condition  *)
(* variable; "woken": notified, has not looked at the lane again.          *)
Waiting == {"asleep", "woken"}
PCs == {"idle", "enter", "admitted", "releasing"} \cup Waiting

\* Tickets, lanes and threads have the shape of BinaryDbWriteAdmissionState and of a caller of
\* acquire; the counters stay inside their width.
TypeOK ==
  /\ next \in [Lanes -> 0 .. MaxTicket]
  /\ serving \in [Lanes -> 0 .. MaxTicket]
  /\ cancelled \in [Lanes -> SUBSET (0 .. MaxTicket)]
  /\ pc \in [Threads -> PCs]
  /\ scope \in [Threads -> UsedScopes \cup {NoScope}]
  /\ held \in [Threads -> Nat]
  /\ ticket \in [Threads -> [Lanes -> 0 .. MaxTicket]]

Init ==
  /\ next = [l \in Lanes |-> 0]
  /\ serving = [l \in Lanes |-> 0]
  /\ cancelled = [l \in Lanes |-> {}]
  /\ pc = [t \in Threads |-> "idle"]
  /\ scope = [t \in Threads |-> NoScope]
  /\ held = [t \in Threads |-> 0]
  /\ ticket = [t \in Threads |-> [l \in Lanes |-> 0]]

-----------------------------------------------------------------------------
(* The lanes the guard of t holds, and the one t enters next.              *)
HeldLanes(t) == {LockFileNames(scope[t])[i] : i \in 1 .. held[t]}
NextLane(t) == LockFileNames(scope[t])[held[t] + 1]

(* t has a ticket of lane l that was neither released nor cancelled.       *)
WaitsAt(t, l) == pc[t] \in Waiting /\ l = NextLane(t)
LiveAt(t, l) == l \in HeldLanes(t) \/ WaitsAt(t, l)

SaturatingSucc(n) == IF n = MaxTicket THEN n ELSE n + 1

(* Mutants of SkipsTo: cancelled tickets are not skipped; live tickets are *)
(* skipped too, up to the last cancelled one.                              *)
NoSkip(from, n, cancels) == n = from
SkipsTheLiving(from, n, cancels) ==
  n >= from /\ n \notin cancels /\ (n = from \/ n - 1 \in cancels) /\ \A c \in cancels : c < n

(* skip_cancelled_locked: the loop started at ticket `from` stops at n.    *)
SkipsTo(from, n, cancels) == n \notin cancels /\ from .. (n - 1) \subseteq cancels

(* Mutant of Notified: the notification is forgotten.                      *)
NotNotified(l, p) == p

(* notify_all: every sleeper of lane l will look at the lane again.        *)
Notified(l, p) ==
  [t \in Threads |-> IF p[t] = "asleep" /\ l = NextLane(t) THEN "woken" ELSE p[t]]

(* t has got its next lane: it goes on to the following one, or is in.     *)
LaneGranted(t) ==
  /\ held' = [held EXCEPT ![t] = @ + 1]
  /\ pc' = [pc EXCEPT ![t] =
              IF held[t] + 1 = Len(LockFileNames(scope[t])) THEN "admitted" ELSE "enter"]

-----------------------------------------------------------------------------
(* BinaryDbWriterAdmission::acquire is called for one scope.               *)
Request(t, s) ==
  /\ pc[t] = "idle"
  /\ pc' = [pc EXCEPT ![t] = "enter"]
  /\ scope' = [scope EXCEPT ![t] = s]
  /\ UNCHANGED <<next, serving, cancelled, held, ticket>>

(* Mutants: a lane without cancelled tickets passes for idle; the last     *)
(* ticket is handed out too.                                               *)
LaneUncancelled(l) == cancelled[l] = {}
ExhaustedLate(l) == next[l] > MaxTicket

(* An exhausted lane restarts at ticket 0, but only when nobody is in it.  *)
LaneIdle(l) == next[l] = serving[l] /\ cancelled[l] = {}
Restarts(l) == next[l] = MaxTicket /\ LaneIdle(l)
Exhausted(l) == next[l] = MaxTicket /\ ~LaneIdle(l)

(* Lane acquire, up to the first wait: take a ticket; it may be served.    *)
TakeTicket(t) ==
  LET l == NextLane(t)
      mine == IF Restarts(l) THEN 0 ELSE next[l]
      served == IF Restarts(l) THEN 0 ELSE serving[l]
  IN
  /\ pc[t] = "enter"
  /\ ~Exhausted(l)
  /\ next' = [next EXCEPT ![l] = mine + 1]
  /\ serving' = [serving EXCEPT ![l] = served]
  /\ ticket' = [ticket EXCEPT ![t][l] = mine]
  /\ IF served = mine
     THEN LaneGranted(t)
     ELSE pc' = [pc EXCEPT ![t] = "asleep"] /\ UNCHANGED held
  /\ UNCHANGED <<cancelled, scope>>

(* The ticket space of a busy lane is used up: the request fails.          *)
FailExhausted(t) ==
  /\ pc[t] = "enter"
  /\ Exhausted(NextLane(t))
  /\ pc' = [pc EXCEPT ![t] = "releasing"]
  /\ UNCHANGED <<next, serving, cancelled, scope, held, ticket>>

(* The wait loop, after a notification: the ticket is served, or not yet.  *)
Recheck(t) ==
  LET l == NextLane(t) IN
  /\ pc[t] = "woken"
  /\ IF serving[l] = ticket[t][l]
     THEN LaneGranted(t)
     ELSE pc' = [pc EXCEPT ![t] = "asleep"] /\ UNCHANGED held
  /\ UNCHANGED <<next, serving, cancelled, scope, ticket>>

(* Mutant of Cancelling: the ticket is given up and not recorded.          *)
NotCancelling(t, l) == cancelled[l]

Cancelling(t, l) == cancelled[l] \cup {ticket[t][l]}

(* wait_timeout ran out: a served ticket is still accepted, any other is   *)
(* cancelled, and the early return drops the guard.                        *)
Timeout(t) ==
  LET l == NextLane(t)
      cancels == Cancelling(t, l)
  IN
  /\ pc[t] \in Waiting
  /\ \/ /\ serving[l] = ticket[t][l]
        /\ LaneGranted(t)
        /\ UNCHANGED <<serving, cancelled, ticket>>
     \/ /\ serving[l] # ticket[t][l]
        /\ \E n \in serving[l] .. MaxTicket :
             /\ SkipsTo(serving[l], n, cancels)
             /\ serving' = [serving EXCEPT ![l] = n]
             /\ cancelled' = [cancelled EXCEPT ![l] = cancels \ (serving[l] .. (n - 1))]
        /\ pc' = Notified(l, [pc EXCEPT ![t] = "releasing"])
        /\ ticket' = [ticket EXCEPT ![t][l] = 0]
        /\ UNCHANGED held
  /\ UNCHANGED <<next, scope>>

(* The write transaction is over: its guard is released.                   *)
Finish(t) ==
  /\ pc[t] = "admitted"
  /\ pc' = [pc EXCEPT ![t] = "releasing"]
  /\ UNCHANGED <<next, serving, cancelled, scope, held, ticket>>

(* Guard release, one lane: the last one taken first.  A ticket that is    *)
(* not the one being served is ignored.                                    *)
ReleaseLane(t) ==
  LET l == LockFileNames(scope[t])[held[t]]
      after == SaturatingSucc(serving[l])
  IN
  /\ pc[t] = "releasing"
  /\ held[t] > 0
  /\ held' = [held EXCEPT ![t] = @ - 1]
  /\ ticket' = [ticket EXCEPT ![t][l] = 0]
  /\ IF serving[l] = ticket[t][l]
     THEN /\ \E n \in after .. MaxTicket :
               /\ SkipsTo(after, n, cancelled[l])
               /\ serving' = [serving EXCEPT ![l] = n]
               /\ cancelled' = [cancelled EXCEPT ![l] = @ \ (after .. (n - 1))]
          /\ pc' = Notified(l, pc)
     ELSE UNCHANGED <<serving, cancelled, pc>>
  /\ UNCHANGED <<next, scope>>

Released(t) ==
  /\ pc[t] = "releasing"
  /\ held[t] = 0
  /\ pc' = [pc EXCEPT ![t] = "idle"]
  /\ scope' = [scope EXCEPT ![t] = NoScope]
  /\ UNCHANGED <<next, serving, cancelled, held, ticket>>

Step(t) ==
  \/ TakeTicket(t) \/ FailExhausted(t) \/ Recheck(t) \/ Finish(t)
  \/ ReleaseLane(t) \/ Released(t)

Next == \E t \in Threads :
  \/ \E s \in UsedScopes : Request(t, s)
  \/ Step(t)
  \/ Timeout(t)

(* A runnable thread runs, and a transaction ends; nothing makes a timeout *)
(* happen.                                                                 *)
Fairness == \A t \in Threads : WF_vars(Step(t))

Spec == Init /\ [][Next]_vars
FairSpec == Spec /\ Fairness

-----------------------------------------------------------------------------
(* A lane is never held by two threads, however timeouts, cancelled        *)
(* tickets, exhausted lanes and restarts at ticket 0 interleave.           *)
LaneExclusion ==
  \A t, u \in Threads : t # u => HeldLanes(t) \cap HeldLanes(u) = {}

(* A lane never serves a ticket nobody will use: either nobody is in it,   *)
(* or the ticket being served belongs to a thread that holds or awaits it. *)
(* A cancelled or lost ticket at the head would block every later writer.  *)
NoOrphanHead ==
  \A l \in Lanes :
    serving[l] # next[l] =>
      \E t \in Threads : LiveAt(t, l) /\ ticket[t][l] = serving[l]

(* Tickets account for every thread: the tickets from the one being served *)
(* to the last one issued are the cancelled ones and, each exactly once,   *)
(* those of the threads in the lane; only the served one holds the lane.   *)
LaneAccounts(l) ==
  /\ serving[l] <= next[l]
  /\ cancelled[l] \subseteq (serving[l] + 1) .. (next[l] - 1)
  /\ \A t \in Threads : LiveAt(t, l) =>
       /\ ticket[t][l] \in serving[l] .. (next[l] - 1)
       /\ ticket[t][l] \notin cancelled[l]
       /\ \A u \in Threads : LiveAt(u, l) /\ ticket[u][l] = ticket[t][l] => u = t
  /\ \A t \in Threads : l \in HeldLanes(t) => ticket[t][l] = serving[l]
  /\ \A n \in serving[l] .. (next[l] - 1) :
       n \in cancelled[l] \/ \E t \in Threads : LiveAt(t, l) /\ ticket[t][l] = n

TicketAccounting == \A l \in Lanes : LaneAccounts(l)

(* The members of S in the order of their keys.                            *)
InOrder(S, key) ==
  [i \in 1 .. Cardinality(S) |->
     CHOOSE t \in S : Cardinality({u \in S : key[u] < key[t]}) = i - 1]

(* The queue that the tickets of lane l describe.                          *)
Queued(l) == {t \in Threads : LiveAt(t, l)}
Tickets(l) == [t \in Threads |-> ticket[t][l]]
Arrivals(l) == InOrder(Queued(l), Tickets(l))
Holders(l) == {t \in Threads : l \in HeldLanes(t)}

(* The lanes somebody uses; the others stay as they are.                   *)
UsedLanes == UNION {LocksOf(s) : s \in UsedScopes}

Lane == INSTANCE FifoLanes WITH
  Lanes <- UsedLanes,
  queue <- [l \in UsedLanes |-> Arrivals(l)],
  granted <- [l \in UsedLanes |-> Holders(l)]

(* Tickets implement first-come first-served lanes: a newer request never  *)
(* overtakes an older one that still waits.                                *)
FirstComeFirstServed == Lane!Spec

(* A queued writer is admitted, or fails and gives its lanes back, even if *)
(* no waiter ever times out: no notification is lost, and taking the lanes *)
(* in one order leaves no circle of writers waiting for each other.        *)
QueuedIsServed ==
  \A t \in Threads :
    pc[t] \in {"enter"} \cup Waiting ~> pc[t] \in {"admitted", "releasing"}
=============================================================================
