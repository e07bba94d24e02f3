------------------------------- MODULE FifoLanes -------------------------------
(***************************************************************************)
(* What ordered write admission promises: each lane is a lock with a       *)
(* first-come first-served queue.  A thread joins at the back, may leave   *)
(* while it waits, and only the thread at the front is granted the lane.   *)
(***************************************************************************)
EXTENDS Naturals, Sequences

CONSTANTS Threads, Lanes

VARIABLES
  queue,    \* lane -> the threads in it, in order of arrival
  granted   \* lane -> the threads that hold it

Fifo == <<queue, granted>>

Members(q) == {q[i] : i \in 1 .. Len(q)}
(* The queue without its i-th member.                                      *)
Without(q, i) == [j \in 1 .. (Len(q) - 1) |-> q[IF j < i THEN j ELSE j + 1]]

Init ==
  /\ queue = [l \in Lanes |-> <<>>]
  /\ granted = [l \in Lanes |-> {}]

Join(t, l) ==
  /\ t \notin Members(queue[l])
  /\ queue' = [queue EXCEPT ![l] = Append(@, t)]
  /\ granted' = [granted EXCEPT ![l] = IF queue[l] = <<>> THEN {t} ELSE @]

Grant(t, l) ==
  /\ granted[l] = {}
  /\ queue[l] # <<>>
  /\ t = Head(queue[l])
  /\ granted' = [granted EXCEPT ![l] = {t}]
  /\ UNCHANGED queue

Leave(t, l) == \E i \in 1 .. Len(queue[l]) :
  /\ t = queue[l][i] /\ t \notin granted[l]
  /\ queue' = [queue EXCEPT ![l] = Without(@, i)]
  /\ UNCHANGED granted

Release(t, l) ==
  /\ granted[l] = {t}
  /\ queue' = [queue EXCEPT ![l] = Tail(@)]
  /\ granted' = [granted EXCEPT ![l] = {}]

Next == \E t \in Threads, l \in Lanes :
  Join(t, l) \/ Grant(t, l) \/ Leave(t, l) \/ Release(t, l)

Spec == Init /\ [][Next]_Fifo
=============================================================================
