------------------------- MODULE WriterAdmissionProofs -------------------------
(***************************************************************************)
(* Proofs about WriterAdmission, for every set of threads, every set of    *)
(* command scopes and every ticket width.                                  *)
(***************************************************************************)
EXTENDS WriterAdmission, FiniteSetTheorems, SequenceTheorems, TLAPS

(* The lanes of a scope: at least one, and no lane twice.                  *)
LEMMA ScopeLanes ==
  ASSUME NEW s \in Scopes
  PROVE  /\ Len(LockFileNames(s)) \in Nat \ {0}
         /\ \A i \in 1 .. Len(LockFileNames(s)) : LockFileNames(s)[i] \in Lanes
         /\ \A i, j \in 1 .. Len(LockFileNames(s)) :
              LockFileNames(s)[i] = LockFileNames(s)[j] => i = j
<1>1. CASE s = "General" BY <1>1 DEF LockFileNames, LockOrder, Lanes, LockNames
<1>2. CASE s = "ServerContent" BY <1>2 DEF LockFileNames, Lanes, LockNames
<1>3. CASE s = "ServerLand" BY <1>3 DEF LockFileNames, Lanes, LockNames
<1>4. CASE s = "ServerPlan" BY <1>4 DEF LockFileNames, Lanes, LockNames
<1>5. CASE s = "ServerQueue" BY <1>5 DEF LockFileNames, Lanes, LockNames
<1>6. CASE s = "ServerRemoteSyncCommit" BY <1>6 DEF LockFileNames, Lanes, LockNames
<1>7. CASE s = "ServerRepositoryPack" BY <1>7 DEF LockFileNames, Lanes, LockNames
<1>8. CASE s = "ServerTaskStart" BY <1>8 DEF LockFileNames, Lanes, LockNames
<1>9. CASE s = "ServerWorkflow" BY <1>9 DEF LockFileNames, Lanes, LockNames
<1>10. CASE s = "ServerSnapshotCapture" BY <1>10 DEF LockFileNames, Lanes, LockNames
<1>. QED BY <1>1, <1>2, <1>3, <1>4, <1>5, <1>6, <1>7, <1>8, <1>9, <1>10 DEF Scopes

(* A thread has as many lanes as its place in acquire says: none when it   *)
(* is idle, and not all of them while it still asks for one.               *)
GuardShape ==
  \A t \in Threads :
    /\ pc[t] = "idle" => held[t] = 0
    /\ pc[t] # "idle" => /\ scope[t] \in UsedScopes
                         /\ held[t] <= Len(LockFileNames(scope[t]))
    /\ pc[t] \in {"enter", "asleep", "woken"} =>
         held[t] < Len(LockFileNames(scope[t]))

(* The inductive invariant.                                                *)
IInv == TypeOK /\ GuardShape /\ TicketAccounting

-----------------------------------------------------------------------------
(* What a thread does not touch stays as it is.                            *)
LEMMA ThreadFrame ==
  ASSUME NEW u \in Threads,
         held'[u] = held[u], scope'[u] = scope[u],
         pc'[u] \in Waiting <=> pc[u] \in Waiting
  PROVE  /\ HeldLanes(u)' = HeldLanes(u)
         /\ \A l : LiveAt(u, l)' <=> LiveAt(u, l)
BY DEF HeldLanes, LiveAt, WaitsAt, NextLane

(* A lane whose counters stay, and whose threads keep their tickets, still *)
(* accounts for them; a waiter may have become the holder.                 *)
LEMMA LaneFrame ==
  ASSUME NEW l \in Lanes, LaneAccounts(l),
         next'[l] = next[l], serving'[l] = serving[l], cancelled'[l] = cancelled[l],
         \A u \in Threads :
           /\ LiveAt(u, l)' <=> LiveAt(u, l)
           /\ LiveAt(u, l) => ticket'[u][l] = ticket[u][l]
           /\ (l \in HeldLanes(u))' => l \in HeldLanes(u) \/ ticket'[u][l] = serving'[l]
  PROVE  LaneAccounts(l)'
<1>1. \A t \in Threads : LiveAt(t, l)' =>
       /\ (ticket[t][l] \in serving[l] .. (next[l] - 1))'
       /\ (ticket[t][l] \notin cancelled[l])'
       /\ \A u \in Threads : LiveAt(u, l)' /\ ticket'[u][l] = ticket'[t][l] => u = t
  BY DEF LaneAccounts
<1>2. \A t \in Threads : (l \in HeldLanes(t))' => ticket'[t][l] = serving'[l]
  BY DEF LaneAccounts, LiveAt
<1>3. \A n \in serving[l] .. (next[l] - 1) :
       n \in cancelled[l] \/ \E t \in Threads : LiveAt(t, l)' /\ ticket'[t][l] = n
  BY DEF LaneAccounts
<1>. QED BY <1>1, <1>2, <1>3 DEF LaneAccounts

(* Notifying a lane wakes its sleepers: nobody starts or stops waiting.    *)
LEMMA NotifiedFrame ==
  ASSUME NEW p, NEW l, NEW u \in Threads
  PROVE  /\ Notified(l, p)[u] \in Waiting <=> p[u] \in Waiting
         /\ p[u] \notin {"asleep"} => Notified(l, p)[u] = p[u]
         /\ Notified(l, p)[u] # p[u] => p[u] = "asleep" /\ Notified(l, p)[u] = "woken"
BY DEF Notified, Waiting

(* A fresh admission object has no tickets to account for.                 *)
LEMMA InitInv == Init => IInv
<1>. SUFFICES ASSUME Init PROVE IInv
  OBVIOUS
<1>1. TypeOK BY MaxTicketAssumption DEF Init, TypeOK, PCs, NoScope
<1>2. GuardShape BY DEF Init, GuardShape
<1>3. \A t \in Threads : \A l : ~LiveAt(t, l)
  BY DEF Init, LiveAt, WaitsAt, HeldLanes, Waiting
<1>4. TicketAccounting BY <1>3 DEF Init, TicketAccounting, LaneAccounts, LiveAt
<1>. QED BY <1>1, <1>2, <1>4 DEF IInv

-----------------------------------------------------------------------------
(* The lane a thread asks for is a lane it does not hold.                  *)
LEMMA NextLaneIsNew ==
  ASSUME IInv, NEW t \in Threads, pc[t] \in {"enter", "asleep", "woken"}
  PROVE  NextLane(t) \in Lanes /\ NextLane(t) \notin HeldLanes(t)
<1>1. /\ scope[t] \in Scopes
      /\ held[t] \in Nat
      /\ held[t] < Len(LockFileNames(scope[t]))
  BY ScopesAssumption DEF IInv, TypeOK, GuardShape
<1>2. Len(LockFileNames(scope[t])) \in Nat
  BY <1>1, ScopeLanes
<1>3. /\ held[t] + 1 \in 1 .. Len(LockFileNames(scope[t]))
      /\ \A i \in 1 .. held[t] :
           i \in 1 .. Len(LockFileNames(scope[t])) /\ i # held[t] + 1
  BY <1>1, <1>2
<1>4. \A i \in 1 .. held[t] : LockFileNames(scope[t])[i] # LockFileNames(scope[t])[held[t] + 1]
  BY <1>1, <1>3, ScopeLanes
<1>. QED BY <1>1, <1>3, <1>4, ScopeLanes DEF NextLane, HeldLanes

(* A granted lane is added to those the thread holds.                      *)
LEMMA GrantedLanes ==
  ASSUME IInv, NEW t \in Threads, pc[t] \in {"enter", "asleep", "woken"},
         LaneGranted(t), scope' = scope
  PROVE  /\ HeldLanes(t)' = HeldLanes(t) \cup {NextLane(t)}
         /\ \A l : LiveAt(t, l)' <=> l \in HeldLanes(t) \/ l = NextLane(t)
         /\ held'[t] = held[t] + 1
         /\ pc'[t] \in {"admitted", "enter"}
         /\ held' \in [Threads -> Nat]
         /\ pc' \in [Threads -> PCs]
         /\ GuardShape'
<1>1. held[t] \in Nat /\ t \in DOMAIN held /\ t \in DOMAIN pc
  BY DEF IInv, TypeOK
<1>2. held'[t] = held[t] + 1 /\ pc'[t] \in {"admitted", "enter"}
  BY <1>1 DEF LaneGranted
<1>3. 1 .. (held[t] + 1) = (1 .. held[t]) \cup {held[t] + 1}
  BY <1>1
<1>4. HeldLanes(t)' = HeldLanes(t) \cup {NextLane(t)}
  BY <1>2, <1>3 DEF HeldLanes, NextLane
<1>5. held' \in [Threads -> Nat] /\ pc' \in [Threads -> PCs]
  BY <1>1 DEF IInv, TypeOK, LaneGranted, PCs
<1>6. \A u \in Threads \ {t} : held'[u] = held[u] /\ pc'[u] = pc[u]
  BY DEF LaneGranted, IInv, TypeOK
<1>7. /\ scope[t] \in UsedScopes
      /\ held[t] < Len(LockFileNames(scope[t]))
      /\ Len(LockFileNames(scope[t])) \in Nat
  BY ScopeLanes, ScopesAssumption DEF IInv, TypeOK, GuardShape
<1>8. /\ held'[t] <= Len(LockFileNames(scope[t]))
      /\ pc'[t] = "enter" => held'[t] < Len(LockFileNames(scope[t]))
  BY <1>1, <1>2, <1>7 DEF LaneGranted
<1>9. GuardShape'
  BY <1>2, <1>6, <1>7, <1>8 DEF IInv, GuardShape
<1>. QED BY <1>2, <1>4, <1>5, <1>9 DEF LiveAt, WaitsAt, Waiting

(* Nobody enters, gets or leaves a lane.                                   *)
Unmoved == \A u \in Threads : /\ HeldLanes(u)' = HeldLanes(u)
                              /\ \A l : LiveAt(u, l)' <=> LiveAt(u, l)

LEMMA RequestMoves ==
  ASSUME IInv, NEW t \in Threads, NEW s \in UsedScopes, Request(t, s)
  PROVE  Unmoved
<1>1. \A u \in Threads \ {t} : /\ HeldLanes(u)' = HeldLanes(u)
                              /\ \A l : LiveAt(u, l)' <=> LiveAt(u, l)
  BY ThreadFrame DEF Request, IInv, TypeOK
<1>2. /\ HeldLanes(t)' = {} /\ HeldLanes(t) = {}
      /\ pc[t] \notin Waiting /\ pc'[t] \notin Waiting
  BY DEF Request, IInv, TypeOK, GuardShape, HeldLanes, Waiting
<1>. QED BY <1>1, <1>2 DEF LiveAt, WaitsAt, Unmoved

(* Calling acquire touches no lane.                                        *)
LEMMA RequestInv ==
  ASSUME IInv, NEW t \in Threads, NEW s \in UsedScopes, Request(t, s)
  PROVE  IInv'
<1>1. TypeOK' BY DEF Request, IInv, TypeOK, PCs
<1>2. GuardShape'
  BY ScopesAssumption, ScopeLanes DEF Request, IInv, TypeOK, GuardShape
<1>3. Unmoved
  BY RequestMoves
<1>4. TicketAccounting'
  <2>. SUFFICES ASSUME NEW l \in Lanes PROVE LaneAccounts(l)'
    BY DEF TicketAccounting
  <2>. QED BY <1>3, LaneFrame DEF Request, IInv, TicketAccounting, Unmoved
<1>. QED BY <1>1, <1>2, <1>4 DEF IInv

LEMMA QuietMoves ==
  ASSUME IInv, NEW t \in Threads, FailExhausted(t) \/ Finish(t) \/ Released(t)
  PROVE  Unmoved
<1>0. UNCHANGED held
  BY DEF FailExhausted, Finish, Released
<1>1. \A u \in Threads \ {t} : pc'[u] = pc[u] /\ scope'[u] = scope[u]
  BY DEF FailExhausted, Finish, Released, IInv, TypeOK
<1>2. \A u \in Threads \ {t} : /\ HeldLanes(u)' = HeldLanes(u)
                              /\ \A l : LiveAt(u, l)' <=> LiveAt(u, l)
  BY <1>0, <1>1, ThreadFrame
<1>3. pc[t] \notin Waiting /\ pc'[t] \notin Waiting
  BY DEF FailExhausted, Finish, Released, IInv, TypeOK, Waiting
<1>4. HeldLanes(t)' = HeldLanes(t)
  <2>1. CASE Released(t) BY <2>1 DEF Released, HeldLanes
  <2>2. CASE FailExhausted(t) \/ Finish(t)
    BY <2>2 DEF FailExhausted, Finish, HeldLanes
  <2>. QED BY <2>1, <2>2
<1>. QED BY <1>2, <1>3, <1>4 DEF LiveAt, WaitsAt, Unmoved

(* Steps that move a thread without touching a lane or a ticket.           *)
LEMMA QuietInv ==
  ASSUME IInv, NEW t \in Threads, FailExhausted(t) \/ Finish(t) \/ Released(t)
  PROVE  IInv'
<1>1. /\ UNCHANGED <<next, serving, cancelled, held, ticket>>
      /\ pc' \in [Threads -> PCs]
      /\ scope' \in [Threads -> UsedScopes \cup {NoScope}]
  BY DEF FailExhausted, Finish, Released, IInv, TypeOK, PCs
<1>2. TypeOK' BY <1>1 DEF IInv, TypeOK
<1>3. GuardShape'
  <2>1. CASE FailExhausted(t) BY <2>1 DEF FailExhausted, IInv, TypeOK, GuardShape
  <2>2. CASE Finish(t) BY <2>2 DEF Finish, IInv, TypeOK, GuardShape
  <2>3. CASE Released(t) BY <2>3 DEF Released, IInv, TypeOK, GuardShape
  <2>. QED BY <2>1, <2>2, <2>3
<1>4. Unmoved
  BY QuietMoves
<1>5. TicketAccounting'
  <2>. SUFFICES ASSUME NEW l \in Lanes PROVE LaneAccounts(l)'
    BY DEF TicketAccounting
  <2>. QED BY <1>1, <1>4, LaneFrame DEF IInv, TicketAccounting, Unmoved
<1>. QED BY <1>2, <1>3, <1>5 DEF IInv

LEMMA ServedMoves ==
  ASSUME IInv, NEW t \in Threads, pc[t] \in Waiting, LaneGranted(t), UNCHANGED scope
  PROVE  /\ \A u \in Threads : \A l : LiveAt(u, l)' <=> LiveAt(u, l)
         /\ \A u \in Threads \ {t} : HeldLanes(u)' = HeldLanes(u)
         /\ HeldLanes(t)' = HeldLanes(t) \cup {NextLane(t)}
<1>1. pc[t] \in {"enter", "asleep", "woken"}
  BY DEF Waiting
<1>2. \A u \in Threads \ {t} : /\ HeldLanes(u)' = HeldLanes(u)
                              /\ \A l : LiveAt(u, l)' <=> LiveAt(u, l)
  BY ThreadFrame DEF LaneGranted, IInv, TypeOK
<1>3. \A l : LiveAt(t, l)' <=> LiveAt(t, l)
  BY <1>1, GrantedLanes DEF LiveAt, WaitsAt
<1>. QED BY <1>1, <1>2, <1>3, GrantedLanes

(* A waiter whose ticket is served becomes the holder.                     *)
LEMMA ServedInv ==
  ASSUME IInv, NEW t \in Threads, pc[t] \in Waiting,
         serving[NextLane(t)] = ticket[t][NextLane(t)], LaneGranted(t),
         UNCHANGED <<next, serving, cancelled, scope, ticket>>
  PROVE  IInv'
<1>1. pc[t] \in {"enter", "asleep", "woken"}
  BY DEF Waiting
<1>2. TypeOK' /\ GuardShape'
  BY <1>1, GrantedLanes DEF IInv, TypeOK
<1>3. /\ \A u \in Threads : \A l : LiveAt(u, l)' <=> LiveAt(u, l)
      /\ \A u \in Threads \ {t} : HeldLanes(u)' = HeldLanes(u)
  BY ServedMoves
<1>5. TicketAccounting'
  <2>. SUFFICES ASSUME NEW l \in Lanes PROVE LaneAccounts(l)'
    BY DEF TicketAccounting
  <2>1. \A u \in Threads :
          (l \in HeldLanes(u))' => l \in HeldLanes(u) \/ ticket'[u][l] = serving'[l]
    BY <1>1, <1>3, GrantedLanes
  <2>2. LaneAccounts(l) BY DEF IInv, TicketAccounting
  <2>. QED BY <1>3, <2>1, <2>2, LaneFrame
<1>. QED BY <1>2, <1>5 DEF IInv

(* A woken waiter takes its lane or goes back to sleep.                    *)
LEMMA RecheckInv ==
  ASSUME IInv, NEW t \in Threads, Recheck(t)
  PROVE  IInv'
<1>1. CASE serving[NextLane(t)] = ticket[t][NextLane(t)]
  BY <1>1, ServedInv DEF Recheck, Waiting
<1>2. CASE serving[NextLane(t)] # ticket[t][NextLane(t)]
  <2>1. /\ pc' = [pc EXCEPT ![t] = "asleep"] /\ pc[t] = "woken"
        /\ UNCHANGED <<next, serving, cancelled, scope, held, ticket>>
    BY <1>2 DEF Recheck
  <2>2. TypeOK' BY <2>1 DEF IInv, TypeOK, PCs, Waiting
  <2>3. GuardShape' BY <2>1 DEF IInv, TypeOK, GuardShape
  <2>4. \A u \in Threads : /\ HeldLanes(u)' = HeldLanes(u)
                           /\ \A l : LiveAt(u, l)' <=> LiveAt(u, l)
    BY <2>1, ThreadFrame DEF IInv, TypeOK, Waiting
  <2>5. \A l \in Lanes : LaneAccounts(l)'
    BY <2>1, <2>4, LaneFrame DEF IInv, TicketAccounting
  <2>. QED BY <2>2, <2>3, <2>5 DEF IInv, TicketAccounting
<1>. QED BY <1>1, <1>2

LEMMA TakeTicketMoves ==
  ASSUME IInv, NEW t \in Threads, TakeTicket(t), NEW l \in Lanes, l = NextLane(t), l \notin HeldLanes(t)
  PROVE  /\ \A u \in Threads \ {t} : /\ HeldLanes(u)' = HeldLanes(u)
                                    /\ \A k : LiveAt(u, k)' <=> LiveAt(u, k)
         /\ \A k : LiveAt(t, k) <=> k \in HeldLanes(t)
         /\ \A k : LiveAt(t, k)' <=> k \in HeldLanes(t) \/ k = l
         /\ serving[l] = next[l] => HeldLanes(t)' = HeldLanes(t) \cup {l}
         /\ serving[l] # next[l] => HeldLanes(t)' = HeldLanes(t)
<1>1. pc[t] = "enter" /\ scope' = scope
  BY DEF TakeTicket
<1>2. \/ serving[l] = next[l] /\ LaneGranted(t)
      \/ serving[l] # next[l] /\ pc' = [pc EXCEPT ![t] = "asleep"] /\ held' = held
  BY DEF TakeTicket, Restarts, LaneIdle
<1>3. \A u \in Threads \ {t} : /\ HeldLanes(u)' = HeldLanes(u)
                              /\ \A k : LiveAt(u, k)' <=> LiveAt(u, k)
  BY <1>1, <1>2, ThreadFrame DEF LaneGranted, IInv, TypeOK
<1>4. \A k : LiveAt(t, k) <=> k \in HeldLanes(t)
  BY <1>1 DEF LiveAt, WaitsAt, Waiting
<1>5. CASE serving[l] = next[l]
  BY <1>1, <1>2, <1>3, <1>4, <1>5, GrantedLanes
<1>6. CASE serving[l] # next[l]
  <2>1. pc' = [pc EXCEPT ![t] = "asleep"] /\ held' = held
    BY <1>2, <1>6
  <2>2. HeldLanes(t)' = HeldLanes(t)
    BY <1>1, <2>1 DEF HeldLanes
  <2>3. \A k : LiveAt(t, k)' <=> k \in HeldLanes(t) \/ k = l
    BY <1>1, <2>1, <2>2 DEF LiveAt, WaitsAt, NextLane, Waiting, IInv, TypeOK
  <2>. QED BY <1>3, <1>4, <1>6, <2>2, <2>3
<1>. QED BY <1>5, <1>6

(* A new ticket is the last one of its lane; an idle lane that used up its *)
(* tickets starts again at 0, with the new ticket the only one in it.      *)
LEMMA TakeTicketInv ==
  ASSUME IInv, NEW t \in Threads, TakeTicket(t)
  PROVE  IInv'
<1>0. PICK l \in Lanes : l = NextLane(t) /\ l \notin HeldLanes(t)
  BY NextLaneIsNew DEF TakeTicket
<1>. DEFINE mine == IF Restarts(l) THEN 0 ELSE next[l]
            served == IF Restarts(l) THEN 0 ELSE serving[l]
<1>1. /\ pc[t] = "enter" /\ ~Exhausted(l)
      /\ next' = [next EXCEPT ![l] = mine + 1]
      /\ serving' = [serving EXCEPT ![l] = served]
      /\ ticket' = [ticket EXCEPT ![t][l] = mine]
      /\ UNCHANGED <<cancelled, scope>>
  BY <1>0 DEF TakeTicket
<1>3. \/ served = mine /\ LaneGranted(t)
      \/ served # mine /\ pc' = [pc EXCEPT ![t] = "asleep"] /\ held' = held
  BY <1>0 DEF TakeTicket
<1>2. mine \in Nat /\ mine + 1 \in 0 .. MaxTicket /\ served \in 0 .. MaxTicket
  <2>1. next[l] \in 0 .. MaxTicket /\ serving[l] \in 0 .. MaxTicket
    BY DEF IInv, TypeOK
  <2>2. ~Restarts(l) => next[l] # MaxTicket
    BY <1>1 DEF Restarts, Exhausted
  <2>. QED BY <2>1, <2>2, MaxTicketAssumption
<1>4. /\ next'[l] = mine + 1 /\ serving'[l] = served /\ cancelled'[l] = cancelled[l]
      /\ ticket'[t][l] = mine
      /\ \A u \in Threads \ {t} : ticket'[u] = ticket[u]
      /\ \A k \in Lanes \ {l} : /\ next'[k] = next[k] /\ serving'[k] = serving[k]
                               /\ ticket'[t][k] = ticket[t][k]
  BY <1>1 DEF IInv, TypeOK
<1>5. /\ TypeOK' /\ GuardShape'
      /\ HeldLanes(t)' \subseteq HeldLanes(t) \cup {l}
      /\ served # mine => l \notin HeldLanes(t)'
      /\ \A k : LiveAt(t, k)' <=> k \in HeldLanes(t) \/ k = l
  <2>1. next' \in [Lanes -> 0 .. MaxTicket] /\ serving' \in [Lanes -> 0 .. MaxTicket]
        /\ ticket' \in [Threads -> [Lanes -> 0 .. MaxTicket]]
    <3>1. mine \in 0 .. MaxTicket BY <1>2, MaxTicketAssumption
    <3>. QED BY <1>1, <1>2, <3>1 DEF IInv, TypeOK
  <2>2. CASE served = mine /\ LaneGranted(t)
    BY <1>1, <2>1, <2>2, <1>0, GrantedLanes DEF IInv, TypeOK
  <2>3. CASE served # mine /\ pc' = [pc EXCEPT ![t] = "asleep"] /\ held' = held
    <3>1. TypeOK' BY <1>1, <2>1, <2>3 DEF IInv, TypeOK, PCs, Waiting
    <3>2. GuardShape' BY <1>1, <2>3 DEF IInv, TypeOK, GuardShape
    <3>3. HeldLanes(t)' = HeldLanes(t) BY <1>1, <2>3 DEF HeldLanes
    <3>4. \A k : LiveAt(t, k)' <=> k \in HeldLanes(t) \/ k = l
      BY <1>1, <2>3, <1>0, <3>3 DEF LiveAt, WaitsAt, NextLane, Waiting, IInv, TypeOK
    <3>. QED BY <1>0, <2>3, <3>1, <3>2, <3>3, <3>4
  <2>. QED BY <1>3, <2>2, <2>3
<1>6. \A u \in Threads \ {t} : /\ HeldLanes(u)' = HeldLanes(u)
                              /\ \A k : LiveAt(u, k)' <=> LiveAt(u, k)
  BY <1>0, TakeTicketMoves
<1>7. \A k : LiveAt(t, k) <=> k \in HeldLanes(t)
  BY <1>0, TakeTicketMoves
<1>8. ASSUME NEW k \in Lanes \ {l} PROVE LaneAccounts(k)'
  <2>1. LaneAccounts(k) BY DEF IInv, TicketAccounting
  <2>2. \A u \in Threads :
          /\ LiveAt(u, k)' <=> LiveAt(u, k)
          /\ ticket'[u][k] = ticket[u][k]
          /\ (k \in HeldLanes(u))' => k \in HeldLanes(u)
    BY <1>2, <1>4, <1>5, <1>6, <1>7
  <2>. QED BY <1>1, <1>4, <2>1, <2>2, LaneFrame
<1>9. LaneAccounts(l)'
  <2>1. LaneAccounts(l) /\ next[l] \in Nat /\ serving[l] \in Nat
    BY <1>0 DEF IInv, TypeOK, TicketAccounting
  <2>2. \A u \in Threads \ {t} : LiveAt(u, l) =>
          /\ ~Restarts(l)
          /\ ticket[u][l] \in serving[l] .. (next[l] - 1)
          /\ ticket[u][l] \notin cancelled[l]
    BY <2>1 DEF LaneAccounts, Restarts, LaneIdle
  <2>3. served <= mine + 1 /\ cancelled'[l] \subseteq (served + 1) .. mine
    BY <1>2, <1>4, <2>1 DEF LaneAccounts, Restarts, LaneIdle
  <2>4. \A u \in Threads : LiveAt(u, l)' =>
          /\ ticket'[u][l] \in served .. mine
          /\ ticket'[u][l] \notin cancelled[l]
          /\ u # t => ticket'[u][l] < mine /\ LiveAt(u, l)
    BY <1>2, <1>4, <1>6, <2>1, <2>2 DEF LaneAccounts, Restarts, LaneIdle
  <2>5. \A u, v \in Threads :
          LiveAt(u, l)' /\ LiveAt(v, l)' /\ ticket'[v][l] = ticket'[u][l] => v = u
    BY <1>2, <1>4, <2>1, <2>4 DEF LaneAccounts
  <2>6. \A u \in Threads : (l \in HeldLanes(u))' => ticket'[u][l] = served
    <3>1. \A u \in Threads \ {t} : l \in HeldLanes(u) => ticket[u][l] = served
      BY <2>1, <2>2 DEF LaneAccounts, LiveAt
    <3>. QED BY <1>2, <1>4, <1>5, <1>6, <3>1
  <2>7. ASSUME NEW n \in served .. mine
        PROVE  n \in cancelled[l] \/ \E u \in Threads : LiveAt(u, l)' /\ ticket'[u][l] = n
    <3>1. CASE n = mine BY <1>2, <1>4, <1>5, <3>1
    <3>2. CASE n # mine
      <4>1. ~Restarts(l) /\ n \in serving[l] .. (next[l] - 1) BY <2>1, <3>2
      <4>2. n \in cancelled[l] \/ \E u \in Threads : LiveAt(u, l) /\ ticket[u][l] = n
        BY <2>1, <4>1 DEF LaneAccounts
      <4>. QED BY <1>0, <1>4, <1>6, <1>7, <4>2
    <3>. QED BY <3>1, <3>2
  <2>8. mine + 1 - 1 = mine BY <1>2, <1>4
  <2>. QED BY <1>2, <1>4, <2>3, <2>4, <2>5, <2>6, <2>7, <2>8 DEF LaneAccounts
<1>. QED BY <1>5, <1>8, <1>9 DEF IInv, TicketAccounting

LEMMA TimeoutMoves ==
  ASSUME IInv, NEW t \in Threads, Timeout(t), NEW l \in Lanes, l = NextLane(t), l \notin HeldLanes(t),
         serving[l] # ticket[t][l]
  PROVE  /\ \A u \in Threads \ {t} : /\ HeldLanes(u)' = HeldLanes(u)
                                    /\ \A k : LiveAt(u, k)' <=> LiveAt(u, k)
         /\ HeldLanes(t)' = HeldLanes(t)
         /\ \A k : LiveAt(t, k)' <=> LiveAt(t, k) /\ k # l
         /\ \A u \in Threads, k \in Lanes : u # t \/ k # l => ticket'[u][k] = ticket[u][k]
<1>1. /\ pc[t] \in Waiting
      /\ pc' = Notified(l, [pc EXCEPT ![t] = "releasing"])
      /\ ticket' = [ticket EXCEPT ![t][l] = 0]
      /\ UNCHANGED <<scope, held>>
  BY DEF Timeout
<1>2. /\ pc'[t] = "releasing"
      /\ \A u \in Threads \ {t} : pc'[u] \in Waiting <=> pc[u] \in Waiting
  BY <1>1 DEF IInv, TypeOK, Notified, Waiting
<1>3. \A u \in Threads \ {t} : /\ HeldLanes(u)' = HeldLanes(u)
                              /\ \A k : LiveAt(u, k)' <=> LiveAt(u, k)
  BY <1>1, <1>2, ThreadFrame
<1>4. /\ HeldLanes(t)' = HeldLanes(t)
      /\ \A k : LiveAt(t, k)' <=> LiveAt(t, k) /\ k # l
  BY <1>1, <1>2 DEF HeldLanes, LiveAt, WaitsAt, Waiting
<1>5. \A u \in Threads, k \in Lanes : u # t \/ k # l => ticket'[u][k] = ticket[u][k]
  BY <1>1 DEF IInv, TypeOK
<1>. QED BY <1>3, <1>4, <1>5

(* A waiter that gives up leaves a cancelled ticket behind.  The ticket    *)
(* being served is never a cancelled one, so cancelling serves nobody.     *)
LEMMA TimeoutInv ==
  ASSUME IInv, NEW t \in Threads, Timeout(t)
  PROVE  IInv'
<1>0. PICK l \in Lanes : l = NextLane(t) /\ l \notin HeldLanes(t)
  BY NextLaneIsNew DEF Timeout, Waiting
<1>1. CASE serving[l] = ticket[t][l]
  BY <1>0, <1>1, ServedInv DEF Timeout
<1>2. CASE serving[l] # ticket[t][l]
  <2>. DEFINE cancels == cancelled[l] \cup {ticket[t][l]}
  <2>1. PICK n \in serving[l] .. MaxTicket :
          /\ SkipsTo(serving[l], n, cancels)
          /\ serving' = [serving EXCEPT ![l] = n]
          /\ cancelled' = [cancelled EXCEPT ![l] = cancels \ (serving[l] .. (n - 1))]
    BY <1>0, <1>2 DEF Timeout, Cancelling
  <2>2. /\ pc[t] \in Waiting
        /\ pc' = Notified(l, [pc EXCEPT ![t] = "releasing"])
        /\ ticket' = [ticket EXCEPT ![t][l] = 0]
        /\ UNCHANGED <<next, scope, held>>
    BY <1>0, <1>2 DEF Timeout, Cancelling
  <2>3. LaneAccounts(l) /\ LiveAt(t, l) /\ serving[l] \in Nat /\ next[l] \in Nat
    BY <1>0, <2>2 DEF IInv, TypeOK, TicketAccounting, LiveAt, WaitsAt
  <2>4. /\ ticket[t][l] \in (serving[l] + 1) .. (next[l] - 1)
        /\ ticket[t][l] \notin cancelled[l]
    BY <1>2, <2>3 DEF LaneAccounts
  <2>5. serving[l] \notin cancels
    BY <2>3, <2>4 DEF LaneAccounts
  <2>6. n = serving[l]
    BY <2>1, <2>3, <2>5 DEF SkipsTo
  <2>7. serving' = serving /\ cancelled' = [cancelled EXCEPT ![l] = cancels]
    <3>1. serving[l] .. (serving[l] - 1) = {} BY <2>3
    <3>2. cancels \ (serving[l] .. (n - 1)) = cancels BY <2>6, <3>1
    <3>3. serving' = serving BY <2>1, <2>6 DEF IInv, TypeOK
    <3>. QED BY <2>1, <3>2, <3>3
  <2>8. /\ pc' \in [Threads -> PCs] /\ pc'[t] = "releasing"
        /\ \A u \in Threads \ {t} :
             /\ pc'[u] \in Waiting <=> pc[u] \in Waiting
             /\ pc'[u] # pc[u] => pc[u] = "asleep" /\ pc'[u] = "woken"
    BY <2>2 DEF IInv, TypeOK, Notified, PCs, Waiting
  <2>9. TypeOK'
    <3>1. cancels \in SUBSET (0 .. MaxTicket) BY DEF IInv, TypeOK
    <3>2. ticket' \in [Threads -> [Lanes -> 0 .. MaxTicket]]
      BY <2>2, MaxTicketAssumption DEF IInv, TypeOK
    <3>. QED BY <2>2, <2>7, <2>8, <3>1, <3>2 DEF IInv, TypeOK
  <2>10. GuardShape'
    BY <2>2, <2>8 DEF IInv, TypeOK, GuardShape, Waiting
  <2>11. \A u \in Threads \ {t} : /\ HeldLanes(u)' = HeldLanes(u)
                                 /\ \A k : LiveAt(u, k)' <=> LiveAt(u, k)
    BY <1>0, <1>2, TimeoutMoves
  <2>12. /\ HeldLanes(t)' = HeldLanes(t)
         /\ \A k : LiveAt(t, k)' <=> LiveAt(t, k) /\ k # l
    BY <1>0, <1>2, TimeoutMoves
  <2>13. \A u \in Threads, k \in Lanes : u # t \/ k # l => ticket'[u][k] = ticket[u][k]
    BY <1>0, <1>2, TimeoutMoves
  <2>14. ASSUME NEW k \in Lanes \ {l} PROVE LaneAccounts(k)'
    <3>1. LaneAccounts(k) BY DEF IInv, TicketAccounting
    <3>2. cancelled'[k] = cancelled[k] BY <2>7 DEF IInv, TypeOK
    <3>. QED BY <2>2, <2>7, <2>11, <2>12, <2>13, <3>1, <3>2, LaneFrame
  <2>15. LaneAccounts(l)'
    <3>1. cancelled'[l] = cancels BY <2>7 DEF IInv, TypeOK
    <3>2. \A u \in Threads : LiveAt(u, l)' =>
            /\ ticket'[u][l] = ticket[u][l] /\ LiveAt(u, l)
            /\ ticket[u][l] \notin cancels
      BY <2>3, <2>11, <2>12, <2>13 DEF LaneAccounts
    <3>3. \A m \in serving[l] .. (next[l] - 1) :
            m \in cancels \/ \E u \in Threads : LiveAt(u, l)' /\ ticket'[u][l] = m
      BY <2>3, <2>11, <2>13 DEF LaneAccounts
    <3>4. \A u \in Threads : (l \in HeldLanes(u))' => ticket'[u][l] = serving[l]
      BY <1>0, <2>3, <2>11, <2>12, <2>13 DEF LaneAccounts
    <3>. QED BY <2>2, <2>3, <2>4, <2>7, <3>1, <3>2, <3>3, <3>4 DEF LaneAccounts
  <2>. QED BY <2>9, <2>10, <2>14, <2>15 DEF IInv, TicketAccounting
<1>. QED BY <1>1, <1>2

(* The lane a thread gives back is the last one it took.                   *)
LEMMA LastLane ==
  ASSUME IInv, NEW t \in Threads, ReleaseLane(t), NEW l, l = LockFileNames(scope[t])[held[t]]
  PROVE  /\ pc[t] = "releasing" /\ held[t] \in Nat \ {0} /\ scope[t] \in UsedScopes
         /\ held[t] \in 1 .. Len(LockFileNames(scope[t]))
         /\ Len(LockFileNames(scope[t])) \in Nat
         /\ l \in Lanes /\ l \in HeldLanes(t)
         /\ \A i \in 1 .. (held[t] - 1) : LockFileNames(scope[t])[i] # l
<1>1. /\ pc[t] = "releasing" /\ held[t] \in Nat \ {0} /\ scope[t] \in UsedScopes /\ scope[t] \in Scopes
      /\ held[t] <= Len(LockFileNames(scope[t]))
  BY ScopesAssumption DEF ReleaseLane, IInv, TypeOK, GuardShape
<1>2. Len(LockFileNames(scope[t])) \in Nat
  BY <1>1, ScopeLanes
<1>3. held[t] \in 1 .. held[t] /\ held[t] \in 1 .. Len(LockFileNames(scope[t]))
  BY <1>1, <1>2
<1>4. l \in Lanes
  BY <1>1, <1>3, ScopeLanes
<1>5. \A i \in 1 .. (held[t] - 1) :
        i \in 1 .. Len(LockFileNames(scope[t])) /\ i # held[t]
  BY <1>1, <1>2
<1>. QED BY <1>1, <1>2, <1>3, <1>4, <1>5, ScopeLanes DEF HeldLanes

LEMMA ReleaseMoves ==
  ASSUME IInv, NEW t \in Threads, ReleaseLane(t), NEW l \in Lanes, l = LockFileNames(scope[t])[held[t]]
  PROVE  /\ \A u \in Threads \ {t} : /\ HeldLanes(u)' = HeldLanes(u)
                                    /\ \A k : LiveAt(u, k)' <=> LiveAt(u, k)
         /\ HeldLanes(t)' = HeldLanes(t) \ {l}
         /\ \A k : LiveAt(t, k)' <=> LiveAt(t, k) /\ k # l
         /\ \A u \in Threads, k \in Lanes : u # t \/ k # l => ticket'[u][k] = ticket[u][k]
<1>1. /\ pc' \in {pc, Notified(l, pc)} /\ held' = [held EXCEPT ![t] = @ - 1]
      /\ ticket' = [ticket EXCEPT ![t][l] = 0]
      /\ UNCHANGED scope
  BY DEF ReleaseLane
<1>2. /\ pc'[t] = pc[t] /\ pc[t] = "releasing"
      /\ \A u \in Threads : pc'[u] \in Waiting <=> pc[u] \in Waiting
  BY <1>1, LastLane DEF IInv, TypeOK, Notified, Waiting
<1>3. held'[t] = held[t] - 1 /\ \A u \in Threads \ {t} : held'[u] = held[u]
  BY <1>1 DEF IInv, TypeOK
<1>4. \A u \in Threads \ {t} : /\ HeldLanes(u)' = HeldLanes(u)
                              /\ \A k : LiveAt(u, k)' <=> LiveAt(u, k)
  BY <1>1, <1>2, <1>3, ThreadFrame
<1>5. HeldLanes(t)' = HeldLanes(t) \ {l}
  <2>1. 1 .. held[t] = (1 .. (held[t] - 1)) \cup {held[t]}
    BY LastLane
  <2>. QED BY <1>1, <1>3, <2>1, LastLane DEF HeldLanes
<1>6. \A k : LiveAt(t, k)' <=> LiveAt(t, k) /\ k # l
  BY <1>2, <1>5 DEF LiveAt, WaitsAt, Waiting
<1>7. \A u \in Threads, k \in Lanes : u # t \/ k # l => ticket'[u][k] = ticket[u][k]
  BY <1>1 DEF IInv, TypeOK
<1>. QED BY <1>4, <1>5, <1>6, <1>7

(* Releasing a lane serves the oldest ticket that was not cancelled.       *)
LEMMA ReleaseLaneInv ==
  ASSUME IInv, NEW t \in Threads, ReleaseLane(t)
  PROVE  IInv'
<1>2. PICK l \in Lanes : l = LockFileNames(scope[t])[held[t]]
  BY LastLane
<1>1. /\ pc[t] = "releasing" /\ held[t] \in Nat \ {0} /\ scope[t] \in Scopes
      /\ held[t] <= Len(LockFileNames(scope[t]))
      /\ Len(LockFileNames(scope[t])) \in Nat
  BY LastLane, ScopesAssumption
<1>3. l \in HeldLanes(t)
  BY <1>2, LastLane
<1>4. LaneAccounts(l) /\ LiveAt(t, l)
  BY <1>3 DEF IInv, TicketAccounting, LiveAt
<1>5. /\ serving[l] \in Nat /\ next[l] \in Nat /\ next[l] <= MaxTicket
      /\ ticket[t][l] = serving[l] /\ serving[l] < next[l]
      /\ SaturatingSucc(serving[l]) = serving[l] + 1
  BY <1>3, <1>4, MaxTicketAssumption DEF LaneAccounts, IInv, TypeOK, SaturatingSucc
<1>6. PICK n \in (serving[l] + 1) .. MaxTicket :
        /\ SkipsTo(serving[l] + 1, n, cancelled[l])
        /\ serving' = [serving EXCEPT ![l] = n]
        /\ cancelled' = [cancelled EXCEPT ![l] = @ \ ((serving[l] + 1) .. (n - 1))]
  BY <1>2, <1>5 DEF ReleaseLane
<1>7. /\ pc' = Notified(l, pc) /\ held' = [held EXCEPT ![t] = @ - 1]
      /\ ticket' = [ticket EXCEPT ![t][l] = 0]
      /\ UNCHANGED <<next, scope>>
  BY <1>2, <1>5 DEF ReleaseLane
<1>8. n <= next[l] /\ n \notin cancelled[l] /\ (serving[l] + 1) .. (n - 1) \subseteq cancelled[l]
  <2>1. n > next[l] => next[l] \in (serving[l] + 1) .. (n - 1)
    BY <1>5
  <2>. QED BY <1>4, <1>5, <1>6, <2>1 DEF LaneAccounts, SkipsTo
<1>9. /\ pc' \in [Threads -> PCs] /\ pc'[t] = pc[t]
      /\ \A u \in Threads :
           /\ pc'[u] \in Waiting <=> pc[u] \in Waiting
           /\ pc'[u] # pc[u] => pc[u] = "asleep" /\ pc'[u] = "woken"
  BY <1>1, <1>7 DEF IInv, TypeOK, Notified, PCs, Waiting
<1>10. /\ held' \in [Threads -> Nat] /\ held'[t] = held[t] - 1
       /\ \A u \in Threads \ {t} : held'[u] = held[u]
  BY <1>1, <1>7 DEF IInv, TypeOK
<1>11. TypeOK'
  <2>1. ticket' \in [Threads -> [Lanes -> 0 .. MaxTicket]]
    BY <1>7, MaxTicketAssumption DEF IInv, TypeOK
  <2>2. serving' \in [Lanes -> 0 .. MaxTicket]
    BY <1>5, <1>6, MaxTicketAssumption DEF IInv, TypeOK
  <2>3. cancelled' \in [Lanes -> SUBSET (0 .. MaxTicket)]
    BY <1>6 DEF IInv, TypeOK
  <2>. QED BY <1>7, <1>9, <1>10, <2>1, <2>2, <2>3 DEF IInv, TypeOK
<1>12. GuardShape'
  BY <1>1, <1>7, <1>9, <1>10 DEF IInv, GuardShape, TypeOK
<1>13. \A u \in Threads \ {t} : /\ HeldLanes(u)' = HeldLanes(u)
                               /\ \A k : LiveAt(u, k)' <=> LiveAt(u, k)
  BY <1>2, ReleaseMoves
<1>14. HeldLanes(t)' = HeldLanes(t) \ {l} /\ \A k : LiveAt(t, k)' <=> LiveAt(t, k) /\ k # l
  BY <1>2, ReleaseMoves
<1>16. \A u \in Threads, k \in Lanes : u # t \/ k # l => ticket'[u][k] = ticket[u][k]
  BY <1>2, ReleaseMoves
<1>17. ASSUME NEW k \in Lanes \ {l} PROVE LaneAccounts(k)'
  <2>1. LaneAccounts(k) BY DEF IInv, TicketAccounting
  <2>2. cancelled'[k] = cancelled[k] /\ serving'[k] = serving[k] /\ next'[k] = next[k]
    BY <1>6, <1>7 DEF IInv, TypeOK
  <2>3. \A u \in Threads : /\ LiveAt(u, k)' <=> LiveAt(u, k)
                           /\ ticket'[u][k] = ticket[u][k]
                           /\ (k \in HeldLanes(u))' => k \in HeldLanes(u)
    BY <1>13, <1>14, <1>16
  <2>. QED BY <2>1, <2>2, <2>3, LaneFrame
<1>18. LaneAccounts(l)'
  <2>1. /\ serving'[l] = n /\ next'[l] = next[l]
        /\ cancelled'[l] = cancelled[l] \ ((serving[l] + 1) .. (n - 1))
    BY <1>6, <1>7 DEF IInv, TypeOK
  <2>2. cancelled'[l] \subseteq (n + 1) .. (next[l] - 1)
    BY <1>4, <1>5, <1>8, <2>1 DEF LaneAccounts
  <2>3. \A u \in Threads : LiveAt(u, l)' =>
          /\ u # t /\ LiveAt(u, l) /\ ticket'[u][l] = ticket[u][l]
          /\ ticket[u][l] \in n .. (next[l] - 1) /\ ticket[u][l] \notin cancelled[l]
          /\ l \notin HeldLanes(u)
    <3>1. \A u \in Threads : LiveAt(u, l)' =>
            u # t /\ LiveAt(u, l) /\ ticket'[u][l] = ticket[u][l]
      BY <1>13, <1>14, <1>16
    <3>2. \A u \in Threads : LiveAt(u, l) /\ u # t =>
            /\ ticket[u][l] \in (serving[l] + 1) .. (next[l] - 1)
            /\ ticket[u][l] \notin cancelled[l]
            /\ l \notin HeldLanes(u)
      BY <1>4, <1>5 DEF LaneAccounts
    <3>. QED BY <1>5, <1>8, <3>1, <3>2
  <2>4. \A m \in n .. (next[l] - 1) :
          m \in cancelled'[l] \/ \E u \in Threads : LiveAt(u, l)' /\ ticket'[u][l] = m
    <3>. SUFFICES ASSUME NEW m \in n .. (next[l] - 1), m \notin cancelled'[l]
                  PROVE \E u \in Threads : LiveAt(u, l)' /\ ticket'[u][l] = m
      OBVIOUS
    <3>1. m \in serving[l] .. (next[l] - 1) /\ m \notin cancelled[l] /\ m # serving[l]
      BY <1>5, <2>1
    <3>2. PICK u \in Threads : LiveAt(u, l) /\ ticket[u][l] = m
      BY <1>4, <3>1 DEF LaneAccounts
    <3>3. u # t BY <1>5, <3>1, <3>2
    <3>. QED BY <1>13, <1>16, <3>2, <3>3
  <2>5. \A u \in Threads : (l \in HeldLanes(u))' => ticket'[u][l] = n
    BY <1>13, <1>14, <2>3 DEF LiveAt
  <2>6. \A u, v \in Threads :
          LiveAt(u, l)' /\ LiveAt(v, l)' /\ ticket'[v][l] = ticket'[u][l] => v = u
    BY <1>4, <2>3 DEF LaneAccounts
  <2>. QED BY <1>8, <2>1, <2>2, <2>3, <2>4, <2>5, <2>6 DEF LaneAccounts
<1>. QED BY <1>11, <1>12, <1>17, <1>18 DEF IInv, TicketAccounting

-----------------------------------------------------------------------------
(* Every critical section of a lane keeps the inductive invariant.         *)
LEMMA StepInv == IInv /\ [Next]_vars => IInv'
<1>. SUFFICES ASSUME IInv, [Next]_vars PROVE IInv'
  OBVIOUS
<1>1. CASE UNCHANGED vars
  <2>1. TypeOK' /\ GuardShape'
    BY <1>1 DEF vars, IInv, TypeOK, GuardShape
  <2>2. \A l \in Lanes : LaneAccounts(l)'
    BY <1>1, ThreadFrame, LaneFrame DEF vars, IInv, TicketAccounting
  <2>. QED BY <2>1, <2>2 DEF IInv, TicketAccounting
<1>2. ASSUME NEW t \in Threads, NEW s \in UsedScopes, Request(t, s) PROVE IInv'
  BY <1>2, RequestInv
<1>3. ASSUME NEW t \in Threads, Step(t) PROVE IInv'
  BY <1>3, TakeTicketInv, QuietInv, RecheckInv, ReleaseLaneInv DEF Step
<1>4. ASSUME NEW t \in Threads, Timeout(t) PROVE IInv'
  BY <1>4, TimeoutInv
<1>. QED BY <1>1, <1>2, <1>3, <1>4 DEF Next

(* Type correctness and ticket accounting of write admission               *)
(* (BinaryDbWriteAdmissionLane): in every lane the tickets between the one *)
(* being served and the last one issued are exactly the cancelled ones and *)
(* those of the threads in the lane, each once, and a holder has the       *)
(* served one.                                                             *)
THEOREM AdmissionAccounts == Spec => [](TypeOK /\ TicketAccounting)
<1>1. IInv => TypeOK /\ TicketAccounting BY DEF IInv
<1>. QED BY <1>1, InitInv, StepInv, PTL DEF Spec

(* BinaryDbWriterAdmission::acquire gives a lane to one thread at a time,  *)
(* whatever times out and however often the ticket space restarts.         *)
THEOREM AdmissionExcludes == Spec => []LaneExclusion
<1>1. IInv => LaneExclusion
  <2>. SUFFICES ASSUME IInv, NEW t \in Threads, NEW u \in Threads,
                       NEW l, l \in HeldLanes(t), l \in HeldLanes(u)
                PROVE  t = u
    BY DEF LaneExclusion
  <2>1. l \in Lanes
    <3>1. /\ held[t] \in Nat /\ held[t] # 0
      BY DEF HeldLanes, IInv, TypeOK
    <3>2. /\ scope[t] \in Scopes /\ held[t] <= Len(LockFileNames(scope[t]))
      BY <3>1, ScopesAssumption DEF IInv, GuardShape
    <3>3. Len(LockFileNames(scope[t])) \in Nat BY <3>2, ScopeLanes
    <3>4. 1 .. held[t] \subseteq 1 .. Len(LockFileNames(scope[t])) BY <3>1, <3>2, <3>3
    <3>. QED BY <3>2, <3>4, ScopeLanes DEF HeldLanes
  <2>. QED BY <2>1 DEF IInv, TicketAccounting, LaneAccounts, LiveAt
<1>. QED BY <1>1, InitInv, StepInv, PTL DEF Spec

(* A lane never serves a ticket that was cancelled or whose thread is      *)
(* gone, so release and skip_cancelled_locked never strand a lane.         *)
THEOREM AdmissionServesTheLiving == Spec => []NoOrphanHead
<1>1. IInv => NoOrphanHead
  <2>. SUFFICES ASSUME IInv, NEW l \in Lanes, serving[l] # next[l]
                PROVE  \E t \in Threads : LiveAt(t, l) /\ ticket[t][l] = serving[l]
    BY DEF NoOrphanHead
  <2>1. serving[l] \in Nat /\ next[l] \in Nat
    BY DEF IInv, TypeOK
  <2>2. /\ serving[l] <= next[l]
        /\ cancelled[l] \subseteq (serving[l] + 1) .. (next[l] - 1)
    BY DEF IInv, TicketAccounting, LaneAccounts
  <2>3. serving[l] \in serving[l] .. (next[l] - 1) /\ serving[l] \notin cancelled[l]
    BY <2>1, <2>2
  <2>. QED BY <2>3 DEF IInv, TicketAccounting, LaneAccounts
<1>. QED BY <1>1, InitInv, StepInv, PTL DEF Spec

(* The lanes, the tickets and the threads' places in acquire have their    *)
(* types, in BinaryDbWriteAdmissionLane and in the threads that use it.    *)
THEOREM AdmissionTypes == Spec => []TypeOK
<1>. QED BY AdmissionAccounts, PTL

-----------------------------------------------------------------------------
(* Queues in the order of tickets.                                         *)

Ordered(q, S, key) ==
  /\ q \in Seq(S) /\ \A t \in S : \E i \in 1 .. Len(q) : q[i] = t
  /\ \A i, j \in 1 .. Len(q) : i < j => key[q[i]] < key[q[j]]

LEMMA OrderedIs ==
  ASSUME NEW S, NEW key, \A t \in S : key[t] \in Nat, NEW q, Ordered(q, S, key)
  PROVE  /\ Len(q) \in Nat /\ q = [i \in 1 .. Len(q) |-> q[i]]
         /\ \A i \in 1 .. Len(q) : q[i] \in S
         /\ \A i, j \in 1 .. Len(q) : key[q[i]] < key[q[j]] => i < j
         /\ \A i, j \in 1 .. Len(q) : i < j => key[q[i]] < key[q[j]]
         /\ \A i, j \in 1 .. Len(q) : q[i] = q[j] => i = j
<1>1. q \in Seq(S) /\ Len(q) \in Nat /\ \A i \in 1 .. Len(q) : q[i] \in S
  BY DEF Ordered
<1>2. ASSUME NEW i \in 1 .. Len(q), NEW j \in 1 .. Len(q)
      PROVE  /\ key[q[i]] < key[q[j]] => i < j
             /\ i < j => key[q[i]] < key[q[j]]
             /\ q[i] = q[j] => i = j
  <2>1. /\ i < j => key[q[i]] < key[q[j]]
        /\ j < i => key[q[j]] < key[q[i]]
    BY DEF Ordered
  <2>2. key[q[i]] \in Nat /\ key[q[j]] \in Nat /\ i \in Nat /\ j \in Nat
    BY <1>1
  <2>. QED BY <2>1, <2>2
<1>. QED BY <1>1, <1>2

(* A prefix of an ordered queue has as many members as its length.         *)
LEMMA PrefixCount ==
  ASSUME NEW S, NEW key, \A t \in S : key[t] \in Nat, NEW q, Ordered(q, S, key),
         NEW n \in 0 .. Len(q)
  PROVE  Cardinality({q[i] : i \in 1 .. n}) = n
<1>. DEFINE f == [i \in 1 .. n |-> q[i]]
            M == {q[i] : i \in 1 .. n}
<1>1. Len(q) \in Nat /\ n \in Nat /\ 1 .. n \subseteq 1 .. Len(q)
  BY OrderedIs
<1>2. \A i, j \in 1 .. n : f[i] = f[j] => i = j
  BY <1>1, OrderedIs
<1>3. f \in [1 .. n -> M] /\ \A x \in M : \E i \in 1 .. n : f[i] = x
  OBVIOUS
<1>4. f \in Bijection(1 .. n, M)
  BY <1>2, <1>3 DEF Bijection, Injection, Surjection, IsInjective
<1>5. ExistsBijection(1 .. n, M)
  BY <1>4 DEF ExistsBijection
<1>6. IsFiniteSet(1 .. n) /\ Cardinality(1 .. n) = n
  BY <1>1, FS_Interval
<1>. QED BY <1>5, <1>6, FS_Bijection

(* There is one order of the members, that of InOrder.                     *)
LEMMA OrderedIsInOrder ==
  ASSUME NEW S, NEW key, \A t \in S : key[t] \in Nat, NEW q, Ordered(q, S, key)
  PROVE  q = InOrder(S, key)
<1>. DEFINE n == Len(q)
            Before(t) == {u \in S : key[u] < key[t]}
<1>1. /\ n \in Nat /\ q = [i \in 1 .. n |-> q[i]] /\ \A i \in 1 .. n : q[i] \in S
      /\ \A i, j \in 1 .. n : key[q[i]] < key[q[j]] => i < j
      /\ \A i, j \in 1 .. n : i < j => key[q[i]] < key[q[j]]
      /\ \A i, j \in 1 .. n : q[i] = q[j] => i = j
  <2>1. q \in Seq(S) /\ n \in Nat /\ q = [i \in 1 .. n |-> q[i]]
    BY DEF Ordered
  <2>2. \A i \in 1 .. n : q[i] \in S
    BY OrderedIs
  <2>3. /\ \A i, j \in 1 .. n : key[q[i]] < key[q[j]] => i < j
        /\ \A i, j \in 1 .. n : i < j => key[q[i]] < key[q[j]]
    BY OrderedIs
  <2>4. \A i, j \in 1 .. n : q[i] = q[j] => i = j
    BY OrderedIs
  <2>. QED BY <2>1, <2>2, <2>3, <2>4
<1>2. \A t \in S : \E i \in 1 .. n : q[i] = t
  BY DEF Ordered
<1>3. Cardinality(S) = n
  <2>1. S = {q[i] : i \in 1 .. n}
    BY <1>1, <1>2
  <2>2. n \in 0 .. Len(q)
    BY <1>1
  <2>. QED BY <2>1, <2>2, PrefixCount
<1>4. ASSUME NEW i \in 1 .. n PROVE Cardinality(Before(q[i])) = i - 1
  <2>1. Before(q[i]) = {q[j] : j \in 1 .. (i - 1)}
    <3>1. ASSUME NEW u \in Before(q[i]) PROVE u \in {q[j] : j \in 1 .. (i - 1)}
      <4>1. PICK j \in 1 .. n : q[j] = u
        BY <1>2
      <4>2. j < i
        BY <1>1, <4>1
      <4>. QED BY <1>1, <4>1, <4>2
    <3>2. ASSUME NEW j \in 1 .. (i - 1) PROVE q[j] \in Before(q[i])
      <4>1. j \in 1 .. n /\ j < i
        BY <1>1
      <4>. QED BY <1>1, <4>1
    <3>. QED BY <3>1, <3>2
  <2>2. i - 1 \in 0 .. Len(q)
    BY <1>1
  <2>. QED BY <2>1, <2>2, PrefixCount
<1>. HIDE DEF Before
<1>5. ASSUME NEW i \in 1 .. n PROVE q[i] = CHOOSE t \in S : Cardinality(Before(t)) = i - 1
  <2>1. q[i] \in S /\ Cardinality(Before(q[i])) = i - 1
    BY <1>1, <1>4
  <2>2. ASSUME NEW t \in S, Cardinality(Before(t)) = i - 1 PROVE t = q[i]
    <3>1. PICK j \in 1 .. n : q[j] = t
      BY <1>2
    <3>2. j - 1 = i - 1
      BY <1>4, <2>2, <3>1
    <3>. QED BY <1>1, <3>1, <3>2
  <2>. QED BY <2>1, <2>2
<1>. QED BY <1>1, <1>3, <1>5 DEF InOrder, Before

(* And InOrder is one.                                                     *)
LEMMA InOrderIsOrdered ==
  ASSUME NEW S, IsFiniteSet(S), NEW key, \A t \in S : key[t] \in Nat,
         \A t, u \in S : key[t] = key[u] => t = u
  PROVE  Ordered(InOrder(S, key), S, key)
<1>. DEFINE n == Cardinality(S)
            Before(t) == {u \in S : key[u] < key[t]}
            q == InOrder(S, key)
            rank == [t \in S |-> Cardinality(Before(t)) + 1]
<1>1. n \in Nat /\ IsFiniteSet(1 .. n) /\ Cardinality(1 .. n) = n
  BY FS_CardinalityType, FS_Interval
<1>2. ASSUME NEW t \in S PROVE Cardinality(Before(t)) \in 0 .. (n - 1)
  <2>1. IsFiniteSet(S \ {t}) /\ Cardinality(S \ {t}) = n - 1
    BY FS_RemoveElement
  <2>2. Before(t) \in SUBSET (S \ {t})
    OBVIOUS
  <2>3. IsFiniteSet(Before(t)) /\ Cardinality(Before(t)) <= n - 1
    BY <2>1, <2>2, FS_Subset
  <2>4. Cardinality(Before(t)) \in Nat
    BY <2>3, FS_CardinalityType
  <2>. QED BY <1>1, <2>3, <2>4
<1>3. ASSUME NEW t \in S, NEW u \in S, key[t] < key[u]
      PROVE  Cardinality(Before(t)) < Cardinality(Before(u))
  <2>1. Before(t) \in SUBSET Before(u)
    <3>1. ASSUME NEW v \in Before(t) PROVE v \in Before(u)
      BY <1>3, <3>1
    <3>. QED BY <3>1
  <2>2. t \in Before(u) /\ t \notin Before(t)
    BY <1>3
  <2>3. Before(u) \in SUBSET S
    OBVIOUS
  <2>4. IsFiniteSet(Before(u))
    BY <2>3, FS_Subset
  <2>5. Cardinality(Before(t)) <= Cardinality(Before(u)) /\ Cardinality(Before(t)) # Cardinality(Before(u))
    BY <2>1, <2>2, <2>4, FS_Subset
  <2>6. Cardinality(Before(t)) \in Nat /\ Cardinality(Before(u)) \in Nat
    BY <1>2
  <2>. QED BY <2>5, <2>6
<1>. HIDE DEF Before
<1>4. \A t, u \in S : Cardinality(Before(t)) = Cardinality(Before(u)) => t = u
  <2>. SUFFICES ASSUME NEW t \in S, NEW u \in S, t # u
                PROVE  Cardinality(Before(t)) # Cardinality(Before(u))
    OBVIOUS
  <2>1. key[t] < key[u] \/ key[u] < key[t]
    OBVIOUS
  <2>2. Cardinality(Before(t)) \in Nat /\ Cardinality(Before(u)) \in Nat
    BY <1>2
  <2>. QED BY <1>3, <2>1, <2>2
<1>5. rank \in Injection(S, 1 .. n)
  <2>1. rank \in [S -> 1 .. n]
    BY <1>1, <1>2
  <2>2. ASSUME NEW t \in S, NEW u \in S, rank[t] = rank[u] PROVE t = u
    <3>1. Cardinality(Before(t)) + 1 = Cardinality(Before(u)) + 1
      BY <2>2
    <3>2. Cardinality(Before(t)) = Cardinality(Before(u))
      BY <1>2, <3>1
    <3>. QED BY <1>4, <3>2
  <2>. QED BY <2>1, <2>2 DEF Injection, IsInjective
<1>6. rank \in Surjection(S, 1 .. n)
  BY <1>1, <1>5, FS_Injection
<1>7. ASSUME NEW i \in 1 .. n PROVE \E t \in S : Cardinality(Before(t)) = i - 1
  <2>1. PICK t \in S : rank[t] = i
    BY <1>6 DEF Surjection
  <2>2. Cardinality(Before(t)) + 1 = i
    BY <2>1
  <2>. QED BY <1>2, <2>2
<1>8. q = [i \in 1 .. n |-> CHOOSE t \in S : Cardinality(Before(t)) = i - 1]
  BY DEF InOrder, Before
<1>. HIDE DEF q, rank
<1>9. \A i \in 1 .. n : q[i] \in S /\ Cardinality(Before(q[i])) = i - 1
  BY <1>7, <1>8
<1>10. q \in Seq(S) /\ Len(q) = n
  BY <1>1, <1>8, <1>9
<1>11. ASSUME NEW t \in S PROVE \E i \in 1 .. n : q[i] = t
  <2>1. Cardinality(Before(t)) + 1 \in 1 .. n /\ (Cardinality(Before(t)) + 1) - 1 = Cardinality(Before(t))
    BY <1>1, <1>2
  <2>2. Cardinality(Before(q[Cardinality(Before(t)) + 1])) = Cardinality(Before(t))
        /\ q[Cardinality(Before(t)) + 1] \in S
    BY <1>9, <2>1
  <2>. QED BY <1>4, <2>1, <2>2
<1>12. ASSUME NEW i \in 1 .. n, NEW j \in 1 .. n, i < j PROVE key[q[i]] < key[q[j]]
  <2>1. /\ q[i] \in S /\ q[j] \in S
        /\ Cardinality(Before(q[i])) = i - 1 /\ Cardinality(Before(q[j])) = j - 1
    BY <1>9
  <2>2. q[i] # q[j] /\ ~(key[q[j]] < key[q[i]])
    BY <1>3, <1>12, <2>1
  <2>3. key[q[i]] # key[q[j]] /\ key[q[i]] \in Nat /\ key[q[j]] \in Nat
    BY <2>1, <2>2
  <2>. QED BY <2>2, <2>3
<1>. QED BY <1>10, <1>11, <1>12 DEF Ordered, q

(* Joining at the back and leaving keep the order.                         *)
LEMMA JoinKeepsOrder ==
  ASSUME NEW S, NEW key, NEW q, Ordered(q, S, key), NEW t, t \notin S, NEW keys,
         \A u \in S : keys[u] = key[u] /\ keys[u] < keys[t]
  PROVE  Ordered(Append(q, t), S \cup {t}, keys)
<1>. DEFINE a == Append(q, t)
            R == S \cup {t}
<1>1. q \in Seq(S) /\ Len(q) \in Nat /\ \A i \in 1 .. Len(q) : q[i] \in S
  BY DEF Ordered
<1>0. q \in Seq(R) /\ t \in R
  BY <1>1
<1>2. /\ a \in Seq(R) /\ Len(a) = Len(q) + 1 /\ a[Len(q) + 1] = t
      /\ \A i \in 1 .. Len(q) : a[i] = q[i]
  BY <1>0
<1>. HIDE DEF a, R
<1>3. ASSUME NEW u \in R PROVE \E i \in 1 .. Len(a) : a[i] = u
  <2>1. CASE u = t
    BY <1>1, <1>2, <2>1
  <2>2. CASE u \in S
    <3>1. PICK i \in 1 .. Len(q) : q[i] = u
      BY <2>2 DEF Ordered
    <3>2. i \in 1 .. Len(a) /\ a[i] = u
      BY <1>1, <1>2, <3>1
    <3>. QED BY <3>2
  <2>. QED BY <2>1, <2>2 DEF R
<1>4. ASSUME NEW i \in 1 .. Len(a), NEW j \in 1 .. Len(a), i < j PROVE keys[a[i]] < keys[a[j]]
  <2>1. i \in 1 .. Len(q) /\ a[i] = q[i] /\ q[i] \in S
    BY <1>1, <1>2, <1>4
  <2>2. CASE j = Len(q) + 1
    BY <1>2, <2>1, <2>2
  <2>3. CASE j # Len(q) + 1
    <3>1. j \in 1 .. Len(q)
      BY <1>1, <1>2, <2>3
    <3>2. a[j] = q[j] /\ q[j] \in S /\ key[q[i]] < key[q[j]]
      BY <1>1, <1>2, <1>4, <2>1, <3>1 DEF Ordered
    <3>. QED BY <2>1, <3>2
  <2>. QED BY <2>2, <2>3
<1>. QED BY <1>2, <1>3, <1>4 DEF Ordered, a, R

LEMMA LeaveKeepsOrder ==
  ASSUME NEW S, NEW key, \A u \in S : key[u] \in Nat, NEW q, Ordered(q, S, key),
         NEW i \in 1 .. Len(q), NEW keys, \A u \in S \ {q[i]} : keys[u] = key[u]
  PROVE  Ordered(Lane!Without(q, i), S \ {q[i]}, keys)
<1>. DEFINE w == Lane!Without(q, i)
            R == S \ {q[i]}
            at(j) == IF j < i THEN j ELSE j + 1
<1>1. /\ q \in Seq(S) /\ Len(q) \in Nat /\ \A j \in 1 .. Len(q) : q[j] \in S
      /\ \A j, k \in 1 .. Len(q) : q[j] = q[k] => j = k
  <2>1. q \in Seq(S)
    BY DEF Ordered
  <2>2. \A j, k \in 1 .. Len(q) : q[j] = q[k] => j = k
    BY OrderedIs
  <2>. QED BY <2>1, <2>2
<1>2. ASSUME NEW j \in 1 .. (Len(q) - 1) PROVE at(j) \in 1 .. Len(q) /\ at(j) # i
  BY <1>1
<1>3. ASSUME NEW j \in 1 .. (Len(q) - 1), NEW k \in 1 .. (Len(q) - 1), j < k PROVE at(j) < at(k)
  BY <1>1, <1>3
<1>4. ASSUME NEW j \in 1 .. Len(q), j # i PROVE \E k \in 1 .. (Len(q) - 1) : at(k) = j
  <2>1. CASE j < i
    <3>1. j \in 1 .. (Len(q) - 1) /\ at(j) = j
      BY <1>1, <2>1
    <3>. QED BY <3>1
  <2>2. CASE ~(j < i)
    <3>1. j - 1 \in 1 .. (Len(q) - 1) /\ ~(j - 1 < i) /\ (j - 1) + 1 = j
      BY <1>1, <1>4, <2>2
    <3>. QED BY <3>1
  <2>. QED BY <2>1, <2>2
<1>5. w = [j \in 1 .. (Len(q) - 1) |-> q[at(j)]]
  BY DEF Lane!Without
<1>6. Len(q) - 1 \in Nat
  BY <1>1
<1>. HIDE DEF w, at
<1>7. ASSUME NEW j \in 1 .. (Len(q) - 1) PROVE w[j] = q[at(j)] /\ w[j] \in S /\ w[j] # q[i]
  BY <1>1, <1>2, <1>5
<1>8. w \in Seq(R) /\ Len(w) = Len(q) - 1
  BY <1>5, <1>6, <1>7
<1>9. ASSUME NEW u \in R PROVE \E k \in 1 .. Len(w) : w[k] = u
  <2>1. PICK j \in 1 .. Len(q) : q[j] = u
    BY DEF Ordered
  <2>2. j # i
    BY <2>1
  <2>3. PICK k \in 1 .. (Len(q) - 1) : at(k) = j
    BY <1>4, <2>2
  <2>. QED BY <1>7, <1>8, <2>1, <2>3
<1>10. ASSUME NEW j \in 1 .. Len(w), NEW k \in 1 .. Len(w), j < k PROVE keys[w[j]] < keys[w[k]]
  <2>1. j \in 1 .. (Len(q) - 1) /\ k \in 1 .. (Len(q) - 1)
    BY <1>8
  <2>2. key[q[at(j)]] < key[q[at(k)]]
    BY <1>2, <1>3, <1>10, <2>1 DEF Ordered
  <2>3. w[j] \in R /\ w[k] \in R /\ w[j] = q[at(j)] /\ w[k] = q[at(k)]
    BY <1>7, <2>1
  <2>. QED BY <2>2, <2>3
<1>. QED BY <1>8, <1>9, <1>10 DEF Ordered, w

LEMMA SameKeysSameOrder ==
  ASSUME NEW S, NEW key, NEW q, Ordered(q, S, key), NEW keys, \A u \in S : keys[u] = key[u]
  PROVE  Ordered(q, S, keys)
<1>1. q \in Seq(S) /\ \A t \in S : \E i \in 1 .. Len(q) : q[i] = t
  BY DEF Ordered
<1>2. ASSUME NEW i \in 1 .. Len(q), NEW j \in 1 .. Len(q), i < j PROVE keys[q[i]] < keys[q[j]]
  <2>1. key[q[i]] < key[q[j]]
    BY <1>2 DEF Ordered
  <2>2. q[i] \in S /\ q[j] \in S
    BY <1>1
  <2>. QED BY <2>1, <2>2
<1>. QED BY <1>1, <1>2 DEF Ordered

(* What is at the front has the least key.                                 *)
LEMMA FirstIsLeast ==
  ASSUME NEW S, NEW key, NEW q, Ordered(q, S, key), NEW t \in S, \A u \in S : ~(key[u] < key[t])
  PROVE  q \in Seq(S) /\ Len(q) >= 1 /\ q[1] = t
<1>1. q \in Seq(S) /\ Len(q) \in Nat /\ \A j \in 1 .. Len(q) : q[j] \in S
  BY DEF Ordered
<1>2. PICK i \in 1 .. Len(q) : q[i] = t
  BY DEF Ordered
<1>3. i = 1
  <2>1. ~(1 < i)
    <3>1. 1 \in 1 .. Len(q) /\ q[1] \in S
      BY <1>1
    <3>2. 1 < i => key[q[1]] < key[q[i]]
      BY <3>1 DEF Ordered
    <3>. QED BY <1>2, <3>1, <3>2
  <2>. QED BY <1>1, <2>1
<1>. QED BY <1>1, <1>2, <1>3

LEMMA FrontLeaves ==
  ASSUME NEW S, NEW q \in Seq(S), Len(q) >= 1
  PROVE  q # <<>> /\ Head(q) = q[1] /\ Tail(q) = Lane!Without(q, 1) /\ 1 \in 1 .. Len(q)
<1>. DEFINE w == Lane!Without(q, 1)
<1>1. Len(q) \in Nat /\ \A j \in 1 .. Len(q) : q[j] \in S
  OBVIOUS
<1>2. w = [j \in 1 .. (Len(q) - 1) |-> q[j + 1]]
  BY <1>1 DEF Lane!Without
<1>3. Len(q) - 1 \in Nat /\ \A j \in 1 .. (Len(q) - 1) : q[j + 1] \in S
  BY <1>1
<1>. HIDE DEF w
<1>4. w \in Seq(S) /\ Len(w) = Len(q) - 1 /\ \A j \in 1 .. Len(w) : w[j] = q[j + 1]
  BY <1>2, <1>3
<1>5. /\ Tail(q) \in Seq(S) /\ Len(Tail(q)) = Len(q) - 1
      /\ \A j \in 1 .. (Len(q) - 1) : Tail(q)[j] = q[j + 1]
  BY <1>1
<1>6. Tail(q) = w
  BY <1>4, <1>5, SeqEqual
<1>7. q # <<>> /\ Head(q) = q[1] /\ 1 \in 1 .. Len(q)
  BY <1>1
<1>. QED BY <1>6, <1>7 DEF w

-----------------------------------------------------------------------------
(* The lanes implement FifoLanes.                                          *)

LEMMA UsedLanesAre ==
  /\ UsedLanes \subseteq Lanes
  /\ \A s \in UsedScopes : \A i \in 1 .. Len(LockFileNames(s)) : LockFileNames(s)[i] \in UsedLanes
<1>1. \A s \in UsedScopes : LocksOf(s) \subseteq Lanes
  BY ScopeLanes, ScopesAssumption DEF LocksOf
<1>. QED BY <1>1 DEF UsedLanes, LocksOf

LEMMA NextLaneIsUsed ==
  ASSUME IInv, NEW t \in Threads, pc[t] \in {"enter", "asleep", "woken"}
  PROVE  NextLane(t) \in UsedLanes
<1>1. scope[t] \in UsedScopes /\ scope[t] \in Scopes /\ held[t] \in Nat /\ held[t] < Len(LockFileNames(scope[t]))
  BY ScopesAssumption DEF IInv, TypeOK, GuardShape
<1>2. Len(LockFileNames(scope[t])) \in Nat
  BY <1>1, ScopeLanes
<1>3. held[t] + 1 \in 1 .. Len(LockFileNames(scope[t]))
  BY <1>1, <1>2
<1>. QED BY <1>1, <1>3, UsedLanesAre DEF NextLane

(* The tickets of a lane put the threads in it in one order.               *)
LEMMA QueueIs ==
  ASSUME IInv, NEW l \in Lanes
  PROVE  /\ \A t \in Queued(l) : Tickets(l)[t] = ticket[t][l] /\ Tickets(l)[t] \in Nat
         /\ Ordered(Arrivals(l), Queued(l), Tickets(l))
<1>1. LaneAccounts(l)
  BY DEF IInv, TicketAccounting
<1>2. \A t \in Threads : Tickets(l)[t] = ticket[t][l] /\ Tickets(l)[t] \in 0 .. MaxTicket
  BY DEF Tickets, IInv, TypeOK
<1>3. \A t, u \in Queued(l) : Tickets(l)[t] = Tickets(l)[u] => t = u
  BY <1>1, <1>2 DEF Queued, LaneAccounts
<1>4. IsFiniteSet(Queued(l))
  <2>. DEFINE f == [t \in Queued(l) |-> Tickets(l)[t]]
  <2>1. f \in [Queued(l) -> 0 .. MaxTicket]
    BY <1>2 DEF Queued
  <2>2. f \in Injection(Queued(l), 0 .. MaxTicket)
    BY <1>3, <2>1 DEF Injection, IsInjective
  <2>3. IsFiniteSet(0 .. MaxTicket)
    BY MaxTicketAssumption, FS_Interval
  <2>. QED BY <2>2, <2>3, FS_Injection
<1>5. \A t \in Queued(l) : Tickets(l)[t] = ticket[t][l] /\ Tickets(l)[t] \in Nat
  BY <1>2 DEF Queued
<1>. QED BY <1>3, <1>4, <1>5, InOrderIsOrdered DEF Arrivals

(* The thread whose ticket is served is at the front.                      *)
LEMMA ServedIsFirst ==
  ASSUME IInv, NEW l \in Lanes, NEW t \in Threads, LiveAt(t, l), ticket[t][l] = serving[l]
  PROVE  /\ Arrivals(l) # <<>> /\ Head(Arrivals(l)) = t /\ Arrivals(l)[1] = t
         /\ Tail(Arrivals(l)) = Lane!Without(Arrivals(l), 1) /\ 1 \in 1 .. Len(Arrivals(l))
<1>1. LaneAccounts(l) /\ serving[l] \in Nat /\ next[l] \in Nat
  BY DEF IInv, TicketAccounting, TypeOK
<1>2. t \in Queued(l) /\ Tickets(l)[t] = serving[l]
  BY DEF Queued, Tickets
<1>3. ASSUME NEW u \in Queued(l) PROVE ~(Tickets(l)[u] < Tickets(l)[t])
  <2>1. u \in Threads /\ LiveAt(u, l) /\ Tickets(l)[u] = ticket[u][l]
    BY DEF Queued, Tickets
  <2>2. ticket[u][l] \in serving[l] .. (next[l] - 1)
    BY <1>1, <2>1 DEF LaneAccounts
  <2>. QED BY <1>1, <1>2, <2>1, <2>2
<1>4. Ordered(Arrivals(l), Queued(l), Tickets(l))
  BY QueueIs
<1>5. Arrivals(l) \in Seq(Queued(l)) /\ Len(Arrivals(l)) >= 1 /\ Arrivals(l)[1] = t
  BY <1>2, <1>3, <1>4, FirstIsLeast
<1>. QED BY <1>5, FrontLeaves

(* It is the only one.                                                     *)
LEMMA ArrivalsAre ==
  ASSUME IInv', NEW l \in Lanes, NEW q, Ordered(q, Queued(l)', Tickets(l)')
  PROVE  Arrivals(l)' = q
<1>1. \A t \in Queued(l)' : Tickets(l)'[t] \in Nat
  BY DEF IInv, TypeOK, Tickets, Queued
<1>2. q = InOrder(Queued(l)', Tickets(l)')
  BY <1>1, OrderedIsInOrder
<1>. QED BY <1>2 DEF Arrivals

LEMMA SameArrivals ==
  ASSUME IInv, IInv', NEW l \in Lanes,
         \A u \in Threads : /\ LiveAt(u, l)' <=> LiveAt(u, l)
                            /\ LiveAt(u, l) => ticket'[u][l] = ticket[u][l]
  PROVE  Arrivals(l)' = Arrivals(l)
<1>1. Queued(l)' = Queued(l)
  BY DEF Queued
<1>2. \A u \in Queued(l) : Tickets(l)'[u] = Tickets(l)[u]
  BY DEF Queued, Tickets
<1>3. Ordered(Arrivals(l), Queued(l)', Tickets(l)')
  BY <1>1, <1>2, QueueIs, SameKeysSameOrder
<1>. QED BY <1>3, ArrivalsAre

(* A step that moves nobody is not seen.                                   *)
LEMMA UnmovedIsUnseen ==
  ASSUME IInv, IInv', Unmoved, ticket' = ticket
  PROVE  UNCHANGED Lane!Fifo
<1>1. \A l \in UsedLanes : Arrivals(l)' = Arrivals(l)
  BY SameArrivals, UsedLanesAre DEF Unmoved
<1>2. \A l \in UsedLanes : Holders(l)' = Holders(l)
  BY DEF Holders, Unmoved
<1>. QED BY <1>1, <1>2 DEF Lane!Fifo

(* Taking a ticket is joining the queue.                                   *)
LEMMA TakeTicketJoins ==
  ASSUME IInv, IInv', NEW t \in Threads, TakeTicket(t), NEW l, l = NextLane(t)
  PROVE  Lane!Join(t, l)
<1>0. pc[t] = "enter"
  BY DEF TakeTicket
<1>1. l \in Lanes /\ l \notin HeldLanes(t) /\ l \in UsedLanes
  BY <1>0, NextLaneIsNew, NextLaneIsUsed
<1>2. LaneAccounts(l) /\ LaneAccounts(l)' /\ next[l] \in Nat /\ serving[l] \in Nat
  BY <1>1 DEF IInv, TicketAccounting, TypeOK
<1>3. /\ ticket' = [ticket EXCEPT ![t][l] = IF Restarts(l) THEN 0 ELSE next[l]]
      /\ next'[l] = ticket'[t][l] + 1
  BY <1>1 DEF TakeTicket, IInv, TypeOK
<1>4. \A u \in Threads, k \in Lanes : u # t \/ k # l => ticket'[u][k] = ticket[u][k]
  BY <1>3 DEF IInv, TypeOK
<1>5. /\ \A u \in Threads \ {t} : /\ HeldLanes(u)' = HeldLanes(u)
                                  /\ \A k : LiveAt(u, k)' <=> LiveAt(u, k)
      /\ \A k : LiveAt(t, k) <=> k \in HeldLanes(t)
      /\ \A k : LiveAt(t, k)' <=> k \in HeldLanes(t) \/ k = l
      /\ serving[l] = next[l] => HeldLanes(t)' = HeldLanes(t) \cup {l}
      /\ serving[l] # next[l] => HeldLanes(t)' = HeldLanes(t)
  BY <1>1, TakeTicketMoves
<1>6. \A k \in UsedLanes \ {l} : Arrivals(k)' = Arrivals(k) /\ Holders(k)' = Holders(k)
  <2>. SUFFICES ASSUME NEW k \in UsedLanes \ {l}
                PROVE  Arrivals(k)' = Arrivals(k) /\ Holders(k)' = Holders(k)
    OBVIOUS
  <2>1. k \in Lanes
    BY UsedLanesAre
  <2>2. \A u \in Threads : /\ LiveAt(u, k)' <=> LiveAt(u, k)
                           /\ ticket'[u][k] = ticket[u][k]
                           /\ k \in HeldLanes(u)' <=> k \in HeldLanes(u)
    BY <1>4, <1>5, <2>1
  <2>3. Arrivals(k)' = Arrivals(k)
    BY <2>1, <2>2, SameArrivals
  <2>. QED BY <2>2, <2>3 DEF Holders
<1>7. t \notin Queued(l) /\ Queued(l)' = Queued(l) \cup {t}
  BY <1>1, <1>5 DEF Queued
<1>8. \A u \in Queued(l) : Tickets(l)'[u] = Tickets(l)[u] /\ Tickets(l)'[u] < Tickets(l)'[t]
  <2>. SUFFICES ASSUME NEW u \in Queued(l)
                PROVE  Tickets(l)'[u] = Tickets(l)[u] /\ Tickets(l)'[u] < Tickets(l)'[t]
    OBVIOUS
  <2>1. u \in Threads /\ u # t /\ LiveAt(u, l)' /\ LiveAt(t, l)'
    BY <1>5, <1>7 DEF Queued
  <2>2. ticket'[u][l] = ticket[u][l]
    BY <1>1, <1>4, <2>1
  <2>3. ticket'[u][l] \in serving'[l] .. (next'[l] - 1) /\ ticket'[u][l] # ticket'[t][l]
    BY <1>2, <2>1 DEF LaneAccounts
  <2>4. serving'[l] \in Nat /\ next'[l] \in Nat /\ ticket'[t][l] \in Nat
    BY <1>1 DEF IInv, TypeOK
  <2>5. ticket'[u][l] < ticket'[t][l]
    BY <1>3, <2>3, <2>4
  <2>. QED BY <2>1, <2>2, <2>5 DEF Tickets
<1>9. Arrivals(l)' = Append(Arrivals(l), t)
  <2>1. Ordered(Append(Arrivals(l), t), Queued(l) \cup {t}, Tickets(l)')
    BY <1>1, <1>7, <1>8, QueueIs, JoinKeepsOrder
  <2>. QED BY <1>1, <1>7, <2>1, ArrivalsAre
<1>10. Ordered(Arrivals(l), Queued(l), Tickets(l))
  BY <1>1, QueueIs
<1>11. t \notin Lane!Members(Arrivals(l))
  <2>1. \A i \in 1 .. Len(Arrivals(l)) : Arrivals(l)[i] \in Queued(l)
    BY <1>10 DEF Ordered
  <2>. QED BY <1>7, <2>1 DEF Lane!Members
<1>12. CASE serving[l] = next[l]
  <2>1. Queued(l) = {}
    BY <1>2, <1>12 DEF Queued, LaneAccounts
  <2>2. Arrivals(l) = <<>>
    BY <1>10, <2>1 DEF Ordered
  <2>3. Holders(l)' = {t}
    BY <1>5, <1>12, <2>1 DEF Holders, Queued, LiveAt
  <2>. QED BY <1>1, <1>6, <1>9, <1>11, <2>2, <2>3 DEF Lane!Join
<1>13. CASE serving[l] # next[l]
  <2>1. PICK u \in Threads : LiveAt(u, l)
    <3>1. serving[l] \in serving[l] .. (next[l] - 1) /\ serving[l] \notin cancelled[l]
      BY <1>2, <1>13 DEF LaneAccounts
    <3>. QED BY <1>2, <3>1 DEF LaneAccounts
  <2>2. Arrivals(l) # <<>>
    BY <1>10, <2>1 DEF Ordered, Queued
  <2>3. Holders(l)' = Holders(l)
    BY <1>5, <1>13 DEF Holders
  <2>. QED BY <1>1, <1>6, <1>9, <1>11, <2>2, <2>3 DEF Lane!Join
<1>. QED BY <1>12, <1>13

(* A waiter whose ticket is served is at the front of the queue.           *)
LEMMA ServedIsGranted ==
  ASSUME IInv, IInv', NEW t \in Threads, pc[t] \in Waiting,
         LaneGranted(t), UNCHANGED <<scope, ticket>>, NEW l, l = NextLane(t), serving[l] = ticket[t][l]
  PROVE  Lane!Grant(t, l)
<1>0. pc[t] \in {"enter", "asleep", "woken"}
  BY DEF Waiting
<1>1. l \in Lanes /\ l \notin HeldLanes(t) /\ l \in UsedLanes
  BY <1>0, NextLaneIsNew, NextLaneIsUsed
<1>2. LaneAccounts(l) /\ serving[l] = ticket[t][l] /\ LiveAt(t, l) /\ serving[l] \in Nat /\ next[l] \in Nat
  BY <1>1 DEF IInv, TicketAccounting, TypeOK, LiveAt, WaitsAt
<1>3. /\ \A u \in Threads : \A k : LiveAt(u, k)' <=> LiveAt(u, k)
      /\ \A u \in Threads \ {t} : HeldLanes(u)' = HeldLanes(u)
      /\ HeldLanes(t)' = HeldLanes(t) \cup {l}
  BY ServedMoves
<1>4. \A k \in UsedLanes : Arrivals(k)' = Arrivals(k)
  BY <1>3, SameArrivals, UsedLanesAre
<1>5. \A k \in UsedLanes \ {l} : Holders(k)' = Holders(k)
  BY <1>3 DEF Holders
<1>6. \A u \in Threads : l \notin HeldLanes(u)
  BY <1>1, <1>2 DEF LaneAccounts, LiveAt
<1>7. Holders(l) = {} /\ Holders(l)' = {t}
  BY <1>3, <1>6 DEF Holders
<1>8. Arrivals(l) # <<>> /\ Head(Arrivals(l)) = t
  BY <1>1, <1>2, ServedIsFirst
<1>. QED BY <1>1, <1>4, <1>5, <1>7, <1>8 DEF Lane!Grant

(* A waiter that gives up leaves the queue; nobody else moves.             *)
LEMMA TimeoutLeaves ==
  ASSUME IInv, IInv', NEW t \in Threads, Timeout(t), NEW l, l = NextLane(t), serving[l] # ticket[t][l]
  PROVE  Lane!Leave(t, l)
<1>0. pc[t] \in Waiting /\ pc[t] \in {"enter", "asleep", "woken"}
  BY DEF Timeout, Waiting
<1>1. l \in Lanes /\ l \notin HeldLanes(t) /\ l \in UsedLanes /\ LiveAt(t, l)
  BY <1>0, NextLaneIsNew, NextLaneIsUsed DEF LiveAt, WaitsAt
<1>2. /\ \A u \in Threads \ {t} : /\ HeldLanes(u)' = HeldLanes(u)
                                  /\ \A k : LiveAt(u, k)' <=> LiveAt(u, k)
      /\ HeldLanes(t)' = HeldLanes(t)
      /\ \A k : LiveAt(t, k)' <=> LiveAt(t, k) /\ k # l
      /\ \A u \in Threads, k \in Lanes : u # t \/ k # l => ticket'[u][k] = ticket[u][k]
  BY <1>1, TimeoutMoves
<1>3. \A k \in UsedLanes \ {l} : Arrivals(k)' = Arrivals(k)
  BY <1>2, SameArrivals, UsedLanesAre
<1>4. \A k \in UsedLanes : Holders(k)' = Holders(k)
  BY <1>2 DEF Holders
<1>5. t \notin Holders(l)
  BY <1>1 DEF Holders
<1>6. t \in Queued(l) /\ Queued(l)' = Queued(l) \ {t}
  BY <1>1, <1>2 DEF Queued
<1>7. \A u \in Queued(l) \ {t} : Tickets(l)'[u] = Tickets(l)[u]
  BY <1>1, <1>2 DEF Queued, Tickets
<1>8. PICK i \in 1 .. Len(Arrivals(l)) : Arrivals(l)[i] = t
  BY <1>1, <1>6, QueueIs DEF Ordered
<1>9. Ordered(Lane!Without(Arrivals(l), i), Queued(l) \ {t}, Tickets(l)')
  BY <1>1, <1>7, <1>8, QueueIs, LeaveKeepsOrder
<1>10. Arrivals(l)' = Lane!Without(Arrivals(l), i)
  BY <1>1, <1>6, <1>9, ArrivalsAre
<1>. QED BY <1>1, <1>3, <1>4, <1>5, <1>8, <1>10 DEF Lane!Leave

(* The holder gives its lane back from the front of the queue.             *)
LEMMA ReleaseLaneReleases ==
  ASSUME IInv, IInv', NEW t \in Threads, ReleaseLane(t), NEW l, l = LockFileNames(scope[t])[held[t]]
  PROVE  l \in UsedLanes /\ Lane!Release(t, l)
<1>1. l \in Lanes /\ l \in HeldLanes(t) /\ l \in UsedLanes
  BY LastLane, UsedLanesAre
<1>2. LaneAccounts(l) /\ ticket[t][l] = serving[l] /\ LiveAt(t, l) /\ serving[l] \in Nat /\ next[l] \in Nat
  BY <1>1 DEF IInv, TicketAccounting, TypeOK, LiveAt, LaneAccounts
<1>3. /\ \A u \in Threads \ {t} : /\ HeldLanes(u)' = HeldLanes(u)
                                  /\ \A k : LiveAt(u, k)' <=> LiveAt(u, k)
      /\ HeldLanes(t)' = HeldLanes(t) \ {l}
      /\ \A k : LiveAt(t, k)' <=> LiveAt(t, k) /\ k # l
      /\ \A u \in Threads, k \in Lanes : u # t \/ k # l => ticket'[u][k] = ticket[u][k]
  BY <1>1, ReleaseMoves
<1>4. \A k \in UsedLanes \ {l} : Arrivals(k)' = Arrivals(k)
  BY <1>3, SameArrivals, UsedLanesAre
<1>5. \A k \in UsedLanes \ {l} : Holders(k)' = Holders(k)
  BY <1>3 DEF Holders
<1>6. \A u \in Threads : l \in HeldLanes(u) => u = t
  BY <1>2 DEF LaneAccounts, LiveAt
<1>7. Holders(l) = {t} /\ Holders(l)' = {}
  BY <1>1, <1>3, <1>6 DEF Holders
<1>8. t \in Queued(l) /\ Queued(l)' = Queued(l) \ {t}
  BY <1>2, <1>3 DEF Queued
<1>9. \A u \in Queued(l) \ {t} : Tickets(l)'[u] = Tickets(l)[u]
  BY <1>1, <1>3 DEF Queued, Tickets
<1>11. /\ Arrivals(l)[1] = t /\ Tail(Arrivals(l)) = Lane!Without(Arrivals(l), 1)
       /\ 1 \in 1 .. Len(Arrivals(l))
  BY <1>1, <1>2, ServedIsFirst
<1>13. Ordered(Lane!Without(Arrivals(l), 1), Queued(l) \ {t}, Tickets(l)')
  BY <1>1, <1>9, <1>11, QueueIs, LeaveKeepsOrder
<1>14. Arrivals(l)' = Tail(Arrivals(l))
  BY <1>1, <1>8, <1>11, <1>13, ArrivalsAre
<1>. QED BY <1>1, <1>4, <1>5, <1>7, <1>14 DEF Lane!Release

LEMMA StepOfLanes ==
  ASSUME IInv, IInv', [Next]_vars
  PROVE  [Lane!Next]_(Lane!Fifo)
<1>1. CASE UNCHANGED vars
  <2>1. Unmoved /\ ticket' = ticket
    BY <1>1, ThreadFrame DEF vars, Unmoved
  <2>. QED BY <2>1, UnmovedIsUnseen
<1>2. ASSUME NEW t \in Threads, NEW s \in UsedScopes, Request(t, s) PROVE UNCHANGED Lane!Fifo
  BY <1>2, RequestMoves, UnmovedIsUnseen DEF Request
<1>3. ASSUME NEW t \in Threads, FailExhausted(t) \/ Finish(t) \/ Released(t) PROVE UNCHANGED Lane!Fifo
  BY <1>3, QuietMoves, UnmovedIsUnseen DEF FailExhausted, Finish, Released
<1>4. ASSUME NEW t \in Threads, TakeTicket(t) PROVE Lane!Next
  <2>1. PICK l \in UsedLanes : l = NextLane(t)
    BY <1>4, NextLaneIsUsed DEF TakeTicket
  <2>. QED BY <1>4, <2>1, TakeTicketJoins DEF Lane!Next
<1>5. ASSUME NEW t \in Threads, Recheck(t) PROVE [Lane!Next]_(Lane!Fifo)
  <2>0. pc[t] \in Waiting
    BY <1>5 DEF Recheck, Waiting
  <2>1. PICK l \in UsedLanes : l = NextLane(t)
    BY <1>5, NextLaneIsUsed DEF Recheck
  <2>2. CASE serving[l] = ticket[t][l]
    <3>1. Lane!Grant(t, l)
      BY <1>5, <2>0, <2>1, <2>2, ServedIsGranted DEF Recheck
    <3>. QED BY <3>1 DEF Lane!Next
  <2>3. CASE serving[l] # ticket[t][l]
    <3>1. /\ pc' = [pc EXCEPT ![t] = "asleep"] /\ pc[t] = "woken"
          /\ UNCHANGED <<scope, held, ticket>>
      BY <1>5, <2>1, <2>3 DEF Recheck
    <3>2. Unmoved
      BY <3>1, ThreadFrame DEF IInv, TypeOK, Waiting, Unmoved
    <3>. QED BY <3>1, <3>2, UnmovedIsUnseen
  <2>. QED BY <2>2, <2>3
<1>6. ASSUME NEW t \in Threads, Timeout(t) PROVE Lane!Next
  <2>0. pc[t] \in Waiting
    BY <1>6 DEF Timeout
  <2>1. PICK l \in UsedLanes : l = NextLane(t)
    BY <2>0, NextLaneIsUsed DEF Waiting
  <2>2. CASE serving[l] = ticket[t][l]
    <3>1. Lane!Grant(t, l)
      BY <1>6, <2>0, <2>1, <2>2, ServedIsGranted DEF Timeout
    <3>. QED BY <3>1 DEF Lane!Next
  <2>3. CASE serving[l] # ticket[t][l]
    BY <1>6, <2>1, <2>3, TimeoutLeaves DEF Lane!Next
  <2>. QED BY <2>2, <2>3
<1>7. ASSUME NEW t \in Threads, ReleaseLane(t) PROVE Lane!Next
  BY <1>7, ReleaseLaneReleases DEF Lane!Next
<1>. QED BY <1>1, <1>2, <1>3, <1>4, <1>5, <1>6, <1>7 DEF Next, Step

(* Tickets implement first-come first-served lanes: nobody is overtaken by *)
(* a later request, whatever is cancelled, exhausted or restarted.         *)
THEOREM AdmissionIsFifo == Spec => FirstComeFirstServed
<1>1. Init => Lane!Init
  <2>. SUFFICES ASSUME Init PROVE Lane!Init
    OBVIOUS
  <2>1. \A l : Queued(l) = {} /\ Holders(l) = {}
    BY DEF Init, Queued, Holders, LiveAt, WaitsAt, HeldLanes, Waiting
  <2>2. ASSUME NEW l \in UsedLanes PROVE Arrivals(l) = <<>>
    <3>1. l \in Lanes /\ Ordered(Arrivals(l), {}, Tickets(l))
      BY <2>1, InitInv, QueueIs, UsedLanesAre
    <3>. QED BY <3>1 DEF Ordered
  <2>. QED BY <2>1, <2>2 DEF Lane!Init
<1>2. IInv /\ IInv' /\ [Next]_vars => [Lane!Next]_(Lane!Fifo)
  BY StepOfLanes
<1>. QED BY <1>1, <1>2, InitInv, StepInv, PTL DEF Spec, FirstComeFirstServed, Lane!Spec
=============================================================================
