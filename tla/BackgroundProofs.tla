--------------------------- MODULE BackgroundProofs ---------------------------
(***************************************************************************)
(* The pool of connections: for any number of goroutines and any number of *)
(* list reads under a cursor connections are never leaked, and the pool    *)
(* stops only when cursors hold every connection and each of their         *)
(* goroutines waits for a list.  The invariant counts: the connections     *)
(* handed out are those of the goroutines that hold one and, once more, of *)
(* those that read a list under a cursor.  If everybody who holds a        *)
(* connection waits, only walkers hold one, one each.                      *)
(*                                                                         *)
(* The dispatcher: for any number of events and endpoints the semaphore    *)
(* and the wait group count the deliveries exactly, and none starts once   *)
(* main waits.                                                             *)
(***************************************************************************)
EXTENDS Background, FiniteSetTheorems, TLAPS

-----------------------------------------------------------------------------
(* The pool of connections *)

(* Only walkers walk, and a list is read for a row that was counted.       *)
Discipline ==
    \A g \in Goroutines :
        /\ pc[g] \in {"wantCursor", "cursor", "wantList", "list"} => g \in Walkers
        /\ pc[g] \in {"wantList", "list"} => lists[g] > 0

PoolInv == PoolTypeOK /\ Discipline /\ UsedExact

LEMMA CountsFinite ==
    /\ IsFiniteSet(Holders) /\ Cardinality(Holders) \in Nat
    /\ IsFiniteSet(Doubles) /\ Cardinality(Doubles) \in Nat
BY PoolAssumption, FS_Subset, FS_CardinalityType DEF Holders, Doubles

(* What the four kinds of step do to the two sets.                         *)
Keeps == Holders' = Holders /\ Doubles' = Doubles /\ used' = used

LEMMA StillExact ==
    ASSUME UsedExact, Keeps
    PROVE  UsedExact'
BY DEF UsedExact, Keeps

LEMMA NowHolds ==
    ASSUME PoolInv, NEW g \in Goroutines, g \notin Holders,
           Holders' = Holders \cup {g}, Doubles' = Doubles, used' = used + 1
    PROVE  UsedExact'
<1>1. Cardinality(Holders') = Cardinality(Holders) + 1
  BY CountsFinite, FS_AddElement
<1> QED
  BY <1>1, CountsFinite DEF PoolInv, UsedExact

LEMMA HoldsNoMore ==
    ASSUME PoolInv, NEW g \in Goroutines, g \in Holders,
           Holders' = Holders \ {g}, Doubles' = Doubles, used' = used - 1
    PROVE  UsedExact' /\ used > 0
<1>1. Cardinality(Holders') = Cardinality(Holders) - 1
  BY CountsFinite, FS_RemoveElement
<1>2. Cardinality(Holders) > 0
  BY CountsFinite, FS_EmptySet
<1> QED
  BY <1>1, <1>2, CountsFinite DEF PoolInv, UsedExact

LEMMA NowTwo ==
    ASSUME PoolInv, NEW g \in Goroutines, g \notin Doubles,
           Doubles' = Doubles \cup {g}, Holders' = Holders, used' = used + 1
    PROVE  UsedExact'
<1>1. Cardinality(Doubles') = Cardinality(Doubles) + 1
  BY CountsFinite, FS_AddElement
<1> QED
  BY <1>1, CountsFinite DEF PoolInv, UsedExact

LEMMA TwoNoMore ==
    ASSUME PoolInv, NEW g \in Goroutines, g \in Doubles,
           Doubles' = Doubles \ {g}, Holders' = Holders, used' = used - 1
    PROVE  UsedExact' /\ used > 0
<1>1. Cardinality(Doubles') = Cardinality(Doubles) - 1
  BY CountsFinite, FS_RemoveElement
<1>2. Cardinality(Doubles) > 0
  BY CountsFinite, FS_EmptySet
<1> QED
  BY <1>1, <1>2, CountsFinite DEF PoolInv, UsedExact

-----------------------------------------------------------------------------
LEMMA PoolExactNext ==
    ASSUME PoolInv, NEW g \in Goroutines, Ask(g) \/ Get(g) \/ Work(g)
    PROVE  UsedExact' /\ used' \in 0..MaxOpen
<1> USE DEF Go, Take, Give
<1>0. /\ pc \in [Goroutines -> Steps] /\ used \in Nat /\ used <= MaxOpen
      /\ MaxOpen \in Nat /\ UsedExact
  BY PoolAssumption DEF PoolInv, PoolTypeOK
<1>1. CASE Ask(g) \/ AskList(g)
  <2>1. Keeps
    BY <1>0, <1>1 DEF Ask, AskCall, AskCursor, AskList, Keeps, Holders, Doubles
  <2> QED
    BY <1>0, <2>1, StillExact DEF Keeps
<1>2. CASE GetCall(g) \/ GetCursor(g)
  <2>1. /\ g \notin Holders /\ Holders' = Holders \cup {g}
        /\ Doubles' = Doubles /\ used' = used + 1 /\ used < MaxOpen
    BY <1>0, <1>2 DEF GetCall, GetCursor, Holders, Doubles
  <2> QED
    BY <1>0, <2>1, NowHolds
<1>3. CASE GetList(g)
  <2>1. /\ g \notin Doubles /\ Doubles' = Doubles \cup {g}
        /\ Holders' = Holders /\ used' = used + 1 /\ used < MaxOpen
    BY <1>0, <1>3 DEF GetList, Holders, Doubles
  <2> QED
    BY <1>0, <2>1, NowTwo
<1>4. CASE EndCall(g) \/ EndCursor(g)
  <2>1. /\ g \in Holders /\ Holders' = Holders \ {g}
        /\ Doubles' = Doubles /\ used' = used - 1
    BY <1>0, <1>4 DEF EndCall, EndCursor, Holders, Doubles
  <2> QED
    BY <1>0, <2>1, HoldsNoMore
<1>5. CASE EndList(g)
  <2>1. /\ g \in Doubles /\ Doubles' = Doubles \ {g}
        /\ Holders' = Holders /\ used' = used - 1
    BY <1>0, <1>5 DEF EndList, Holders, Doubles
  <2> QED
    BY <1>0, <2>1, TwoNoMore
<1> QED
  BY <1>1, <1>2, <1>3, <1>4, <1>5 DEF Ask, Get, Work

LEMMA PoolRestNext ==
    ASSUME PoolInv, NEW g \in Goroutines, Ask(g) \/ Get(g) \/ Work(g)
    PROVE  /\ pc' \in [Goroutines -> Steps]
           /\ lists' \in [Goroutines -> 0..MaxLists]
           /\ Discipline'
<1> USE PoolAssumption DEF PoolInv, PoolTypeOK, Discipline, Go, Steps, Waits
<1>1. CASE Ask(g)
  BY <1>1 DEF Ask, AskCall, AskCursor
<1>2. CASE GetCall(g) \/ GetList(g)
  BY <1>2 DEF GetCall, GetList
<1>3. CASE GetCursor(g)
  BY <1>3 DEF GetCursor
<1>4. CASE EndCall(g) \/ AskList(g)
  BY <1>4 DEF EndCall, AskList
<1>5. CASE EndList(g)
  BY <1>5 DEF EndList
<1>6. CASE EndCursor(g)
  BY <1>6 DEF EndCursor
<1> QED
  BY <1>1, <1>2, <1>3, <1>4, <1>5, <1>6 DEF Ask, Get, Work

LEMMA PoolInitHolds == PoolInit => PoolInv
<1> SUFFICES ASSUME PoolInit PROVE PoolInv
  OBVIOUS
<1>1. Holders = {} /\ Doubles = {}
  BY DEF PoolInit, Holders, Doubles
<1>2. UsedExact
  BY <1>1, FS_EmptySet DEF PoolInit, UsedExact
<1> QED
  BY <1>2, PoolAssumption DEF PoolInit, PoolInv, PoolTypeOK, Discipline, Steps

LEMMA PoolNextKeeps == PoolInv /\ [PoolNext]_poolVars => PoolInv'
<1> SUFFICES ASSUME PoolInv, [PoolNext]_poolVars PROVE PoolInv'
  OBVIOUS
<1>1. ASSUME NEW g \in Goroutines, Ask(g) \/ Get(g) \/ Work(g) PROVE PoolInv'
  BY <1>1, PoolExactNext, PoolRestNext DEF PoolInv, PoolTypeOK
<1>2. CASE UNCHANGED poolVars
  BY <1>2 DEF poolVars, PoolInv, PoolTypeOK, Discipline, UsedExact, Holders, Doubles
<1> QED
  BY <1>1, <1>2 DEF PoolNext

(* database/sql's count of connections is that of their holders, always.  *)
THEOREM PoolInvariance == PoolSpec => []PoolInv
BY PoolInitHolds, PoolNextKeeps, PTL DEF PoolSpec

(* The pool's limit is never exceeded.                                     *)
THEOREM PoolTypeCorrect == PoolSpec => []PoolTypeOK
<1>1. PoolInv => PoolTypeOK
  BY DEF PoolInv
<1> QED
  BY <1>1, PoolInvariance, PTL

(* No path through a cursor or a list loader leaks a connection.           *)
THEOREM UsedExactHolds == PoolSpec => []UsedExact
<1>1. PoolInv => UsedExact
  BY DEF PoolInv
<1> QED
  BY <1>1, PoolInvariance, PTL

(* The pool stops in one way only, whatever the number of goroutines and   *)
(* connections: GetRules and List hold all of them for their cursors.      *)
THEOREM OnlyWalkersStallHolds == PoolSpec => []OnlyWalkersStall
<1>1. PoolInv => OnlyWalkersStall
  <2> SUFFICES ASSUME PoolInv, Stalled
               PROVE  Cardinality({g \in Walkers : pc[g] = "wantList"}) = MaxOpen
    BY DEF OnlyWalkersStall
  <2>1. Doubles = {}
    BY DEF Doubles, Stalled
  <2>2. Holders = {g \in Walkers : pc[g] = "wantList"}
    BY PoolAssumption DEF Holders, Stalled, PoolInv, Discipline
  <2>3. Cardinality(Doubles) = 0
    BY <2>1, FS_EmptySet
  <2> QED
    BY <2>2, <2>3, CountsFinite, PoolAssumption DEF PoolInv, UsedExact, Stalled
<1> QED
  BY <1>1, PoolInvariance, PTL

-----------------------------------------------------------------------------
(* Webhook deliveries *)

Signed == {j \in Jobs : job[j] \in {"sent", "over", "released"}}

(* The wait group counts the deliveries that have not signed off.          *)
WaitGroupExact == wg = Cardinality(Signed)

(* What is still to be offered was not offered before; only a handler that *)
(* runs its loop has anything to offer.                                    *)
OfferedOnce ==
    \A e \in Events :
        /\ handler[e] # "offer" => todo[e] = {}
        /\ \A p \in Endpoints :
              handler[e] \in {"idle", "publish"} \/ p \in todo[e]
                  => job[<<e, p>>] = "none"

(* main waits for the deliveries when no handler can add one, and leaves   *)
(* when none is left.                                                      *)
StopInOrder ==
    /\ process \in {"waiting", "exited"} =>
          \A e \in Events : handler[e] \in {"idle", "done"}
    /\ process = "exited" => Signed = {}

WebhookInv ==
    /\ WebhookTypeOK
    /\ BoundedConcurrency
    /\ WaitGroupExact
    /\ OfferedOnce
    /\ StopInOrder

LEMMA DeliveriesFinite ==
    /\ IsFiniteSet(InFlight) /\ Cardinality(InFlight) \in Nat
    /\ IsFiniteSet(Signed) /\ Cardinality(Signed) \in Nat
BY WebhookAssumption, FS_Subset, FS_CardinalityType DEF InFlight, Signed

LEMMA WebhookInitHolds == WebhookInit => WebhookInv
<1> SUFFICES ASSUME WebhookInit PROVE WebhookInv
  OBVIOUS
<1>1. InFlight = {} /\ Signed = {}
  BY DEF WebhookInit, InFlight, Signed
<1>2. BoundedConcurrency /\ WaitGroupExact
  BY <1>1, FS_EmptySet, WebhookAssumption
     DEF WebhookInit, BoundedConcurrency, WaitGroupExact
<1>3. WebhookTypeOK /\ OfferedOnce /\ StopInOrder
  BY <1>1 DEF WebhookInit, WebhookTypeOK, JobStates, OfferedOnce, StopInOrder, Jobs
<1> QED
  BY <1>2, <1>3 DEF WebhookInv

(* A delivery starts: one place and one more to wait for.                  *)
LEMMA DeliveryStarts ==
    ASSUME WebhookInv, NEW j \in Jobs, job[j] = "none", sem < QueueSize,
           job' = [job EXCEPT ![j] = "sent"], sem' = sem + 1, wg' = wg + 1
    PROVE  /\ BoundedConcurrency' /\ WaitGroupExact'
           /\ wg' \in Nat /\ sem' \in Nat
<1>1. /\ j \notin InFlight /\ InFlight' = InFlight \cup {j}
      /\ j \notin Signed /\ Signed' = Signed \cup {j}
  BY DEF WebhookInv, WebhookTypeOK, InFlight, Signed
<1>2. /\ Cardinality(InFlight') = Cardinality(InFlight) + 1
      /\ Cardinality(Signed') = Cardinality(Signed) + 1
  BY <1>1, DeliveriesFinite, FS_AddElement
<1> QED
  BY <1>2, DeliveriesFinite, WebhookAssumption
     DEF WebhookInv, BoundedConcurrency, WaitGroupExact

(* A place is given back; the delivery is still waited for.                *)
LEMMA PlaceReleased ==
    ASSUME WebhookInv, NEW j \in Jobs, job[j] = "over",
           job' = [job EXCEPT ![j] = "released"], sem' = sem - 1, wg' = wg
    PROVE  /\ BoundedConcurrency' /\ WaitGroupExact'
           /\ wg' \in Nat /\ sem' \in Nat
<1>1. /\ j \in InFlight /\ InFlight' = InFlight \ {j}
      /\ Signed' = Signed
  BY DEF WebhookInv, WebhookTypeOK, InFlight, Signed
<1>2. Cardinality(InFlight') = Cardinality(InFlight) - 1
  BY <1>1, DeliveriesFinite, FS_RemoveElement
<1>3. IsFiniteSet(InFlight') /\ Cardinality(InFlight') \in Nat
  BY <1>1, DeliveriesFinite, FS_RemoveElement, FS_CardinalityType
<1> QED
  BY <1>1, <1>2, <1>3, DeliveriesFinite, WebhookAssumption
     DEF WebhookInv, WebhookTypeOK, BoundedConcurrency, WaitGroupExact

(* A delivery signs off.                                                   *)
LEMMA DeliverySignsOff ==
    ASSUME WebhookInv, NEW j \in Jobs, job[j] = "released",
           job' = [job EXCEPT ![j] = "done"], sem' = sem, wg' = wg - 1
    PROVE  /\ BoundedConcurrency' /\ WaitGroupExact'
           /\ wg' \in Nat /\ sem' \in Nat
<1>1. /\ j \in Signed /\ Signed' = Signed \ {j}
      /\ InFlight' = InFlight
  BY DEF WebhookInv, WebhookTypeOK, InFlight, Signed
<1>2. Cardinality(Signed') = Cardinality(Signed) - 1
  BY <1>1, DeliveriesFinite, FS_RemoveElement
<1>3. IsFiniteSet(Signed') /\ Cardinality(Signed') \in Nat
  BY <1>1, DeliveriesFinite, FS_RemoveElement, FS_CardinalityType
<1> QED
  BY <1>1, <1>2, <1>3, DeliveriesFinite
     DEF WebhookInv, WebhookTypeOK, BoundedConcurrency, WaitGroupExact

(* Nobody starts, gives back a place or signs off.                         *)
LEMMA CountsStay ==
    ASSUME WebhookInv, InFlight' = InFlight, Signed' = Signed,
           sem' = sem, wg' = wg
    PROVE  /\ BoundedConcurrency' /\ WaitGroupExact'
           /\ wg' \in Nat /\ sem' \in Nat
BY DEF WebhookInv, WebhookTypeOK, BoundedConcurrency, WaitGroupExact

LEMMA PublishKeeps ==
    ASSUME WebhookInv, NEW e \in Events, Publish(e)
    PROVE  WebhookInv'
<1>1. InFlight' = InFlight /\ Signed' = Signed
  BY DEF Publish, InFlight, Signed
<1>2. BoundedConcurrency' /\ WaitGroupExact'
  BY <1>1, CountsStay DEF Publish
<1> QED
  BY <1>1, <1>2
     DEF WebhookInv, WebhookTypeOK, OfferedOnce, StopInOrder, Publish

LEMMA LoadKeeps ==
    ASSUME WebhookInv, NEW e \in Events, LoadEndpoints(e)
    PROVE  WebhookInv'
<1>1. InFlight' = InFlight /\ Signed' = Signed
  BY DEF LoadEndpoints, InFlight, Signed
<1>2. BoundedConcurrency' /\ WaitGroupExact'
  BY <1>1, CountsStay DEF LoadEndpoints
<1>3. PICK wanted \in SUBSET Endpoints : todo' = [todo EXCEPT ![e] = wanted]
  BY DEF LoadEndpoints
<1>4. OfferedOnce'
  BY <1>3 DEF WebhookInv, WebhookTypeOK, OfferedOnce, LoadEndpoints
<1>5. StopInOrder'
  BY <1>1 DEF WebhookInv, StopInOrder, LoadEndpoints, Alive
<1> QED
  BY <1>2, <1>3, <1>4, <1>5 DEF WebhookInv, WebhookTypeOK, LoadEndpoints

LEMMA OfferKeeps ==
    ASSUME WebhookInv, NEW e \in Events, NEW p \in Endpoints, Offer(e, p)
    PROVE  WebhookInv'
<1> DEFINE j == <<e, p>>
<1>1. j \in Jobs /\ job[j] = "none"
  BY DEF Jobs, Offer, WebhookInv, OfferedOnce
<1>2. /\ todo' = [todo EXCEPT ![e] = @ \ {p}]
      /\ handler[e] = "offer" /\ UNCHANGED <<handler, process>>
      /\ process \notin {"exited", "waiting"}
  BY DEF Offer, Alive, WebhookInv, StopInOrder
<1>3. /\ BoundedConcurrency' /\ WaitGroupExact'
      /\ wg' \in Nat /\ sem' \in Nat
      /\ attempt' \in [Jobs -> Nat]
      /\ \E s \in {"sent", "dropped"} : job' = [job EXCEPT ![j] = s]
  <2>1. CASE sem < QueueSize
    <3>1. /\ job' = [job EXCEPT ![j] = "sent"] /\ sem' = sem + 1 /\ wg' = wg + 1
          /\ attempt' = [attempt EXCEPT ![j] = 1]
      BY <2>1 DEF Offer
    <3>2. attempt' \in [Jobs -> Nat]
      BY <1>1, <3>1 DEF WebhookInv, WebhookTypeOK
    <3> QED
      BY <1>1, <2>1, <3>1, <3>2, DeliveryStarts
  <2>2. CASE ~(sem < QueueSize)
    <3>1. /\ job' = [job EXCEPT ![j] = "dropped"]
          /\ UNCHANGED <<attempt, sem, wg>>
      BY <2>2 DEF Offer
    <3>2. InFlight' = InFlight /\ Signed' = Signed
      BY <1>1, <3>1 DEF InFlight, Signed, WebhookInv, WebhookTypeOK
    <3> QED
      BY <3>1, <3>2, CountsStay DEF WebhookInv, WebhookTypeOK
  <2> QED
    BY <2>1, <2>2
<1>4. WebhookTypeOK'
  BY <1>1, <1>2, <1>3 DEF WebhookInv, WebhookTypeOK, JobStates
<1>5. OfferedOnce'
  <2>1. \A i \in Jobs \ {j} : job'[i] = job[i]
    BY <1>3 DEF WebhookInv, WebhookTypeOK
  <2>2. /\ todo'[e] = todo[e] \ {p}
        /\ \A d \in Events \ {e} : todo'[d] = todo[d]
    BY <1>2 DEF WebhookInv, WebhookTypeOK
  <2>3. \A d \in Events, q \in Endpoints :
           <<d, q>> \in Jobs /\ (<<d, q>> = j => d = e /\ q = p)
    BY DEF Jobs
  <2> QED
    BY <1>2, <2>1, <2>2, <2>3 DEF WebhookInv, OfferedOnce
<1>6. StopInOrder'
  BY <1>2 DEF StopInOrder
<1> QED
  BY <1>3, <1>4, <1>5, <1>6 DEF WebhookInv

LEMMA PublishedKeeps ==
    ASSUME WebhookInv, NEW e \in Events, Published(e)
    PROVE  WebhookInv'
<1>1. InFlight' = InFlight /\ Signed' = Signed
  BY DEF Published, InFlight, Signed
<1>2. BoundedConcurrency' /\ WaitGroupExact'
  BY <1>1, CountsStay DEF Published
<1> QED
  BY <1>1, <1>2
     DEF WebhookInv, WebhookTypeOK, OfferedOnce, StopInOrder, Published, Alive

(* A delivery moves on: what is still to be offered is another one.        *)
LEMMA DeliveryKeeps ==
    ASSUME WebhookInv, NEW j \in Jobs, Delivery(j)
    PROVE  WebhookInv'
<1>1. /\ Alive /\ job[j] \in {"sent", "over", "released"}
      /\ UNCHANGED <<handler, todo, process>>
  BY DEF Delivery, Deliver, SendFails, Release, SignOff
<1>2. \E s \in JobStates : job' = [job EXCEPT ![j] = s]
  <2>1. CASE Deliver(j)
    BY <2>1 DEF Deliver, JobStates
  <2>2. CASE SendFails(j)
    <3>1. job' = [job EXCEPT ![j] = job[j]] \/ job' = [job EXCEPT ![j] = "over"]
      BY <2>2 DEF SendFails, NextAttempt, WebhookInv, WebhookTypeOK
    <3> QED
      BY <3>1 DEF JobStates, WebhookInv, WebhookTypeOK
  <2>3. CASE Release(j)
    BY <2>3 DEF Release, JobStates
  <2>4. CASE SignOff(j)
    BY <2>4 DEF SignOff, JobStates
  <2> QED
    BY <2>1, <2>2, <2>3, <2>4 DEF Delivery
<1>3. /\ BoundedConcurrency' /\ WaitGroupExact'
      /\ wg' \in Nat /\ sem' \in Nat
  <2>1. CASE Deliver(j) \/ SendFails(j)
    <3>1. job' = job \/ (job[j] = "sent" /\ job' = [job EXCEPT ![j] = "over"])
      BY <2>1 DEF Deliver, SendFails, NextAttempt
    <3>2. InFlight' = InFlight /\ Signed' = Signed
      BY <3>1 DEF InFlight, Signed, WebhookInv, WebhookTypeOK
    <3> QED
      BY <2>1, <3>2, CountsStay DEF Deliver, SendFails
  <2>2. CASE Release(j)
    BY <2>2, PlaceReleased DEF Release
  <2>3. CASE SignOff(j)
    BY <2>3, DeliverySignsOff DEF SignOff
  <2> QED
    BY <2>1, <2>2, <2>3 DEF Delivery
<1>4. attempt' \in [Jobs -> Nat]
  BY DEF Delivery, Deliver, SendFails, NextAttempt, Release, SignOff,
         WebhookInv, WebhookTypeOK
<1>5. WebhookTypeOK'
  BY <1>1, <1>2, <1>3, <1>4 DEF WebhookInv, WebhookTypeOK
<1>6. OfferedOnce'
  <2>1. \A i \in Jobs \ {j} : job'[i] = job[i]
    BY <1>2 DEF WebhookInv, WebhookTypeOK
  <2>2. \A d \in Events, q \in Endpoints : <<d, q>> \in Jobs
    BY DEF Jobs
  <2> QED
    BY <1>1, <2>1, <2>2 DEF WebhookInv, OfferedOnce
<1>7. StopInOrder'
  BY <1>1 DEF WebhookInv, StopInOrder, Alive
<1> QED
  BY <1>3, <1>5, <1>6, <1>7 DEF WebhookInv

LEMMA ShutdownKeeps ==
    ASSUME WebhookInv, Drain \/ Shutdown
    PROVE  WebhookInv'
<1>1. UNCHANGED <<handler, todo, job, attempt, sem, wg>>
  BY DEF Drain, Shutdown, Drained, ForcedShutdown, Waited
<1>2. InFlight' = InFlight /\ Signed' = Signed
  BY <1>1 DEF InFlight, Signed
<1>3. BoundedConcurrency' /\ WaitGroupExact'
  BY <1>1, <1>2, CountsStay
<1>4. process = "waiting" /\ wg = 0 => Signed = {}
  BY DeliveriesFinite, FS_EmptySet DEF WebhookInv, WaitGroupExact
<1>5. WebhookTypeOK' /\ OfferedOnce'
  BY <1>1 DEF WebhookInv, WebhookTypeOK, OfferedOnce, Drain, Shutdown, Drained,
              ForcedShutdown, Waited
<1>6. StopInOrder'
  BY <1>1, <1>2, <1>4
     DEF WebhookInv, StopInOrder, Drain, Shutdown, Drained, ForcedShutdown, Waited
<1> QED
  BY <1>3, <1>5, <1>6 DEF WebhookInv

LEMMA WebhookNextKeeps ==
    WebhookInv /\ [WebhookNext]_webhookVars => WebhookInv'
<1> SUFFICES ASSUME WebhookInv, [WebhookNext]_webhookVars PROVE WebhookInv'
  OBVIOUS
<1>1. CASE \E e \in Events : Publish(e) \/ Dispatch(e)
  BY <1>1, PublishKeeps, LoadKeeps, OfferKeeps, PublishedKeeps DEF Dispatch
<1>2. CASE \E j \in Jobs : Delivery(j)
  BY <1>2, DeliveryKeeps
<1>3. CASE Drain \/ Shutdown
  BY <1>3, ShutdownKeeps
<1>4. CASE UNCHANGED webhookVars
  <2>1. InFlight' = InFlight /\ Signed' = Signed
    BY <1>4 DEF webhookVars, InFlight, Signed
  <2>2. BoundedConcurrency' /\ WaitGroupExact'
    BY <1>4, <2>1, CountsStay DEF webhookVars
  <2> QED
    BY <1>4, <2>1, <2>2
       DEF webhookVars, WebhookInv, WebhookTypeOK, OfferedOnce, StopInOrder
<1> QED
  BY <1>1, <1>2, <1>3, <1>4 DEF WebhookNext

(* The dispatcher's counters count its deliveries through retries and Stop.*)
THEOREM WebhookInvariance == WebhookSpec => []WebhookInv
BY WebhookInitHolds, WebhookNextKeeps, PTL DEF WebhookSpec

(* However many handlers publish at once: no more deliveries run than the  *)
(* semaphore has places, and sendWithRetry leaks none.                     *)
THEOREM BoundedConcurrencyHolds == WebhookSpec => []BoundedConcurrency
<1>1. WebhookInv => BoundedConcurrency
  BY DEF WebhookInv
<1> QED
  BY <1>1, WebhookInvariance, PTL

(* The deferred Stop of main leaves no delivery behind.                    *)
THEOREM StopWaits == WebhookSpec => []GracefulStopLeavesNothing
<1>1. WebhookInv => GracefulStopLeavesNothing
  BY DEF WebhookInv, WebhookTypeOK, StopInOrder, Signed, JobStates,
         GracefulStopLeavesNothing
<1> QED
  BY <1>1, WebhookInvariance, PTL

-----------------------------------------------------------------------------
(* The parts together: the steps of one leave the variables of the others  *)
(* alone, so that what holds of each alone holds of the process.           *)
THEOREM BackgroundIsEach == Spec => PoolSpec /\ WebhookSpec
<1>1. Init => PoolInit /\ WebhookInit
  BY DEF Init
<1>2. [Next]_vars => [PoolNext]_poolVars /\ [WebhookNext]_webhookVars
  BY DEF Next, Pools, Webhooks, Hub, Certificates, vars
<1> QED
  BY <1>1, <1>2, PTL DEF Spec, PoolSpec, WebhookSpec

(* The process keeps what the pool and the dispatcher promise.             *)
THEOREM BackgroundKeeps ==
    Spec => [](OnlyWalkersStall /\ BoundedConcurrency /\ GracefulStopLeavesNothing)
BY BackgroundIsEach, OnlyWalkersStallHolds, BoundedConcurrencyHolds, StopWaits, PTL
=============================================================================
