------------------------- MODULE ForwardInstanceProofs -------------------------
(***************************************************************************)
(* Proofs about one instance of a forward rule, for any number of accept   *)
(* loops, clients, listeners and sessions, any limit and any ttl.          *)
(*                                                                         *)
(* ConnLimit: the counter is exact, the limit holds, and the accept loops  *)
(* implement ConnPool.  The inductive invariant says what each accept loop *)
(* holds: a loop past Accept owns one connection of its own network, and   *)
(* that connection's place is the one the loop's program counter implies.  *)
(* From it every step moves exactly one unit between the counter and the   *)
(* two sets it counts.                                                     *)
(*                                                                         *)
(* UDPSessions: an open backend socket is registered under its client, and *)
(* the sessions left open by a closed map are no more than its listeners.  *)
(* The inductive invariant adds that the map only names open sessions made *)
(* for the client it names, that a swept map belongs to a cancelled        *)
(* context, and that each leftover has used up the turn of one listener:   *)
(* leftovers and listeners still able to make one never sum up to more     *)
(* than the listeners.                                                     *)
(*                                                                         *)
(* The instance: what runs of the two side by side is a behaviour of each, *)
(* so that it has all of these properties.                                 *)
(***************************************************************************)
EXTENDS ForwardInstance, FiniteSetTheorems, TLAPS

-----------------------------------------------------------------------------
(* ConnLimit *)

ConnTypes ==
    /\ conns \in Int
    /\ st \in [Conns -> Places]
    /\ fin \in [Conns -> SUBSET Directions]
    /\ copied \in [Conns -> SUBSET Directions]
    /\ loop \in [Nets -> [pc : {"accept", "acl", "rollback", "close", "off"},
                          c : Conns \cup {NoConn}]]
    /\ listening \subseteq Nets
    /\ connCtx \in {"active", "cancelled"}

(* The place of the connection a loop holds.                               *)
PlaceAt(pc) == CASE pc = "acl" -> "held"
                 [] pc = "rollback" -> "over"
                 [] pc = "close" -> "rejected"

Holds ==
    \A n \in Nets : loop[n].pc \in {"acl", "rollback", "close"} =>
        /\ loop[n].c \in Conns
        /\ NetOf[loop[n].c] = n
        /\ st[loop[n].c] = PlaceAt(loop[n].pc)

ConnInv == ConnTypes /\ Holds /\ CounterExact /\ WithinLimit

LEMMA CountersFinite ==
    /\ IsFiniteSet(Forwarded) /\ Cardinality(Forwarded) \in Nat
    /\ IsFiniteSet(Over) /\ Cardinality(Over) \in Nat
BY ConnAssumption, FS_Subset, FS_CardinalityType DEF Forwarded, Over

LEMMA ConnInvParts == ConnInv => ConnTypeOK /\ CounterExact /\ WithinLimit
BY CountersFinite DEF ConnInv, ConnTypes, ConnTypeOK, CounterExact

-----------------------------------------------------------------------------
(* What moving one connection does to the two sets                         *)

(* A connection that enters the forwarded set from outside of both.        *)
LEMMA EntersForwarded ==
    ASSUME ConnTypes, NEW c \in Conns, NEW v \in {"dial", "copy"},
           st[c] \notin {"dial", "copy", "over"},
           st' = [st EXCEPT ![c] = v]
    PROVE  /\ c \notin Forwarded /\ Forwarded' = Forwarded \cup {c}
           /\ Cardinality(Forwarded') = Cardinality(Forwarded) + 1
           /\ Over' = Over
<1>1. c \notin Forwarded /\ Forwarded' = Forwarded \cup {c} /\ Over' = Over
  BY DEF ConnTypes, Forwarded, Over
<1> QED
  BY <1>1, CountersFinite, FS_AddElement

(* One that leaves the forwarded set.                                      *)
LEMMA LeavesForwarded ==
    ASSUME ConnTypes, NEW c \in Conns, st[c] \in {"dial", "copy"},
           st' = [st EXCEPT ![c] = "closed"]
    PROVE  /\ c \in Forwarded /\ Forwarded' = Forwarded \ {c}
           /\ Cardinality(Forwarded') = Cardinality(Forwarded) - 1
           /\ Over' = Over
<1>1. c \in Forwarded /\ Forwarded' = Forwarded \ {c} /\ Over' = Over
  BY DEF ConnTypes, Forwarded, Over, Places
<1> QED
  BY <1>1, CountersFinite, FS_RemoveElement

(* One that goes over the limit.                                           *)
LEMMA EntersOver ==
    ASSUME ConnTypes, NEW c \in Conns, st[c] = "held",
           st' = [st EXCEPT ![c] = "over"]
    PROVE  /\ Forwarded' = Forwarded
           /\ Cardinality(Over') = Cardinality(Over) + 1
<1>1. c \notin Over /\ Over' = Over \cup {c} /\ Forwarded' = Forwarded
  BY DEF ConnTypes, Forwarded, Over
<1> QED
  BY <1>1, CountersFinite, FS_AddElement

(* One that is rolled back.                                                *)
LEMMA LeavesOver ==
    ASSUME ConnTypes, NEW c \in Conns, st[c] = "over",
           st' = [st EXCEPT ![c] = "rejected"]
    PROVE  /\ Forwarded' = Forwarded
           /\ Cardinality(Over') = Cardinality(Over) - 1
<1>1. c \in Over /\ Over' = Over \ {c} /\ Forwarded' = Forwarded
  BY DEF ConnTypes, Forwarded, Over
<1> QED
  BY <1>1, CountersFinite, FS_RemoveElement

-----------------------------------------------------------------------------
(* Every step keeps what the loops hold                                    *)

LEMMA TypesNext == ConnTypes /\ Holds /\ [ConnNext]_connVars => ConnTypes'
<1> SUFFICES ASSUME ConnTypes, Holds, [ConnNext]_connVars PROVE ConnTypes'
  OBVIOUS
<1> USE DEF ConnTypes, Places, Directions
<1>1. CASE Environment
  BY <1>1 DEF Environment, ConnCancel, Connect, Finish
<1>2. ASSUME NEW n \in Nets, AcceptLoop(n) PROVE ConnTypes'
  <2>1. CASE \E c \in Conns : Accept(n, c)
    BY <2>1 DEF Accept
  <2>2. CASE Deny(n) \/ Reject(n) \/ Rollback(n) \/ EndLoop(n)
    BY <2>2 DEF Deny, Reject, Rollback, EndLoop, Accepting
  <2>3. CASE Count(n)
    BY <2>3 DEF Count, Accepting
  <2> QED
    BY <1>2, <2>1, <2>2, <2>3 DEF AcceptLoop
<1>3. ASSUME NEW n \in Nets, CloseListener(n) PROVE ConnTypes'
  BY <1>3 DEF CloseListener
<1>4. ASSUME NEW c \in Conns, handleTCP(c) PROVE ConnTypes'
  BY <1>4 DEF handleTCP, Dialled, DialFails, Release, Copied
<1>5. CASE UNCHANGED connVars
  BY <1>5 DEF connVars
<1> QED
  BY <1>1, <1>2, <1>3, <1>4, <1>5 DEF ConnNext

LEMMA HoldsNext == ConnTypes /\ Holds /\ [ConnNext]_connVars => Holds'
<1> SUFFICES ASSUME ConnTypes, Holds, [ConnNext]_connVars,
                    NEW m \in Nets, loop'[m].pc \in {"acl", "rollback", "close"}
             PROVE  /\ loop'[m].c \in Conns
                    /\ NetOf[loop'[m].c] = m
                    /\ st'[loop'[m].c] = PlaceAt(loop'[m].pc)
  BY DEF Holds
<1> USE DEF ConnTypes, Holds, PlaceAt
<1>1. CASE Environment
  BY <1>1 DEF Environment, ConnCancel, Connect, Finish
<1>2. ASSUME NEW n \in Nets, AcceptLoop(n)
      PROVE  /\ loop'[m].c \in Conns
             /\ NetOf[loop'[m].c] = m
             /\ st'[loop'[m].c] = PlaceAt(loop'[m].pc)
  <2>1. CASE \E c \in Conns : Accept(n, c)
    BY <2>1 DEF Accept
  <2>2. CASE Deny(n)
    BY <2>2 DEF Deny, Accepting
  <2>3. CASE Count(n)
    BY <2>3 DEF Count, Accepting
  <2>4. CASE Rollback(n)
    BY <2>4 DEF Rollback
  <2>5. CASE Reject(n)
    BY <2>5 DEF Reject, Accepting
  <2>6. CASE EndLoop(n)
    BY <2>6 DEF EndLoop
  <2> QED
    BY <1>2, <2>1, <2>2, <2>3, <2>4, <2>5, <2>6 DEF AcceptLoop
<1>3. ASSUME NEW n \in Nets, CloseListener(n)
      PROVE  /\ loop'[m].c \in Conns
             /\ NetOf[loop'[m].c] = m
             /\ st'[loop'[m].c] = PlaceAt(loop'[m].pc)
  BY <1>3 DEF CloseListener
<1>4. ASSUME NEW c \in Conns, handleTCP(c)
      PROVE  /\ loop'[m].c \in Conns
             /\ NetOf[loop'[m].c] = m
             /\ st'[loop'[m].c] = PlaceAt(loop'[m].pc)
  BY <1>4 DEF handleTCP, Dialled, DialFails, Release, Copied
<1>5. CASE UNCHANGED connVars
  BY <1>5 DEF connVars
<1> QED
  BY <1>1, <1>2, <1>3, <1>4, <1>5 DEF ConnNext

-----------------------------------------------------------------------------
(* Every step is a step of the pool and keeps the books                    *)

Books == CounterExact /\ WithinLimit

(* Nothing is counted or given back.                                       *)
LEMMA Still ==
    ASSUME Books, Forwarded' = Forwarded, Over' = Over, conns' = conns
    PROVE  Books' /\ [Pool!Next]_Forwarded
BY DEF Books, CounterExact, WithinLimit

LEMMA StepNext == ConnInv /\ [ConnNext]_connVars => Books' /\ [Pool!Next]_Forwarded
<1> SUFFICES ASSUME ConnInv, [ConnNext]_connVars
             PROVE  Books' /\ [Pool!Next]_Forwarded
  OBVIOUS
<1> USE DEF ConnInv
<1>a. Books
  BY DEF Books
<1>1. CASE Environment
  <2>1. CASE \E c \in Conns : Connect(c)
    <3>1. Forwarded' = Forwarded /\ Over' = Over /\ conns' = conns
      BY <2>1 DEF Connect, Forwarded, Over, ConnTypes
    <3> QED
      BY <1>a, <3>1, Still
  <2>2. CASE ConnCancel \/ \E c \in Conns, d \in Directions : Finish(c, d)
    <3>1. Forwarded' = Forwarded /\ Over' = Over /\ conns' = conns
      BY <2>2 DEF ConnCancel, Finish, Forwarded, Over
    <3> QED
      BY <1>a, <3>1, Still
  <2> QED
    BY <1>1, <2>1, <2>2 DEF Environment
<1>2. ASSUME NEW n \in Nets, AcceptLoop(n)
      PROVE  Books' /\ [Pool!Next]_Forwarded
  <2>1. CASE \/ \E c \in Conns : Accept(n, c)
             \/ Deny(n) \/ Reject(n) \/ EndLoop(n)
    <3>1. Forwarded' = Forwarded /\ Over' = Over /\ conns' = conns
      BY <2>1 DEF Accept, Deny, Reject, EndLoop, Forwarded, Over, ConnTypes,
                  Holds, PlaceAt
    <3> QED
      BY <1>a, <3>1, Still
  <2>2. CASE Count(n)
    <3> DEFINE c == loop[n].c
    <3>1. c \in Conns /\ st[c] = "held" /\ conns' = conns + 1
      BY <2>2 DEF Count, Holds, PlaceAt
    <3>2. CASE Exceeds(conns + 1)
      <4>1. st' = [st EXCEPT ![c] = "over"]
        BY <2>2, <3>2 DEF Count
      <4>2. /\ Forwarded' = Forwarded
            /\ Cardinality(Over') = Cardinality(Over) + 1
        BY <3>1, <4>1, EntersOver
      <4>3. Books'
        BY <3>1, <4>2, CountersFinite DEF Books, CounterExact, WithinLimit
      <4> QED
        BY <4>2, <4>3
    <3>3. CASE ~Exceeds(conns + 1)
      <4>1. st' = [st EXCEPT ![c] = "dial"]
        BY <2>2, <3>3 DEF Count
      <4>2. /\ c \notin Forwarded /\ Forwarded' = Forwarded \cup {c}
            /\ Cardinality(Forwarded') = Cardinality(Forwarded) + 1
            /\ Over' = Over
        BY <3>1, <4>1, EntersForwarded
      <4>3. MaxConns > 0 => Cardinality(Forwarded) < MaxConns
        BY <3>3, CountersFinite, ConnAssumption DEF Exceeds, CounterExact
      <4>4. Books'
        BY <3>1, <4>2, <4>3, CountersFinite, ConnAssumption
           DEF Books, CounterExact, WithinLimit
      <4>5. Pool!Enter(c)
        BY <4>2, <4>3 DEF Pool!Enter, Pool!Cardinality, Cardinality
      <4> QED
        BY <3>1, <4>4, <4>5 DEF Pool!Next
    <3> QED
      BY <3>2, <3>3
  <2>3. CASE Rollback(n)
    <3> DEFINE c == loop[n].c
    <3>1. c \in Conns /\ st[c] = "over" /\ conns' = conns - 1
      BY <2>3 DEF Rollback, Holds, PlaceAt
    <3>2. st' = [st EXCEPT ![c] = "rejected"]
      BY <2>3 DEF Rollback
    <3>3. /\ Forwarded' = Forwarded
          /\ Cardinality(Over') = Cardinality(Over) - 1
      BY <3>1, <3>2, LeavesOver
    <3>4. Books'
      BY <3>1, <3>3, CountersFinite DEF Books, CounterExact, WithinLimit
    <3> QED
      BY <3>3, <3>4
  <2> QED
    BY <1>2, <2>1, <2>2, <2>3 DEF AcceptLoop
<1>3. ASSUME NEW n \in Nets, CloseListener(n)
      PROVE  Books' /\ [Pool!Next]_Forwarded
  <2>1. Forwarded' = Forwarded /\ Over' = Over /\ conns' = conns
    BY <1>3 DEF CloseListener, Forwarded, Over
  <2> QED
    BY <1>a, <2>1, Still
<1>4. ASSUME NEW c \in Conns, handleTCP(c)
      PROVE  Books' /\ [Pool!Next]_Forwarded
  <2>1. CASE Dialled(c) \/ \E d \in Directions : Copied(c, d)
    <3>1. Forwarded' = Forwarded /\ Over' = Over /\ conns' = conns
      BY <2>1 DEF Dialled, Copied, Forwarded, Over, ConnTypes
    <3> QED
      BY <1>a, <3>1, Still
  <2>2. CASE DialFails(c) \/ Release(c)
    <3>1. /\ st[c] \in {"dial", "copy"}
          /\ st' = [st EXCEPT ![c] = "closed"]
          /\ conns' = conns - 1
      BY <2>2 DEF DialFails, Release
    <3>2. /\ c \in Forwarded /\ Forwarded' = Forwarded \ {c}
          /\ Cardinality(Forwarded') = Cardinality(Forwarded) - 1
          /\ Over' = Over
      BY <3>1, LeavesForwarded
    <3>3. Books'
      BY <3>1, <3>2, CountersFinite, ConnAssumption
         DEF Books, CounterExact, WithinLimit
    <3> QED
      BY <3>2, <3>3 DEF Pool!Next, Pool!Leave
  <2> QED
    BY <1>4, <2>1, <2>2 DEF handleTCP
<1>5. CASE UNCHANGED connVars
  <2>1. Forwarded' = Forwarded /\ Over' = Over /\ conns' = conns
    BY <1>5 DEF connVars, Forwarded, Over
  <2> QED
    BY <1>a, <2>1, Still
<1> QED
  BY <1>1, <1>2, <1>3, <1>4, <1>5 DEF ConnNext

LEMMA ConnInitHolds == ConnInit => ConnInv /\ Pool!Init
<1> SUFFICES ASSUME ConnInit PROVE ConnInv /\ Pool!Init
  OBVIOUS
<1>1. ConnTypes /\ Holds
  BY DEF ConnInit, ConnTypes, Holds, Places, Accepting
<1>2. Forwarded = {} /\ Over = {}
  BY DEF ConnInit, Forwarded, Over
<1>3. CounterExact /\ WithinLimit
  BY <1>2, FS_EmptySet, ConnAssumption DEF ConnInit, CounterExact, WithinLimit
<1> QED
  BY <1>1, <1>2, <1>3 DEF ConnInv, Pool!Init

LEMMA ConnNextKeeps == ConnInv /\ [ConnNext]_connVars => ConnInv'
BY TypesNext, HoldsNext, StepNext DEF ConnInv, Books

(* The shared counter of the accept loops stays exact.                     *)
THEOREM ConnInvariance == ConnSpec => []ConnInv
BY ConnInitHolds, ConnNextKeeps, PTL DEF ConnSpec

(* The counter never goes below zero and every place is a known one.       *)
THEOREM ConnTypeCorrect == ConnSpec => []ConnTypeOK
BY ConnInvariance, ConnInvParts, PTL

(* No interleaving of accept loops and handlers leaks or loses a unit.     *)
THEOREM CounterExactHolds == ConnSpec => []CounterExact
BY ConnInvariance, ConnInvParts, PTL

(* max_conns holds for any number of networks, clients and for any limit.  *)
THEOREM WithinLimitHolds == ConnSpec => []WithinLimit
BY ConnInvariance, ConnInvParts, PTL

(* The accept loops implement the pool: each step admits or releases one   *)
(* connection within the limit, or changes nothing the pool can see.       *)
THEOREM PoolRefinement == ConnSpec => ImplementsPool
<1>1. ConnInit => Pool!Init
  BY ConnInitHolds
<1>2. ConnInv /\ [ConnNext]_connVars => [Pool!Next]_Forwarded
  BY StepNext
<1> QED
  BY <1>1, <1>2, ConnInvariance, PTL DEF ConnSpec, ImplementsPool, Pool!Spec

-----------------------------------------------------------------------------
(* UDPSessions *)

Registered ==
    \A k \in Keys : sessions[k] # None =>
        key[sessions[k]] = k /\ sessions[k] \in open

Cancelled == map # "open" => udpCtx = "cancelled"

(* The listeners that may still create a session.                          *)
Armed == {l \in Listeners : recv[l].pc \in {"read", "got"}}

Turns == map = "swept" =>
           /\ IsFiniteSet(open)
           /\ Cardinality(open) + Cardinality(Armed) <= Cardinality(Listeners)

UDPInv == UDPTypeOK /\ OpenIsRegistered /\ Registered /\ Cancelled

LEMMA InMapIs == InMap = {s \in Cells : \E k \in Keys : sessions[k] = s}
BY DEF InMap

(* Closing and unregistering the same sessions keeps the map exact.        *)
LEMMA DiscardKeeps ==
    ASSUME UDPInv, NEW S \in SUBSET Cells, Discard(S), key' = key
    PROVE  /\ sessions' \in [Keys -> Cells \cup {None}]
           /\ open' \subseteq Cells
           /\ idle' \in [Cells -> Ages] /\ quiet' \in [Cells -> Ages]
           /\ OpenIsRegistered' /\ Registered'
<1> USE DEF UDPInv, UDPTypeOK, Discard
<1>1. OpenIsRegistered'
  BY UDPAssumption DEF OpenIsRegistered
<1>2. Registered'
  BY DEF Registered
<1>3. idle' \in [Cells -> Ages] /\ quiet' \in [Cells -> Ages]
  BY UDPAssumption DEF Without, Ages
<1> QED
  BY <1>1, <1>2, <1>3

LEMMA HandlerKeeps ==
    ASSUME UDPInv, NEW l \in Listeners, handleUDP(l)
    PROVE  UDPInv'
<1> USE DEF UDPInv
<1>1. CASE \/ CheckContext(l)
           \/ (\E k \in Keys : Receive(l, k)) \/ ReceiveNothing(l)
           \/ DialUDPFails(l) \/ Send(l)
  <2>1. UDPTypeOK'
    BY <1>1 DEF UDPTypeOK, Loop, At, CheckContext, Receive, ReceiveNothing,
                DialUDPFails, Send
  <2>2. UNCHANGED <<sessions, key, open, udpCtx, map>>
    BY <1>1 DEF CheckContext, Receive, ReceiveNothing, DialUDPFails, Send
  <2> QED
    BY <2>1, <2>2 DEF OpenIsRegistered, Registered, Cancelled
<1>2. CASE UseSession(l)
  <2>1. UDPTypeOK'
    <3>1. recv[l].k \in Keys /\ sessions[recv[l].k] \in Cells
      BY <1>2 DEF UseSession, UDPTypeOK, Loop
    <3>2. idle' \in [Cells -> Ages]
      BY <1>2, <3>1, UDPAssumption DEF UseSession, UDPTypeOK, Ages
    <3>3. recv' \in [Listeners -> Loop]
      BY <1>2, <3>1 DEF UseSession, UDPTypeOK, Loop
    <3> QED
      BY <1>2, <3>2, <3>3 DEF UseSession, UDPTypeOK
  <2>2. UNCHANGED <<sessions, key, open, udpCtx, map>>
    BY <1>2 DEF UseSession
  <2> QED
    BY <2>1, <2>2 DEF OpenIsRegistered, Registered, Cancelled
<1>3. CASE CreateSession(l)
  <2> DEFINE s == CHOOSE c \in FreeCells : TRUE
             k == recv[l].k
  <2>1. s \in Cells /\ key[s] = None /\ k \in Keys /\ sessions[k] = None
    BY <1>3 DEF CreateSession, FreeCells, UDPTypeOK, Loop
  <2>2. /\ sessions' = [sessions EXCEPT ![k] = s]
        /\ key' = [key EXCEPT ![s] = k]
        /\ open' = open \cup {s}
        /\ idle' = [idle EXCEPT ![s] = 0]
        /\ quiet' = [quiet EXCEPT ![s] = 0]
        /\ reader' = [reader EXCEPT ![s] = "check"]
        /\ recv' = [recv EXCEPT ![l] = [@ EXCEPT !.pc = "send", !.s = s]]
        /\ udpCtx' = udpCtx /\ map' = map
    BY <1>3 DEF CreateSession
  <2> HIDE DEF s, k
  <2>3. UDPTypeOK'
    <3>1. 0 \in Ages
      BY UDPAssumption DEF Ages
    <3>2. recv' \in [Listeners -> Loop]
      <4>1. recv[l] \in [pc : {"got"}, k : Keys, s : {None}]
        BY <1>3 DEF CreateSession, UDPTypeOK, Loop
      <4>2. [recv[l] EXCEPT !.pc = "send", !.s = s]
               \in [pc : {"send"}, k : Keys, s : Cells]
        BY <2>1, <4>1
      <4> QED
        BY <2>2, <4>2 DEF UDPTypeOK, Loop
    <3> QED
      BY <2>1, <2>2, <3>1, <3>2 DEF UDPTypeOK
  <2>4. OpenIsRegistered'
    BY <2>1, <2>2, UDPAssumption DEF UDPTypeOK, OpenIsRegistered
  <2>5. Registered'
    BY <2>1, <2>2, UDPAssumption DEF UDPTypeOK, Registered
  <2> QED
    BY <2>2, <2>3, <2>4, <2>5 DEF Cancelled
<1> QED
  BY <1>1, <1>2, <1>3 DEF handleUDP

LEMMA ReaderKeeps ==
    ASSUME UDPInv, NEW s \in Cells, Reader(s)
    PROVE  UDPInv'
<1> USE DEF UDPInv
<1>1. CASE \/ ReaderCheck(s) \/ ReaderAnswer(s)
           \/ ReaderExpires(s) \/ ReaderFails(s)
  <2>1. 0 \in Ages
    BY UDPAssumption DEF Ages
  <2>2. UDPTypeOK'
    BY <1>1, <2>1 DEF UDPTypeOK, ReaderCheck, ReaderAnswer, ReaderExpires,
                      ReaderFails
  <2>3. UNCHANGED <<sessions, key, open, udpCtx, map>>
    BY <1>1 DEF ReaderCheck, ReaderAnswer, ReaderExpires, ReaderFails
  <2> QED
    BY <2>2, <2>3 DEF OpenIsRegistered, Registered, Cancelled
<1>2. CASE ReaderDrop(s)
  <2>1. reader' = [reader EXCEPT ![s] = "off"]
        /\ UNCHANGED <<key, recv, udpCtx, map>>
    BY <1>2 DEF ReaderDrop
  <2>2. CASE sessions[key[s]] = s
    <3>1. Discard({s})
      BY <1>2, <2>2 DEF ReaderDrop
    <3>2. /\ sessions' \in [Keys -> Cells \cup {None}]
          /\ open' \subseteq Cells
          /\ idle' \in [Cells -> Ages] /\ quiet' \in [Cells -> Ages]
          /\ OpenIsRegistered' /\ Registered'
      BY <2>1, <3>1, DiscardKeeps
    <3> QED
      BY <2>1, <3>2 DEF UDPTypeOK, Cancelled
  <2>3. CASE sessions[key[s]] # s
    <3>1. UNCHANGED <<open, sessions, idle, quiet>>
      BY <1>2, <2>3 DEF ReaderDrop
    <3> QED
      BY <2>1, <3>1 DEF UDPTypeOK, OpenIsRegistered, Registered, Cancelled
  <2> QED
    BY <2>2, <2>3
<1> QED
  BY <1>1, <1>2 DEF Reader

LEMMA UDPInitHolds == UDPInit => UDPInv /\ Turns
<1> SUFFICES ASSUME UDPInit PROVE UDPInv /\ Turns
  OBVIOUS
<1>1. UDPTypeOK
  BY UDPAssumption DEF UDPInit, UDPTypeOK, Ages, Loop, At
<1> QED
  BY <1>1 DEF UDPInit, UDPInv, OpenIsRegistered, Registered, Cancelled, Turns

LEMMA UDPNextKeeps == UDPInv /\ [UDPNext]_udpVars => UDPInv'
<1> SUFFICES ASSUME UDPInv, [UDPNext]_udpVars PROVE UDPInv'
  OBVIOUS
<1>1. ASSUME NEW l \in Listeners, handleUDP(l) PROVE UDPInv'
  BY <1>1, HandlerKeeps
<1>2. ASSUME NEW s \in Cells, Reader(s) PROVE UDPInv'
  BY <1>2, ReaderKeeps
<1>3. ASSUME NEW s \in Cells, Collect(s) PROVE UDPInv'
  <2>1. UDPTypeOK'
    BY <1>3 DEF Collect, UDPTypeOK, UDPInv
  <2>2. OpenIsRegistered'
    BY <1>3 DEF Collect, OpenIsRegistered, UDPTypeOK, UDPInv
  <2>3. \A k \in Keys : sessions[k] # s
    <3> SUFFICES ASSUME NEW k \in Keys, sessions[k] = s PROVE FALSE
      OBVIOUS
    <3> QED
      BY <1>3, UDPAssumption DEF Collect, UDPInv, UDPTypeOK, Registered, OpenIsRegistered
  <2> QED
    BY <1>3, <2>1, <2>2, <2>3
       DEF Collect, UDPInv, UDPTypeOK, Registered, Cancelled
<1>4. CASE Clean \/ CloseSweep
  <2>1. \E S \in SUBSET Cells : Discard(S)
    BY <1>4 DEF Clean, CloseSweep, Expired, InMap
  <2>2. UNCHANGED <<key, reader, recv, udpCtx>>
    BY <1>4 DEF Clean, CloseSweep
  <2>3. /\ sessions' \in [Keys -> Cells \cup {None}]
        /\ open' \subseteq Cells
        /\ idle' \in [Cells -> Ages] /\ quiet' \in [Cells -> Ages]
        /\ OpenIsRegistered' /\ Registered'
    BY <2>1, <2>2, DiscardKeeps
  <2>4. map' \in {"open", "done", "swept"} /\ Cancelled'
    BY <1>4, <2>2 DEF Clean, CloseSweep, UDPInv, UDPTypeOK, Cancelled
  <2> QED
    BY <2>2, <2>3, <2>4 DEF UDPInv, UDPTypeOK
<1>5. CASE UDPCancel \/ CloseDone
  BY <1>5 DEF UDPCancel, CloseDone, UDPInv, UDPTypeOK, OpenIsRegistered, Registered,
              Cancelled
<1>6. CASE Tick
  <2>1. \A a \in Ages : Older(a) \in Ages
    BY UDPAssumption DEF Ages, Older
  <2>2. 0 \in Ages
    BY UDPAssumption DEF Ages
  <2>3. UDPTypeOK'
    BY <1>6, <2>1, <2>2 DEF Tick, UDPInv, UDPTypeOK
  <2> QED
    BY <1>6, <2>3 DEF Tick, UDPInv, OpenIsRegistered, Registered, Cancelled
<1>7. CASE UNCHANGED udpVars
  BY <1>7 DEF udpVars, UDPInv, UDPTypeOK, Loop, OpenIsRegistered, Registered, Cancelled
<1> QED
  BY <1>1, <1>2, <1>3, <1>4, <1>5, <1>6, <1>7 DEF UDPNext, Close

(* The session map and the open sockets stay in step.                      *)
THEOREM UDPInvariance == UDPSpec => []UDPInv
BY UDPInitHolds, UDPNextKeeps, PTL DEF UDPSpec

(* Every state is well formed.                                             *)
THEOREM UDPTypeCorrect == UDPSpec => []UDPTypeOK
<1>1. UDPInv => UDPTypeOK
  BY DEF UDPInv
<1> QED
  BY <1>1, UDPInvariance, PTL

(* No open backend socket is out of reach of the cleaner and of close.     *)
THEOREM OpenIsRegisteredHolds == UDPSpec => []OpenIsRegistered
<1>1. UDPInv => OpenIsRegistered
  BY DEF UDPInv
<1> QED
  BY <1>1, UDPInvariance, PTL

-----------------------------------------------------------------------------
(* Leftovers of a closed map                                               *)

LEMMA ArmedFinite ==
    ASSUME IsFiniteSet(Listeners)
    PROVE  IsFiniteSet(Armed) /\ Cardinality(Armed) \in Nat
           /\ Cardinality(Listeners) \in Nat
           /\ Cardinality(Armed) <= Cardinality(Listeners)
BY FS_Subset, FS_CardinalityType DEF Armed

(* A step of a swept map that neither opens a socket nor arms a listener.  *)
LEMMA FewerTurns ==
    ASSUME IsFiniteSet(Listeners), Turns, map = "swept",
           open' \subseteq open, Armed' \subseteq Armed
    PROVE  Turns'
<1>1. /\ IsFiniteSet(open') /\ Cardinality(open') <= Cardinality(open)
      /\ Cardinality(open') \in Nat /\ Cardinality(open) \in Nat
  BY FS_Subset, FS_CardinalityType DEF Turns
<1>2. /\ Cardinality(Armed') <= Cardinality(Armed)
      /\ Cardinality(Armed') \in Nat /\ Cardinality(Armed) \in Nat
      /\ Cardinality(Listeners) \in Nat
  BY ArmedFinite, FS_Subset, FS_CardinalityType
<1>3. Cardinality(open) + Cardinality(Armed) <= Cardinality(Listeners)
  BY DEF Turns
<1>4. Cardinality(open') + Cardinality(Armed') <= Cardinality(Listeners)
  BY <1>1, <1>2, <1>3
<1> QED
  BY <1>1, <1>4 DEF Turns

LEMMA TurnsNext ==
    ASSUME IsFiniteSet(Listeners), UDPInv, Turns, [UDPNext]_udpVars
    PROVE  Turns'
<1>1. CASE CloseSweep
  <2>1. open \subseteq InMap
    BY DEF UDPInv, UDPTypeOK, OpenIsRegistered, InMap
  <2>2. open' = {}
    BY <1>1, <2>1 DEF CloseSweep, Discard
  <2>3. Armed' = Armed
    BY <1>1 DEF CloseSweep, Armed
  <2>4. IsFiniteSet(open') /\ Cardinality(open') = 0
    BY <2>2, FS_EmptySet
  <2>5. Cardinality(open') + Cardinality(Armed') <= Cardinality(Listeners)
    BY <2>3, <2>4, ArmedFinite
  <2> QED
    BY <2>4, <2>5 DEF Turns
<1>2. CASE map # "swept" /\ ~CloseSweep
  <2>1. map' # "swept"
    BY <1>2 DEF UDPInv, UDPTypeOK, UDPNext, udpVars, handleUDP, Reader, Close, CheckContext,
       Receive, ReceiveNothing, UseSession, CreateSession, DialUDPFails, Send,
       ReaderCheck, ReaderAnswer, ReaderExpires, ReaderFails, ReaderDrop,
       Collect, Clean, UDPCancel, CloseDone, Tick
  <2> QED
    BY <2>1 DEF Turns
<1>3. CASE map = "swept" /\ ~CloseSweep
  <2>1. udpCtx = "cancelled"
    BY <1>3 DEF UDPInv, Cancelled
  <2>2. ASSUME NEW l \in Listeners, CreateSession(l) PROVE Turns'
    <3> DEFINE s == CHOOSE c \in FreeCells : TRUE
    <3>1. s \in Cells /\ key[s] = None
      BY <2>2 DEF CreateSession, FreeCells
    <3>2. s \notin open
      BY <3>1 DEF UDPInv, OpenIsRegistered
    <3>3. open' = open \cup {s}
      BY <2>2 DEF CreateSession
    <3> HIDE DEF s
    <3>4. l \in Armed /\ Armed' = Armed \ {l}
      BY <2>2 DEF CreateSession, Armed, UDPInv, UDPTypeOK, Loop
    <3>5. /\ IsFiniteSet(open') /\ Cardinality(open') = Cardinality(open) + 1
          /\ Cardinality(open) \in Nat
      BY <1>3, <3>2, <3>3, FS_AddElement, FS_CardinalityType DEF Turns
    <3>6. Cardinality(Armed') = Cardinality(Armed) - 1
      BY <3>4, ArmedFinite, FS_RemoveElement
    <3>7. Cardinality(open) + Cardinality(Armed) <= Cardinality(Listeners)
      BY <1>3 DEF Turns
    <3>8. Cardinality(open') + Cardinality(Armed') <= Cardinality(Listeners)
      BY <3>5, <3>6, <3>7, ArmedFinite
    <3> QED
      BY <3>5, <3>8 DEF Turns
  <2>3. ASSUME NEW l \in Listeners, handleUDP(l), ~CreateSession(l)
        PROVE  open' \subseteq open /\ Armed' \subseteq Armed
    BY <2>1, <2>3 DEF handleUDP, CheckContext, Receive, ReceiveNothing, UseSession,
       DialUDPFails, Send, At, Armed, UDPInv, UDPTypeOK
  <2>4. ASSUME NEW s \in Cells, Reader(s) \/ Collect(s)
        PROVE  open' \subseteq open /\ Armed' \subseteq Armed
    BY <2>4 DEF Reader, ReaderCheck, ReaderAnswer, ReaderExpires, ReaderFails,
       ReaderDrop, Discard, Collect, Armed
  <2>5. CASE Clean \/ UDPCancel \/ CloseDone \/ Tick
    <3>1. open' \subseteq open /\ Armed' \subseteq Armed
      BY <2>5 DEF Clean, UDPCancel, CloseDone, Tick, Discard, Armed
    <3> QED
      BY <1>3, <3>1, FewerTurns
  <2>6. CASE UNCHANGED udpVars
    <3>1. open' \subseteq open /\ Armed' \subseteq Armed
      BY <2>6 DEF udpVars, Armed
    <3> QED
      BY <1>3, <3>1, FewerTurns
  <2> QED
    BY <1>3, <2>2, <2>3, <2>4, <2>5, <2>6, FewerTurns DEF UDPNext, Close
<1> QED
  BY <1>1, <1>2, <1>3

(* However many datagrams are in flight when a rule stops, the sessions    *)
(* that outlive the closing of the map are at most one per listener.       *)
THEOREM LeftoversBoundedHolds ==
    IsFiniteSet(Listeners) => (UDPSpec => []LeftoversBounded)
<1> SUFFICES ASSUME IsFiniteSet(Listeners) PROVE UDPSpec => []LeftoversBounded
  OBVIOUS
<1>1. UDPInv /\ Turns /\ [UDPNext]_udpVars => Turns'
  BY TurnsNext
<1>2. Turns => LeftoversBounded
  <2> SUFFICES ASSUME Turns, map = "swept"
               PROVE  Cardinality(open) <= Cardinality(Listeners)
    BY DEF LeftoversBounded
  <2>1. /\ Cardinality(open) \in Nat
        /\ Cardinality(open) + Cardinality(Armed) <= Cardinality(Listeners)
    BY FS_CardinalityType DEF Turns
  <2> QED
    BY <2>1, ArmedFinite
<1> QED
  BY <1>1, <1>2, UDPInitHolds, UDPInvariance, PTL DEF UDPSpec

-----------------------------------------------------------------------------
(* The instance *)

(* startRule and networks: whatever the protocol, the accept loops of an   *)
(* instance behave as ConnLimit says and its datagram loops as UDPSessions *)
(* says, so all that is proved of either holds of the instance.            *)
THEOREM InstanceIsBoth == FairSpec => ConnSpec /\ UDPSpec
<1>1. Init => ConnInit /\ UDPInit
  BY DEF Init
<1>2. [Next]_vars => [ConnNext]_connVars /\ [UDPNext]_udpVars
  BY DEF Next, TCP, UDP, vars
<1> QED
  BY <1>1, <1>2, PTL DEF FairSpec, ConnSpec, UDPSpec

(* The limit and the registration of open sockets hold of the instance, on *)
(* both networks at once.                                                  *)
THEOREM InstanceKeepsBoth == FairSpec => ImplementsPool /\ []OpenIsRegistered
  BY InstanceIsBoth, PoolRefinement, OpenIsRegisteredHolds, PTL
=============================================================================
