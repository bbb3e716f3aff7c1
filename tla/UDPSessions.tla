----------------------------- MODULE UDPSessions -----------------------------
(***************************************************************************)
(* The UDP session map of one rule instance                                *)
(* (internal/engine/forward/forward.go: udpSessionMap, handleUDP).         *)
(*                                                                         *)
(* The instance's UDP listeners share one map from client address to a     *)
(* session: a backend socket, the time of the client's last datagram and a *)
(* reader goroutine that carries answers back.  A session is closed by its *)
(* reader (an error, or no answer for ttl), by the cleaner (no datagram    *)
(* for longer than ttl) or by the closing of the map, which first signals  *)
(* done and then sweeps.  All three take the map's mutex; a datagram is    *)
(* written to its backend socket after the mutex was released.             *)
(*                                                                         *)
(* Abstracted: payload and the ACL (a refused datagram changes nothing).   *)
(* Time is two ages per session that Tick lets grow, up to one beyond TTL: *)
(* the moment of the cleaner's next tick is left open.                     *)
(***************************************************************************)
EXTENDS Naturals, FiniteSets

CONSTANTS
    Keys,       \* client addresses
    Listeners,  \* "udp" and "udp6" listeners of the instance
    Cells,      \* heap cells of *udpSession (bound: a dial waits for one)
    TTL,        \* udpSessionTTL, in ticks
    None        \* no session

ASSUME UDPAssumption ==
    /\ None \notin Keys \cup Cells
    /\ TTL \in Nat \ {0}

VARIABLES
    sessions,  \* client address -> cell, or None
    key,       \* cell -> the client it was made for, None when free
    open,      \* cells whose backend socket is open
    idle,      \* cell -> age of lastUsed
    quiet,     \* cell -> time since the reader set its deadline
    reader,    \* cell -> the session's reader goroutine
    recv,      \* listener -> its handleUDP loop
    udpCtx,    \* the instance's context
    map        \* "open", "done" (m.done is closed) or "swept"

udpVars == <<sessions, key, open, idle, quiet, reader, recv, udpCtx, map>>

Ages == 0..(TTL + 1)
Older(a) == IF a > TTL THEN a ELSE a + 1

Loop == [pc : {"top", "read", "off"}, k : {None}, s : {None}]
        \cup [pc : {"got"}, k : Keys, s : {None}]
        \cup [pc : {"send"}, k : Keys, s : Cells]

UDPTypeOK ==
    /\ sessions \in [Keys -> Cells \cup {None}]
    /\ key \in [Cells -> Keys \cup {None}]
    /\ open \subseteq Cells
    /\ idle \in [Cells -> Ages]
    /\ quiet \in [Cells -> Ages]
    /\ reader \in [Cells -> {"off", "check", "read", "expired", "failed"}]
    /\ recv \in [Listeners -> Loop]
    /\ udpCtx \in {"active", "cancelled"}
    /\ map \in {"open", "done", "swept"}

At(pc) == [pc |-> pc, k |-> None, s |-> None]

UDPInit ==
    /\ sessions = [k \in Keys |-> None]
    /\ key = [s \in Cells |-> None]
    /\ open = {}
    /\ idle = [s \in Cells |-> 0]
    /\ quiet = [s \in Cells |-> 0]
    /\ reader = [s \in Cells |-> "off"]
    /\ recv = [l \in Listeners |-> At("top")]
    /\ udpCtx = "active"
    /\ map = "open"

(* The ages of closed sessions mean nothing.                               *)
Without(S, age) == [s \in Cells |-> IF s \in S THEN 0 ELSE age[s]]

(* conn.Close() and delete(m.sessions, key) of a set of sessions.          *)
Discard(S) ==
    /\ open' = open \ S
    /\ sessions' = [k \in Keys |->
                       IF sessions[k] \in S THEN None ELSE sessions[k]]
    /\ idle' = Without(S, idle)
    /\ quiet' = Without(S, quiet)

InMap == {s \in Cells : \E k \in Keys : sessions[k] = s}

-----------------------------------------------------------------------------
(* handleUDP, one loop per listener                                        *)

(* The select at the head of the loop.                                     *)
CheckContext(l) ==
    /\ recv[l].pc = "top"
    /\ recv' = [recv EXCEPT
                  ![l] = At(IF udpCtx = "cancelled" THEN "off" ELSE "read")]
    /\ UNCHANGED <<sessions, key, open, idle, quiet, reader, udpCtx, map>>

(* conn.ReadFrom returns a datagram of client k ...                        *)
Receive(l, k) ==
    /\ recv[l].pc = "read"
    /\ recv' = [recv EXCEPT ![l] = [pc |-> "got", k |-> k, s |-> None]]
    /\ UNCHANGED <<sessions, key, open, idle, quiet, reader, udpCtx, map>>

(* ... or its one-second deadline passes, or it fails.                     *)
ReceiveNothing(l) ==
    /\ recv[l].pc = "read"
    /\ recv' = [recv EXCEPT ![l] = At("top")]
    /\ UNCHANGED <<sessions, key, open, idle, quiet, reader, udpCtx, map>>

(* getOrCreate finds the client's session.                                 *)
UseSession(l) ==
    /\ recv[l].pc = "got"
    /\ LET s == sessions[recv[l].k] IN
       /\ s # None
       /\ idle' = [idle EXCEPT ![s] = 0]
       /\ recv' = [recv EXCEPT ![l] = [@ EXCEPT !.pc = "send", !.s = s]]
    /\ UNCHANGED <<sessions, key, open, quiet, reader, udpCtx, map>>

FreeCells == {s \in Cells : key[s] = None}

(* getOrCreate dials the backend and registers a new session.  m.done is   *)
(* not looked at.                                                          *)
CreateSession(l) ==
    /\ recv[l].pc = "got"
    /\ sessions[recv[l].k] = None
    /\ FreeCells # {}
    /\ LET s == CHOOSE s \in FreeCells : TRUE
           k == recv[l].k IN
       /\ sessions' = [sessions EXCEPT ![k] = s]
       /\ key' = [key EXCEPT ![s] = k]
       /\ open' = open \cup {s}
       /\ idle' = [idle EXCEPT ![s] = 0]
       /\ quiet' = [quiet EXCEPT ![s] = 0]
       /\ reader' = [reader EXCEPT ![s] = "check"]
       /\ recv' = [recv EXCEPT ![l] = [@ EXCEPT !.pc = "send", !.s = s]]
    /\ UNCHANGED <<udpCtx, map>>

(* DialUDP fails: the datagram is dropped.                                 *)
DialUDPFails(l) ==
    /\ recv[l].pc = "got"
    /\ sessions[recv[l].k] = None
    /\ recv' = [recv EXCEPT ![l] = At("top")]
    /\ UNCHANGED <<sessions, key, open, idle, quiet, reader, udpCtx, map>>

(* targetConn.Write; on a socket closed since, the datagram is lost.       *)
Send(l) ==
    /\ recv[l].pc = "send"
    /\ recv' = [recv EXCEPT ![l] = At("top")]
    /\ UNCHANGED <<sessions, key, open, idle, quiet, reader, udpCtx, map>>

-----------------------------------------------------------------------------
(* sessionReader                                                           *)

(* select on m.done, then SetReadDeadline(now + ttl).                      *)
ReaderCheck(s) ==
    /\ reader[s] = "check"
    /\ IF map # "open"
       THEN /\ reader' = [reader EXCEPT ![s] = "off"]
            /\ UNCHANGED quiet
       ELSE /\ reader' = [reader EXCEPT ![s] = "read"]
            /\ quiet' = [quiet EXCEPT ![s] = 0]
    /\ UNCHANGED <<sessions, key, open, idle, recv, udpCtx, map>>

(* An answer is written to the client.                                     *)
ReaderAnswer(s) ==
    /\ reader[s] = "read"
    /\ s \in open
    /\ reader' = [reader EXCEPT ![s] = "check"]
    /\ quiet' = [quiet EXCEPT ![s] = 0]
    /\ UNCHANGED <<sessions, key, open, idle, recv, udpCtx, map>>

(* ReadFrom fails: its deadline passed ...                                 *)
ReaderExpires(s) ==
    /\ reader[s] = "read"
    /\ quiet[s] >= TTL
    /\ reader' = [reader EXCEPT ![s] = "expired"]
    /\ UNCHANGED <<sessions, key, open, idle, quiet, recv, udpCtx, map>>

(* ... or the socket was closed, or the backend refuses.                   *)
ReaderFails(s) ==
    /\ reader[s] = "read"
    /\ reader' = [reader EXCEPT ![s] = "failed"]
    /\ UNCHANGED <<sessions, key, open, idle, quiet, recv, udpCtx, map>>

(* Mutant: whatever session the client has now is unregistered.            *)
ReaderDropAny(s) ==
    /\ reader[s] \in {"expired", "failed"}
    /\ open' = open \ {s}
    /\ sessions' = [sessions EXCEPT ![key[s]] = None]
    /\ reader' = [reader EXCEPT ![s] = "off"]
    /\ UNCHANGED <<key, idle, quiet, recv, udpCtx, map>>

(* The reader takes the lock and closes its session if it is still the     *)
(* registered one; another session of the same client is left alone.       *)
ReaderDrop(s) ==
    /\ reader[s] \in {"expired", "failed"}
    /\ IF sessions[key[s]] = s
       THEN Discard({s})
       ELSE UNCHANGED <<open, sessions, idle, quiet>>
    /\ reader' = [reader EXCEPT ![s] = "off"]
    /\ UNCHANGED <<key, recv, udpCtx, map>>

-----------------------------------------------------------------------------
(* cleaner, close, time                                                    *)

Expired == {s \in InMap : idle[s] > TTL}

(* Mutant: live readers are left alone.                                    *)
CleanDead ==
    /\ \E s \in Expired : reader[s] = "off"
    /\ Discard({s \in Expired : reader[s] = "off"})
    /\ UNCHANGED <<key, reader, recv, udpCtx, map>>

(* A tick of the cleaner.  Its select may still prefer the ticker when     *)
(* m.done is closed as well; it owes no tick from then on.                 *)
Clean ==
    /\ Expired # {}
    /\ Discard(Expired)
    /\ UNCHANGED <<key, reader, recv, udpCtx, map>>

(* inst.cancel().                                                          *)
UDPCancel ==
    /\ udpCtx = "active"
    /\ udpCtx' = "cancelled"
    /\ UNCHANGED <<sessions, key, open, idle, quiet, reader, recv, map>>

(* close: the done channel ...                                             *)
CloseDone ==
    /\ udpCtx = "cancelled"
    /\ map = "open"
    /\ map' = "done"
    /\ UNCHANGED <<sessions, key, open, idle, quiet, reader, recv, udpCtx>>

(* Mutant: the sessions are left to their readers.                         *)
CloseSweepWaits ==
    /\ map = "done"
    /\ InMap = {}
    /\ map' = "swept"
    /\ UNCHANGED <<sessions, key, open, idle, quiet, reader, recv, udpCtx>>

(* ... then every registered session, under the lock.                      *)
CloseSweep ==
    /\ map = "done"
    /\ map' = "swept"
    /\ Discard(InMap)
    /\ UNCHANGED <<key, reader, recv, udpCtx>>

(* Time passes for the sessions, and for the readers that wait.            *)
Tick ==
    /\ idle' = [s \in Cells |->
                   IF s \in open THEN Older(idle[s]) ELSE idle[s]]
    /\ quiet' = [s \in Cells |->
                   IF s \in open /\ reader[s] = "read"
                   THEN Older(quiet[s]) ELSE quiet[s]]
    /\ UNCHANGED <<sessions, key, open, reader, recv, udpCtx, map>>

(* Nothing refers to a closed session any more.                            *)
Collect(s) ==
    /\ key[s] # None
    /\ s \notin open
    /\ reader[s] = "off"
    /\ \A l \in Listeners : recv[l].s # s
    /\ key' = [key EXCEPT ![s] = None]
    /\ UNCHANGED <<sessions, open, idle, quiet, reader, recv, udpCtx, map>>

-----------------------------------------------------------------------------
handleUDP(l) ==
    \/ CheckContext(l)
    \/ (\E k \in Keys : Receive(l, k)) \/ ReceiveNothing(l)
    \/ UseSession(l) \/ CreateSession(l) \/ DialUDPFails(l) \/ Send(l)

Reader(s) ==
    \/ ReaderCheck(s) \/ ReaderAnswer(s)
    \/ ReaderExpires(s) \/ ReaderFails(s) \/ ReaderDrop(s)

Close == CloseDone \/ CloseSweep

UDPNext ==
    \/ \E l \in Listeners : handleUDP(l)
    \/ \E s \in Cells : Reader(s) \/ Collect(s)
    \/ Clean \/ UDPCancel \/ Close \/ Tick

UDPSpec == UDPInit /\ [][UDPNext]_udpVars

(* Goroutines run, time passes, the cleaner's ticker ticks.  Clients,      *)
(* backends and cancellations owe nothing.                                 *)
UDPFairness ==
    /\ \A l \in Listeners : WF_udpVars(handleUDP(l))
    /\ \A s \in Cells : WF_udpVars(Reader(s)) /\ WF_udpVars(Collect(s))
    /\ WF_udpVars(map = "open" /\ Clean) /\ WF_udpVars(Close) /\ WF_udpVars(Tick)

UDPFairSpec == UDPSpec /\ UDPFairness

-----------------------------------------------------------------------------
(* Properties                                                              *)

(* A backend socket that is open is registered under its client, so that   *)
(* the cleaner and the closing of the map can find it; in particular a     *)
(* reader that fails late never unregisters the session that came after    *)
(* its own.                                                                *)
OpenIsRegistered == \A s \in open : key[s] # None /\ sessions[key[s]] = s

(* getOrCreate may run after the map was closed and leave a session nobody *)
(* will close; each listener does so at most once, because it looks at the *)
(* context before it reads again.                                          *)
LeftoversBounded ==
    map = "swept" => Cardinality(open) <= Cardinality(Listeners)

(* A session whose client fell silent is closed, or its client is back.    *)
IdleIsClosed ==
    \A s \in Cells :
        (map = "open" /\ s \in open /\ idle[s] > TTL)
            ~> (map # "open" \/ s \notin open \/ idle[s] = 0)

(* After a cancel the listeners return and only leftovers stay open.       *)
CancelEnds ==
    udpCtx = "cancelled" ~> /\ map = "swept"
                         /\ \A l \in Listeners : recv[l].pc = "off"
                         /\ LeftoversBounded
=============================================================================
