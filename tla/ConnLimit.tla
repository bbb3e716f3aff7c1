------------------------------ MODULE ConnLimit ------------------------------
(***************************************************************************)
(* TCP connections of one rule instance                                    *)
(* (internal/engine/forward/forward.go: listen, handleTCP).                *)
(*                                                                         *)
(* The accept loops of the instance's networks run concurrently and share  *)
(* one atomic counter.  A loop adds one first and looks at the result; a   *)
(* connection over the limit is rolled back by a second atomic add.  An    *)
(* admitted connection has its own goroutine, which dials the target and   *)
(* copies both directions until both are at their end.  Cancelling the     *)
(* instance closes the listeners and aborts dials; connections that are    *)
(* being copied live on until their peers end them.                        *)
(*                                                                         *)
(* Abstracted: payload, byte counters, addresses (Denied is the set of     *)
(* clients the instance's matcher refuses).                                *)
(***************************************************************************)
EXTENDS Integers, FiniteSets

CONSTANTS
    Nets,      \* TCP networks of the instance, e.g. {"tcp", "tcp6"}
    Conns,     \* client connections, each connects at most once
    NetOf,     \* connection -> the network it arrives on
    Denied,    \* those the ACL refuses
    MaxConns,  \* forward_rules.max_conns, 0 is no limit
    NoConn     \* an accept loop that holds no connection

Directions == {"in", "out"}

ASSUME ConnAssumption ==
    /\ IsFiniteSet(Conns)
    /\ NetOf \in [Conns -> Nets]
    /\ Denied \subseteq Conns
    /\ MaxConns \in Nat
    /\ NoConn \notin Conns

VARIABLES
    conns,     \* inst.conns
    st,        \* connection -> where it is
    fin,       \* connection -> directions that have come to their end
    copied,    \* connection -> directions whose io.Copy returned
    loop,      \* network -> its accept loop
    listening, \* networks whose listener is open
    connCtx    \* "active" or "cancelled"

connVars == <<conns, st, fin, copied, loop, listening, connCtx>>

(* "new": not connected yet.  "queued": in a listener's backlog.  "held":  *)
(* returned by Accept.  "over": counted, above the limit.  "rejected": the *)
(* add was rolled back.  "dial", "copy": its goroutine runs.               *)
Places == {"new", "queued", "held", "over", "rejected", "dial", "copy", "closed"}

ConnTypeOK ==
    /\ conns \in Nat
    /\ st \in [Conns -> Places]
    /\ fin \in [Conns -> SUBSET Directions]
    /\ copied \in [Conns -> SUBSET Directions]
    /\ loop \in [Nets -> [pc : {"accept", "acl", "rollback", "close", "off"},
                          c : Conns \cup {NoConn}]]
    /\ listening \subseteq Nets
    /\ connCtx \in {"active", "cancelled"}

Accepting == [pc |-> "accept", c |-> NoConn]

ConnInit ==
    /\ conns = 0
    /\ st = [c \in Conns |-> "new"]
    /\ fin = [c \in Conns |-> {}]
    /\ copied = [c \in Conns |-> {}]
    /\ loop = [n \in Nets |-> Accepting]
    /\ listening = Nets
    /\ connCtx = "active"

(* The connections with a goroutine, and those to be rolled back.          *)
Forwarded == {c \in Conns : st[c] \in {"dial", "copy"}}
Over == {c \in Conns : st[c] = "over"}

-----------------------------------------------------------------------------
(* The outside                                                             *)

(* A client connects while the listener is open.                           *)
Connect(c) ==
    /\ st[c] = "new"
    /\ NetOf[c] \in listening
    /\ st' = [st EXCEPT ![c] = "queued"]
    /\ UNCHANGED <<conns, fin, copied, loop, listening, connCtx>>

(* The source of a direction (the client for "in", the target for "out")   *)
(* is at its end, or its sink is gone and writing to it fails.             *)
Finish(c, d) ==
    /\ st[c] = "copy"
    /\ d \notin fin[c]
    /\ fin' = [fin EXCEPT ![c] = @ \cup {d}]
    /\ UNCHANGED <<conns, st, copied, loop, listening, connCtx>>

(* inst.cancel(): Reload, Remove or Stop.                                  *)
ConnCancel ==
    /\ connCtx = "active"
    /\ connCtx' = "cancelled"
    /\ UNCHANGED <<conns, st, fin, copied, loop, listening>>

-----------------------------------------------------------------------------
(* One accept loop per network                                             *)

(* listener.Accept().                                                      *)
Accept(n, c) ==
    /\ loop[n].pc = "accept"
    /\ NetOf[c] = n
    /\ st[c] = "queued"
    /\ st' = [st EXCEPT ![c] = "held"]
    /\ loop' = [loop EXCEPT ![n] = [pc |-> "acl", c |-> c]]
    /\ UNCHANGED <<conns, fin, copied, listening, connCtx>>

(* inst.matcher.IsAllowed is false: the connection is never counted.       *)
Deny(n) ==
    /\ loop[n].pc = "acl"
    /\ loop[n].c \in Denied
    /\ st' = [st EXCEPT ![loop[n].c] = "closed"]
    /\ loop' = [loop EXCEPT ![n] = Accepting]
    /\ UNCHANGED <<conns, fin, copied, listening, connCtx>>

Exceeds(k) == MaxConns > 0 /\ k > MaxConns

(* atomic.AddInt64(&inst.conns, 1): either the result is over the limit,   *)
(* or go e.handleTCP.                                                      *)
Count(n) ==
    /\ loop[n].pc = "acl"
    /\ loop[n].c \notin Denied
    /\ conns' = conns + 1
    /\ LET c == loop[n].c IN
       IF Exceeds(conns + 1)
       THEN /\ st' = [st EXCEPT ![c] = "over"]
            /\ loop' = [loop EXCEPT ![n] = [pc |-> "rollback", c |-> c]]
       ELSE /\ st' = [st EXCEPT ![c] = "dial"]
            /\ loop' = [loop EXCEPT ![n] = Accepting]
    /\ UNCHANGED <<fin, copied, listening, connCtx>>

(* Mutant: the rolled back connection is forwarded all the same.           *)
RollbackGoesOn(n) ==
    /\ loop[n].pc = "rollback"
    /\ conns' = conns - 1
    /\ st' = [st EXCEPT ![loop[n].c] = "dial"]
    /\ loop' = [loop EXCEPT ![n] = Accepting]
    /\ UNCHANGED <<fin, copied, listening, connCtx>>

(* atomic.AddInt64(&inst.conns, -1) ...                                    *)
Rollback(n) ==
    /\ loop[n].pc = "rollback"
    /\ conns' = conns - 1
    /\ st' = [st EXCEPT ![loop[n].c] = "rejected"]
    /\ loop' = [loop EXCEPT ![n].pc = "close"]
    /\ UNCHANGED <<fin, copied, listening, connCtx>>

(* Mutant: the refused connection is not closed.                           *)
RejectLeaks(n) ==
    /\ loop[n].pc = "close"
    /\ loop' = [loop EXCEPT ![n] = Accepting]
    /\ UNCHANGED <<conns, st, fin, copied, listening, connCtx>>

(* ... and conn.Close().                                                   *)
Reject(n) ==
    /\ loop[n].pc = "close"
    /\ st' = [st EXCEPT ![loop[n].c] = "closed"]
    /\ loop' = [loop EXCEPT ![n] = Accepting]
    /\ UNCHANGED <<conns, fin, copied, listening, connCtx>>

(* Mutant: the closer goroutine waits until no connection is left.         *)
CloseListenerIdle(n) ==
    /\ connCtx = "cancelled"
    /\ n \in listening
    /\ conns = 0
    /\ listening' = listening \ {n}
    /\ st' = [c \in Conns |->
                 IF st[c] = "queued" /\ NetOf[c] = n THEN "closed" ELSE st[c]]
    /\ UNCHANGED <<conns, fin, copied, loop, connCtx>>

(* The closer goroutine: <-ctx.Done(), listener.Close().  The backlog dies *)
(* with the listener.                                                      *)
CloseListener(n) ==
    /\ connCtx = "cancelled"
    /\ n \in listening
    /\ listening' = listening \ {n}
    /\ st' = [c \in Conns |->
                 IF st[c] = "queued" /\ NetOf[c] = n THEN "closed" ELSE st[c]]
    /\ UNCHANGED <<conns, fin, copied, loop, connCtx>>

(* Accept fails; the context is cancelled by then, so the loop returns.    *)
(* (Any other accept error is logged and the loop goes on: no step.)       *)
EndLoop(n) ==
    /\ loop[n].pc = "accept"
    /\ n \notin listening
    /\ loop' = [loop EXCEPT ![n].pc = "off"]
    /\ UNCHANGED <<conns, st, fin, copied, listening, connCtx>>

-----------------------------------------------------------------------------
(* One handleTCP goroutine per admitted connection                         *)

(* DialContext succeeds.                                                   *)
Dialled(c) ==
    /\ st[c] = "dial"
    /\ st' = [st EXCEPT ![c] = "copy"]
    /\ UNCHANGED <<conns, fin, copied, loop, listening, connCtx>>

(* The target refuses, ten seconds pass, or the context is cancelled; the  *)
(* deferred calls close the client and take it off the counter.            *)
DialFails(c) ==
    /\ st[c] = "dial"
    /\ st' = [st EXCEPT ![c] = "closed"]
    /\ conns' = conns - 1
    /\ UNCHANGED <<fin, copied, loop, listening, connCtx>>

(* io.Copy of one direction returns: its source is at its end, or writing  *)
(* to a peer that is gone fails.  Then CloseWrite on the other side.       *)
Copied(c, d) ==
    /\ st[c] = "copy"
    /\ d \in fin[c]
    /\ d \notin copied[c]
    /\ copied' = [copied EXCEPT ![c] = @ \cup {d}]
    /\ UNCHANGED <<conns, st, fin, loop, listening, connCtx>>

(* wg.Wait returns; the deferred calls run.                                *)
Release(c) ==
    /\ st[c] = "copy"
    /\ copied[c] = Directions
    /\ st' = [st EXCEPT ![c] = "closed"]
    /\ conns' = conns - 1
    /\ UNCHANGED <<fin, copied, loop, listening, connCtx>>

-----------------------------------------------------------------------------
AcceptLoop(n) ==
    \/ \E c \in Conns : Accept(n, c)
    \/ Deny(n) \/ Count(n) \/ Rollback(n) \/ Reject(n) \/ EndLoop(n)

handleTCP(c) ==
    \/ Dialled(c) \/ DialFails(c) \/ Release(c)
    \/ \E d \in Directions : Copied(c, d)

Environment ==
    \/ ConnCancel
    \/ \E c \in Conns : Connect(c) \/ \E d \in Directions : Finish(c, d)

ConnNext ==
    \/ Environment
    \/ \E n \in Nets : AcceptLoop(n) \/ CloseListener(n)
    \/ \E c \in Conns : handleTCP(c)

ConnSpec == ConnInit /\ [][ConnNext]_connVars

(* Goroutines run.  Clients, targets and cancellations owe nothing.        *)
ConnFairness ==
    /\ \A n \in Nets :
          WF_connVars(AcceptLoop(n)) /\ WF_connVars(CloseListener(n))
    /\ \A c \in Conns : WF_connVars(handleTCP(c))

ConnFairSpec == ConnSpec /\ ConnFairness

-----------------------------------------------------------------------------
(* Properties                                                              *)

(* However the accept loops interleave, the counter is exactly the number  *)
(* of connections whose goroutine runs and of those still to be rolled     *)
(* back: no path of handleTCP or of the limit leaks a unit.                *)
CounterExact ==
    conns = Cardinality(Forwarded) + Cardinality(Over)

(* More than max_conns clients are never forwarded at one moment.          *)
WithinLimit == MaxConns > 0 => Cardinality(Forwarded) <= MaxConns

(* A connection that is over the limit, or whose two ends both finished,   *)
(* is closed and given back.                                               *)
ReleasesSlot ==
    \A c \in Conns :
        (st[c] = "over" \/ fin[c] = Directions) ~> st[c] = "closed"

(* After a cancel every listener goes away and nobody waits in a backlog   *)
(* for ever.                                                               *)
CancelEndsAccepting ==
    connCtx = "cancelled" ~> /\ \A n \in Nets : loop[n].pc = "off"
                         /\ \A c \in Conns : st[c] # "queued"

(* So neither the clients nor the listeners are kept for ever.             *)
ConnectionsSettle == ReleasesSlot /\ CancelEndsAccepting

Pool == INSTANCE ConnPool WITH forwarded <- Forwarded

(* The accept loops implement the limit.                                   *)
ImplementsPool == Pool!Spec
=============================================================================
