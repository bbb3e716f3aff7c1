------------------------------- MODULE DbPool -------------------------------
(***************************************************************************)
(* The database connections NetBerth's goroutines share                    *)
(*   internal/db/db.go              openSQLite, openPostgres: the limit    *)
(*   internal/service/wire.go       GetRules and the loaders               *)
(*   internal/api/handler/forward_handler.go, proxy_handler.go   List      *)
(*                                                                         *)
(* A goroutine that calls Exec or QueryRow holds one connection for the    *)
(* time of the call.  One that walks a cursor (List, GetRules) holds the   *)
(* cursor's connection and, for every row, asks for further connections to *)
(* read the row's lists, one after the other.  No call carries a context:  *)
(* a goroutine waits for a connection for as long as it takes.             *)
(*                                                                         *)
(* Abstracted: SQL, results, the writers' lock of SQLite.  Which waiter    *)
(* gets the next connection is database/sql's choice.                      *)
(***************************************************************************)
EXTENDS Naturals, FiniteSets

CONSTANTS
    Goroutines,  \* those that use the database
    Walkers,     \* those of them that may walk a cursor
    MaxOpen,     \* SetMaxOpenConns: max(2, NumCPU - 1)
    MaxLists     \* bound: list reads under one cursor

ASSUME PoolAssumption ==
    /\ IsFiniteSet(Goroutines)
    /\ Walkers \subseteq Goroutines
    /\ MaxOpen \in Nat \ {0}
    /\ MaxLists \in Nat

VARIABLES
    used,   \* connections handed out
    pc,     \* goroutine -> what it does
    lists   \* goroutine -> list reads its cursor still has to make

poolVars == <<used, pc, lists>>

Waits == {"wantCall", "wantCursor", "wantList"}
Steps == {"idle", "call", "cursor", "list"} \cup Waits

PoolTypeOK ==
    /\ used \in 0..MaxOpen
    /\ pc \in [Goroutines -> Steps]
    /\ lists \in [Goroutines -> 0..MaxLists]

PoolInit ==
    /\ used = 0
    /\ pc = [g \in Goroutines |-> "idle"]
    /\ lists = [g \in Goroutines |-> 0]

Go(g, from, to) == pc[g] = from /\ pc' = [pc EXCEPT ![g] = to]

Take == used < MaxOpen /\ used' = used + 1
Give == used' = used - 1

-----------------------------------------------------------------------------
(* Exec, QueryRow(...).Scan and the list loaders when no cursor is open.   *)
AskCall(g) == Go(g, "idle", "wantCall") /\ UNCHANGED <<used, lists>>
GetCall(g) == Go(g, "wantCall", "call") /\ Take /\ UNCHANGED lists
EndCall(g) == Go(g, "call", "idle") /\ Give /\ UNCHANGED lists

(* db.Query of List or GetRules.                                           *)
AskCursor(g) ==
    /\ g \in Walkers
    /\ Go(g, "idle", "wantCursor")
    /\ UNCHANGED <<used, lists>>

GetCursor(g) ==
    /\ Go(g, "wantCursor", "cursor")
    /\ Take
    /\ \E n \in 0..MaxLists : lists' = [lists EXCEPT ![g] = n]

(* A row was scanned: loadWireACL, loadACLEntries, loadWireDomains, ...    *)
AskList(g) ==
    /\ lists[g] > 0
    /\ Go(g, "cursor", "wantList")
    /\ UNCHANGED <<used, lists>>

GetList(g) == Go(g, "wantList", "list") /\ Take /\ UNCHANGED lists

(* Mutant: the same list is read over and over.                            *)
EndListAgain(g) ==
    /\ Go(g, "list", "cursor")
    /\ Give
    /\ UNCHANGED lists

(* The loader's deferred rows.Close().                                     *)
EndList(g) ==
    /\ Go(g, "list", "cursor")
    /\ Give
    /\ lists' = [lists EXCEPT ![g] = @ - 1]

(* Mutant: an early return leaves the cursor open.                         *)
EndCursorKeeps(g) ==
    /\ Go(g, "cursor", "idle")
    /\ IF lists[g] = 0 THEN Give ELSE UNCHANGED used
    /\ lists' = [lists EXCEPT ![g] = 0]

(* The last row was read, or a scan failed: the deferred rows.Close().     *)
EndCursor(g) ==
    /\ Go(g, "cursor", "idle")
    /\ Give
    /\ lists' = [lists EXCEPT ![g] = 0]

-----------------------------------------------------------------------------
Ask(g) == AskCall(g) \/ AskCursor(g)
Get(g) == GetCall(g) \/ GetCursor(g) \/ GetList(g)
Work(g) == EndCall(g) \/ AskList(g) \/ EndList(g) \/ EndCursor(g)

PoolNext == \E g \in Goroutines : Ask(g) \/ Get(g) \/ Work(g)

PoolSpec == PoolInit /\ [][PoolNext]_poolVars

(* A goroutine that holds what it needs goes on; database/sql picks among  *)
(* the waiters at random, so that none is passed over for ever.            *)
PoolFairness == \A g \in Goroutines : WF_poolVars(Work(g)) /\ SF_poolVars(Get(g))

PoolFairSpec == PoolSpec /\ PoolFairness

-----------------------------------------------------------------------------
(* Properties *)

Holders == {g \in Goroutines : pc[g] \in {"call", "cursor", "wantList", "list"}}
Doubles == {g \in Goroutines : pc[g] = "list"}

(* Every connection handed out is held by a goroutine that will give it    *)
(* back: no path through a cursor leaks one.                               *)
UsedExact == used = Cardinality(Holders) + Cardinality(Doubles)

Stalled ==
    /\ used = MaxOpen
    /\ \E g \in Goroutines : pc[g] \in Waits
    /\ \A g \in Goroutines : pc[g] \notin {"call", "cursor", "list"}

(* Everyone waits on everyone in one way only: as many goroutines as there *)
(* are connections walk a cursor each and want a list of their row.  No    *)
(* lost connection, and no plain call, can bring the pool to a stop.       *)
OnlyWalkersStall ==
    Stalled => Cardinality({g \in Walkers : pc[g] = "wantList"}) = MaxOpen

(* Every call on the database returns.                                     *)
CallsReturn == \A g \in Goroutines : pc[g] # "idle" ~> pc[g] = "idle"

(* Short of that stop, which nothing ends, every call does return, those   *)
(* of list readers that hold one connection and wait for another included. *)
ReturnOrStall == <>[]Stalled \/ CallsReturn
=============================================================================
