------------------------------ MODULE WebAudit ------------------------------
(***************************************************************************)
(* The audit log in the web UI                                             *)
(*   web/src/pages/Audit.tsx                 filters and pages             *)
(*   internal/api/handler/audit_handler.go   List                          *)
(*                                                                         *)
(* Every filter and page is a query of its own: its rows are cached under  *)
(* its own key, reads of several keys may be under way, and what is shown  *)
(* is the cached answer of the key that is selected.                       *)
(*                                                                         *)
(* Abstracted: the selects and the username box are one filter; choosing   *)
(* in a select applies at once, the box waits for Apply.  A page has one   *)
(* row.  The server reads at the moment the answer arrives.  The log only  *)
(* grows (no code deletes from audit_events; a restored backup is not      *)
(* modelled here).                                                         *)
(***************************************************************************)
EXTENDS Naturals, FiniteSets

CONSTANTS
    Filters,   \* what can be selected, besides everything
    All,       \* no filter
    MaxEvents  \* bound: events in the log

ASSUME AuditAssumption == All \notin Filters /\ MaxEvents \in Nat

Choices == Filters \cup {All}
PageNumbers == 1..MaxEvents + 1
Keys == PageNumbers \X Choices

VARIABLES
    log,       \* choice -> events it selects
    shownPage, \* page
    filter,    \* action, resourceType and appliedUsername
    typed,     \* username
    pages,     \* key -> the answer cached for it
    reading    \* the keys whose reads are under way

auditVars == <<log, shownPage, filter, typed, pages, reading>>

Answer == [what : {"none", "rows", "error"}, of : Choices, total : 0..MaxEvents]
Unread == [what |-> "none", of |-> All, total |-> 0]

AuditTypeOK ==
    /\ log \in [Choices -> 0..MaxEvents]
    /\ shownPage \in PageNumbers
    /\ filter \in Choices /\ typed \in Choices
    /\ pages \in [Keys -> Answer]
    /\ reading \subseteq Keys \X Keys

-----------------------------------------------------------------------------
(* Mutant: the key leaves the filter out.                                  *)
KeyOfPage(p, f) == <<p, All>>

(* queryKey                                                                *)
Key(p, f) == <<p, f>>

Shown == pages[Key(shownPage, filter)]
totalPages == IF Shown.what = "rows" THEN Shown.total ELSE 1

(* A read is of a key, by a request with the page and filter it was        *)
(* selected with.                                                          *)
Wanted(p, f) == <<Key(p, f), <<p, f>>>>

(* A key that was never read is read; one that is cached is, if it is old. *)
Select(p, f) ==
    /\ shownPage' = p /\ filter' = f
    /\ \/ reading' = reading \cup {Wanted(p, f)}
       \/ pages[Key(p, f)].what # "none" /\ UNCHANGED reading

AuditInit ==
    /\ log \in {l \in [Choices -> 0..MaxEvents] : \A f \in Filters : l[f] <= l[All]}
    /\ shownPage = 1 /\ filter = All /\ typed = All
    /\ pages = [k \in Keys |-> Unread]
    /\ reading = {Wanted(1, All)}

(* The page is opened again: the cache is as it was.                       *)
Open ==
    /\ Select(1, All)
    /\ typed' = All
    /\ UNCHANGED <<log, pages>>

(* Mutant: the page number stays.                                          *)
ChooseHere(f) ==
    /\ Select(shownPage, f)
    /\ UNCHANGED <<log, typed, pages>>

Choose(f) ==
    /\ Select(1, f)
    /\ UNCHANGED <<log, typed, pages>>

Type(f) ==
    /\ typed' = f
    /\ UNCHANGED <<log, shownPage, filter, pages, reading>>

Apply ==
    /\ Select(1, typed)
    /\ UNCHANGED <<log, typed, pages>>

Prev ==
    /\ shownPage > 1
    /\ Select(shownPage - 1, filter)
    /\ UNCHANGED <<log, typed, pages>>

Forth ==
    /\ shownPage < totalPages
    /\ Select(shownPage + 1, filter)
    /\ UNCHANGED <<log, typed, pages>>

(* The window gets the focus back and the answer is old.                   *)
ReadAgain ==
    /\ Select(shownPage, filter)
    /\ reading' # reading
    /\ UNCHANGED <<log, typed, pages>>

(* List: the rows of a page and the number of all, or the body of an error *)
Arrives(r) ==
    /\ r \in reading
    /\ \E what \in {"rows", "error"} :
          pages' = [pages EXCEPT ![r[1]] =
              [what |-> what, of |-> r[2][2],
               total |-> IF what = "rows" THEN log[r[2][2]] ELSE 0]]
    /\ reading' = reading \ {r}
    /\ UNCHANGED <<log, shownPage, filter, typed>>

ReadLost(r) ==
    /\ r \in reading
    /\ reading' = reading \ {r}
    /\ UNCHANGED <<log, shownPage, filter, typed, pages>>

(* A handler writes an event.                                              *)
Logged ==
    /\ log[All] < MaxEvents
    /\ \E S \in SUBSET Filters :
          log' = [f \in Choices |-> IF f \in S \cup {All} THEN log[f] + 1 ELSE log[f]]
    /\ UNCHANGED <<shownPage, filter, typed, pages, reading>>

AuditNext ==
    \/ Open \/ Apply \/ Prev \/ Forth \/ ReadAgain \/ Logged
    \/ \E f \in Choices : Choose(f) \/ Type(f)
    \/ \E r \in reading : Arrives(r) \/ ReadLost(r)

AuditSpec == AuditInit /\ [][AuditNext]_auditVars

-----------------------------------------------------------------------------
(* The rows shown are of the filter that is selected, and the page that is *)
(* asked for exists, although answers of other filters and pages arrive in *)
(* any order and an answer may be older than the log.                      *)
ShowsSelection ==
    /\ Shown.what # "none" => Shown.of = filter
    /\ shownPage > 1 => shownPage <= log[filter]
=============================================================================
