------------------------------ MODULE WebTables ------------------------------
(***************************************************************************)
(* The pages of the web UI that show a table and change it                 *)
(*   web/src/pages/*.tsx    one record per page, below                     *)
(*   @tanstack/react-query  useQuery, useMutation, invalidateQueries, as   *)
(*                          the pages use them (external)                  *)
(*                                                                         *)
(* A page reads its table into the query cache and shows what the cache    *)
(* holds.  A button sends a request; when the answer comes back, whatever  *)
(* its status (lib/api.ts parses the body of an error as it does any       *)
(* other), the page's onSuccess runs: it marks the cached table stale,     *)
(* which reads it again if the page is still open, and clears the form.    *)
(* Reads, requests and answers of one page overlap as they please, and the *)
(* user goes elsewhere and comes back meanwhile.                           *)
(*                                                                         *)
(* Abstracted: a row is the one field the page's buttons go by, "on" or    *)
(* "off" (enabled; of a user also the role, of a certificate whether it is *)
(* valid), and always "on" where they go by none.                          *)
(* A request takes effect at one instant; what the handlers do in between  *)
(* is in ForwardEngine, ModuleEngines and Accounts.                        *)
(***************************************************************************)
EXTENDS Naturals, FiniteSets

CONSTANTS
    Rows,      \* ids
    Presses,   \* requests a page can have in flight
    Self,      \* the user's own row, on the page of the users
    NoRow      \* no such row, no fields filled in, nothing read

ASSUME TableAssumption ==
    /\ NoRow \notin Rows \cup {"on", "off"}

-----------------------------------------------------------------------------
(* The pages: who may use one, whether its Save waits for the last one,    *)
(* what its form offers beside the fields, what the form makes, and the    *)
(* buttons.  Pages that are alike in this are one.                         *)
(* A button's request writes the form, or a field of the shown row with    *)
(* its new value, deletes the row, or touches it in a way the table does   *)
(* not show.  It is offered once on the page, on every row, on the rows    *)
(* that are on, or on the rows that are not the user's own.  Its onSuccess *)
(* reads the table again ("refetch"), empties the form ("clear"), or does  *)
(* nothing to either.                                                      *)
Button(does, on, then) == [does |-> does, on |-> on, then |-> then]

Create == Button("form", "page", {"refetch", "clear"})
Delete == Button("delete", "every", {"refetch"})
Toggle == Button("field", "every", {"refetch"})

Forward ==
    [admin |-> FALSE, once |-> FALSE, offers |-> {"reset"},
     makes |-> {"on", "off"},
     has |-> [create |-> Create, delete |-> Delete, toggle |-> Toggle]]

Proxy ==
    [admin |-> FALSE, once |-> FALSE, offers |-> {},
     makes |-> {"on", "off"},
     has |-> [create |-> Create, delete |-> Delete, toggle |-> Toggle]]

(* The switch in a row has no handler.                                     *)
DDNS ==
    [admin |-> FALSE, once |-> FALSE, offers |-> {},
     makes |-> {"on"},
     has |-> [create |-> Create, delete |-> Delete]]

(* Mutant: the deleted tunnel stays in the table.                          *)
STUNForgets ==
    [admin |-> FALSE, once |-> FALSE, offers |-> {},
     makes |-> {"on"},
     has |-> [create |-> Create, delete |-> Button("delete", "every", {})]]

STUN ==
    [admin |-> FALSE, once |-> FALSE, offers |-> {},
     makes |-> {"on"},
     has |-> [create |-> Create, delete |-> Delete]]

Cron ==
    [admin |-> FALSE, once |-> FALSE, offers |-> {},
     makes |-> {"on"},
     has |-> [create |-> Create, delete |-> Delete]]

Storage ==
    [admin |-> FALSE, once |-> FALSE, offers |-> {},
     makes |-> {"on"},
     has |-> [create |-> Create, delete |-> Delete]]

WOL ==
    [admin |-> FALSE, once |-> FALSE, offers |-> {},
     makes |-> {"on"},
     has |-> [create |-> Create, delete |-> Delete,
              wake |-> Button("touch", "every", {})]]

(* A certificate is issued and renewed in the background: nothing to read  *)
(* again yet.                                                              *)
ACME ==
    [admin |-> FALSE, once |-> FALSE, offers |-> {},
     makes |-> {"off"},
     has |-> [create |-> Create, delete |-> Delete,
              renew |-> Button("touch", "set", {})]]

(* A role or the switch is changed alone; a new password comes from a      *)
(* prompt.                                                                 *)
Users ==
    [admin |-> TRUE, once |-> FALSE, offers |-> {},
     makes |-> {"on", "off"},
     has |-> [create |-> Create,
              delete |-> Button("delete", "others", {"refetch"}),
              role   |-> Toggle,
              enable |-> Button("field", "others", {"refetch"}),
              reset  |-> Button("touch", "every", {"refetch"})]]

(* save: a POST, or a PUT of the endpoint being edited.                    *)
Webhooks ==
    [admin |-> TRUE, once |-> TRUE, offers |-> {"reset", "edit"},
     makes |-> {"on"},
     has |-> [save   |-> Create,
              delete |-> Delete,
              test   |-> Button("touch", "every", {})]]

Pages == {Forward, Proxy, DDNS, STUN, Cron, Storage, WOL, ACME, Users, Webhooks}

Row == {"on", "off"}
Tables == [Rows -> Row \cup {NoRow}]

-----------------------------------------------------------------------------
VARIABLES
    page,      \* the page looked at
    admin,     \* the user is an administrator
    table,     \* the server's rows
    open,      \* the page is shown, or the user is on another one
    cache,     \* what was read last: rows, an error body, or nothing yet
    fresh,     \* the cache is neither invalidated nor 30 seconds old
    fetch,     \* the read under way
    press,     \* the requests under way
    form,      \* the fields, or NoRow when they are empty
    editing,   \* editingId
    taken      \* history: the fields were taken by the server as a new row

readVars == <<cache, fresh, fetch>>
formVars == <<form, editing, taken>>
tableVars == <<page, admin, table, open, readVars, press, formVars>>

(* What a read brought.  History: the requests whose effect it does not    *)
(* show, and whether it lacks one that was answered for.                   *)
Snapshot == [what : {"none", "rows", "error"}, rows : Tables,
             misses : SUBSET Presses, lacks : BOOLEAN]

Bare(what) == [what |-> what, rows |-> [r \in Rows |-> NoRow],
               misses |-> {}, lacks |-> FALSE]
AtRest == [pc |-> "idle", does |-> "", then |-> {}, row |-> NoRow, body |-> NoRow,
         here |-> FALSE, same |-> FALSE]

Ops == UNION {DOMAIN p.has : p \in Pages}

TableTypeOK ==
    /\ page \in Pages
    /\ admin \in BOOLEAN
    /\ table \in Tables
    /\ open \in BOOLEAN
    /\ cache \in Snapshot
    /\ fresh \in BOOLEAN
    /\ fetch \in [pc : {"idle", "sent", "read"}, reply : Snapshot]
    /\ press \in [Presses -> [pc   : {"idle", "sent", "ok"},
                              does : {"", "form", "field", "delete", "touch"},
                              then : SUBSET {"refetch", "clear"},
                              row  : Rows \cup {NoRow},
                              body : Row \cup {NoRow},
                              here : BOOLEAN,   \* its callbacks find the page
                              same : BOOLEAN]]  \* the fields did not change
    /\ form \in Row \cup {NoRow}
    /\ editing \in Rows \cup {NoRow}
    /\ taken \in BOOLEAN

Values == page.makes \cup {"on"}
NewRead == [pc |-> "sent", reply |-> Bare("none")]

TableInit ==
    /\ page \in Pages
    /\ admin \in IF page.admin THEN BOOLEAN ELSE {TRUE}
    /\ table \in [Rows -> Values \cup {NoRow}]
    /\ open = TRUE
    /\ cache = Bare("none") /\ fresh = FALSE /\ fetch = NewRead
    /\ press = [p \in Presses |-> AtRest]
    /\ form = NoRow /\ editing = NoRow
    /\ taken = FALSE

-----------------------------------------------------------------------------
(* useQuery *)

Fetching == fetch.pc # "idle"

(* The component goes and its state with it; the cache stays, requests go  *)
(* on.                                                                     *)
Leave ==
    /\ open
    /\ open' = FALSE
    /\ press' = [p \in Presses |-> [press[p] EXCEPT !.here = FALSE, !.same = FALSE]]
    /\ form' = NoRow /\ editing' = NoRow /\ taken' = FALSE
    /\ UNCHANGED <<page, admin, table, readVars>>

(* A stale cache is read again, by the read under way if there is one.     *)
Return ==
    /\ ~open
    /\ open' = TRUE
    /\ fetch' = IF fresh \/ Fetching THEN fetch ELSE NewRead
    /\ UNCHANGED <<page, admin, table, cache, fresh, press, formVars>>

(* The window gets the focus back.                                         *)
Focus ==
    /\ open /\ ~fresh /\ ~Fetching
    /\ fetch' = NewRead
    /\ UNCHANGED <<page, admin, table, open, cache, fresh, press, formVars>>

(* staleTime passes.                                                       *)
GrowOld ==
    /\ fresh
    /\ fresh' = FALSE
    /\ UNCHANGED <<page, admin, table, open, cache, fetch, press, formVars>>

(* gcTime: an unused result is dropped.                                    *)
Forget ==
    /\ ~open /\ ~Fetching /\ cache.what # "none"
    /\ cache' = Bare("none")
    /\ fresh' = FALSE
    /\ UNCHANGED <<page, admin, table, open, fetch, press, formVars>>

(* The server reads the table, or refuses (rate limit, role, an error):    *)
(* the page gets the body of the refusal.                                  *)
Read ==
    /\ fetch.pc = "sent"
    /\ \/ /\ admin
          /\ fetch' = [pc |-> "read", reply |-> [Bare("rows") EXCEPT !.rows = table]]
       \/ fetch' = [pc |-> "read", reply |-> Bare("error")]
    /\ UNCHANGED <<page, admin, table, open, cache, fresh, press, formVars>>

Arrive ==
    /\ fetch.pc = "read"
    /\ cache' = fetch.reply
    /\ fresh' = TRUE
    /\ fetch' = [pc |-> "idle", reply |-> Bare("none")]
    /\ UNCHANGED <<page, admin, table, open, press, formVars>>

(* No answer, and none to the one retry either: what was there stays.      *)
ReadFails ==
    /\ Fetching
    /\ fetch' = [pc |-> "idle", reply |-> Bare("none")]
    /\ UNCHANGED <<page, admin, table, open, cache, fresh, press, formVars>>

-----------------------------------------------------------------------------
(* The form *)

(* The fields are no longer what a pending request was sent with, be it    *)
(* one that the row does not have here.                                    *)
Changed(ps) == [p \in Presses |-> [ps[p] EXCEPT !.same = FALSE]]

Fill(row) ==
    /\ open /\ admin
    /\ row \in page.makes
    /\ form' = row
    /\ taken' = FALSE
    /\ press' = Changed(press)
    /\ UNCHANGED <<page, admin, table, open, readVars, editing>>

(* reset, resetForm, setForm(empty).                                       *)
Cleared ==
    /\ form' = NoRow /\ editing' = NoRow /\ taken' = FALSE

(* The "Add" button of the rules and of the webhooks; "Cancel".            *)
Reset ==
    /\ open /\ "reset" \in page.offers
    /\ admin
    /\ Cleared
    /\ press' = Changed(press)
    /\ UNCHANGED <<page, admin, table, open, readVars>>

Listed(r) == r # NoRow /\ cache.what = "rows" /\ cache.rows[r] # NoRow

(* The pencil in a row of the webhooks.                                    *)
startEdit(r) ==
    /\ open /\ "edit" \in page.offers
    /\ Listed(r)
    /\ editing' = r
    /\ form' = cache.rows[r]
    /\ taken' = FALSE
    /\ press' = Changed(press)
    /\ UNCHANGED <<page, admin, table, open, readVars>>

-----------------------------------------------------------------------------
(* useMutation *)

Offered(b, r) ==
    CASE b.on = "page"   -> r = editing
      [] b.on = "every"  -> Listed(r)
      [] b.on = "set"    -> Listed(r) /\ cache.rows[r] = "on"
      [] b.on = "others" -> Listed(r) /\ r # Self

(* Mutant: Save is never disabled.                                         *)
EnabledAlways(b) == open

(* isPending disables Save.  (It reaches the button with the next render,  *)
(* which is taken to come before the next press.)                          *)
Enabled(b) ==
    (page.once /\ b.does = "form") => \A q \in Presses : ~press[q].here

(* A field's new value: what the shown row does not say.                   *)
Body(b, r) ==
    CASE b.does = "form"  -> form
      [] b.does = "field" -> IF cache.rows[r] = "on" THEN "off" ELSE "on"
      [] OTHER            -> NoRow

Press(p, op, r) ==
    /\ open /\ admin
    /\ press[p].pc = "idle"
    /\ op \in DOMAIN page.has
    /\ LET b == page.has[op] IN
       /\ Offered(b, r)
       /\ Enabled(b)
       /\ press' = [press EXCEPT ![p] =
              [pc |-> "sent", does |-> b.does, then |-> b.then,
               row |-> r, body |-> Body(b, r),
               here |-> "clear" \in b.then, same |-> page.once]]
    /\ UNCHANGED <<page, admin, table, open, readVars, formVars>>

(* A request that was pressed may have been paused, for want of a          *)
(* connection.  Save reads editingId when its request leaves, and while    *)
(* the page is there useMutation keeps it at the newest: a save that was   *)
(* paused until now goes to the row that is edited now.  (The id is a      *)
(* parameter of every other request.)                                      *)
Resume(p) ==
    /\ press[p].pc = "sent" /\ press[p].does = "form" /\ press[p].here
    /\ press[p].row # editing
    /\ press' = [press EXCEPT ![p].row = editing]
    /\ UNCHANGED <<page, admin, table, open, readVars, formVars>>

Creates(p) == press[p].does = "form" /\ press[p].row = NoRow

(* What the server can make of the table when it accepts a request.        *)
After(p) ==
    LET r == press[p].row
        body == press[p].body
    IN  IF Creates(p)
        THEN {[table EXCEPT ![n] = body] :
                 n \in {x \in Rows : body # NoRow /\ table[x] = NoRow}}
        ELSE IF table[r] = NoRow THEN {}
        ELSE CASE press[p].does = "delete" -> {[table EXCEPT ![r] = NoRow]}
               [] press[p].does = "touch"  -> {table}
               [] OTHER -> IF body = NoRow THEN {} ELSE {[table EXCEPT ![r] = body]}

(* A copy of the table that was taken before p took effect.                *)
Missed(copy, p) == IF copy.what = "rows" THEN [copy EXCEPT !.misses = @ \cup {p}]
                                         ELSE copy
(* p was answered, and the copy has to show its effect from now on, or not.*)
Owed(copy, p) == [copy EXCEPT !.lacks = @ \/ p \in copy.misses, !.misses = @ \ {p}]
Waived(copy, p) == [copy EXCEPT !.misses = @ \ {p}]

Accept(p) ==
    /\ press[p].pc = "sent"
    /\ \E new \in After(p) :
          /\ table' = new
          /\ IF new = table
             THEN UNCHANGED <<cache, fetch>>
             ELSE /\ cache' = Missed(cache, p)
                  /\ fetch' = [fetch EXCEPT !.reply = Missed(@, p)]
    /\ press' = [press EXCEPT ![p].pc = "ok", ![p].does = "",
                              ![p].row = NoRow, ![p].body = NoRow]
    /\ taken' = (taken \/ (Creates(p) /\ press[p].same))
    /\ UNCHANGED <<page, admin, open, fresh, form, editing>>

(* invalidateQueries: the read under way is given up for a new one, unless *)
(* it is the first (there is no data yet) or the page was left.  An answer *)
(* that comes then need not show in it.                                    *)
Restarts == open /\ ~(Fetching /\ cache.what = "none")
Overlooked == Fetching /\ ~Restarts

(* onSuccess.                                                              *)
Settle(p) ==
    LET then == press[p].then
        rest == [press EXCEPT ![p] = AtRest]
    IN  /\ IF "refetch" \in then
           THEN /\ fresh' = FALSE
                /\ fetch' = IF Restarts THEN NewRead
                            ELSE [fetch EXCEPT !.reply = Waived(@, p)]
           ELSE /\ fetch' = [fetch EXCEPT !.reply = Owed(@, p)]
                /\ UNCHANGED fresh
        /\ cache' = IF Overlooked THEN Waived(cache, p) ELSE Owed(cache, p)
        /\ IF "clear" \in then /\ press[p].here
           THEN Cleared /\ press' = Changed(rest)
           ELSE press' = rest /\ UNCHANGED formVars
        /\ UNCHANGED <<page, admin, table, open>>

Answered(p) ==
    /\ press[p].pc = "ok"
    /\ Settle(p)

(* A 4xx or 5xx is an answer like another.                                 *)
Refused(p) ==
    /\ press[p].pc = "sent"
    /\ Settle(p)

(* fetch throws, before or after the server acted; onError puts up a       *)
(* message at most.                                                        *)
Failed(p) ==
    /\ press[p].pc \in {"sent", "ok"}
    /\ press' = [press EXCEPT ![p] = AtRest]
    /\ taken' = FALSE
    /\ cache' = Waived(cache, p)
    /\ fetch' = [fetch EXCEPT !.reply = Waived(@, p)]
    /\ UNCHANGED <<page, admin, table, open, fresh, form, editing>>

(* Someone else, or an engine, changes a row.                              *)
Elsewhere ==
    /\ \E r \in Rows, new \in Values \cup {NoRow} :
          /\ new # table[r]
          /\ table' = [table EXCEPT ![r] = new]
    /\ UNCHANGED <<page, admin, open, readVars, press, formVars>>

-----------------------------------------------------------------------------
TableNext ==
    \/ Leave \/ Return \/ Focus \/ GrowOld \/ Forget
    \/ Read \/ Arrive \/ ReadFails
    \/ (\E row \in Row : Fill(row)) \/ Reset
    \/ \E r \in Rows : startEdit(r)
    \/ \E p \in Presses, op \in Ops, r \in Rows \cup {NoRow} : Press(p, op, r)
    \/ \E p \in Presses :
          Resume(p) \/ Accept(p) \/ Answered(p) \/ Refused(p) \/ Failed(p)
    \/ Elsewhere

TableSpec == TableInit /\ [][TableNext]_tableVars

-----------------------------------------------------------------------------
(* Properties *)

(* A table the page takes for fresh shows every change the page made       *)
(* itself and was answered for, whatever reads, requests, departures and   *)
(* returns overlapped; but for an answer that came while a read was under  *)
(* way that invalidateQueries does not give up (Overlooked).               *)
FreshIncludesOwnChanges == fresh => ~cache.lacks

(* Where Save is disabled while it is pending, fields once taken as a new  *)
(* row are not taken again, unless the answer was lost.                    *)
NoDoubleCreate ==
    [][\A p \in Presses :
          /\ page.once /\ Creates(p) /\ press[p].same
          /\ press[p].pc = "sent" /\ press'[p].pc = "ok"
          => ~taken]_tableVars
=============================================================================
