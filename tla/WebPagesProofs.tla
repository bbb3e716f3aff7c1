--------------------------- MODULE WebPagesProofs ---------------------------
(***************************************************************************)
(* Proofs about the pages: WebTables, then WebAudit and WebSettings, and   *)
(* that the web UI is each of its parts.                                   *)
(*                                                                         *)
(* A fresh table lacks nothing because every button that changes the table *)
(* reads it again, so that what a copy misses is always owed by a request  *)
(* that has yet to be answered (Owing).                                    *)
(* Fields are not taken twice because, where Save waits, one request at    *)
(* most still finds its form, and it is the one that was taken (Saving).   *)
(* The audit page shows what fits its selection because every answer is    *)
(* cached under the key its request was made with (Filed), and the page    *)
(* asked for exists because the total an answer brought is never more than *)
(* the log has by now (Counted).                                           *)
(* The settings page's badge tells the truth because, while it does not,   *)
(* one call is in flight that will correct it (BadgeComes).                *)
(***************************************************************************)
EXTENDS WebUI, TLAPS

PressRecord ==
    [pc : {"idle", "sent", "ok"}, does : {"", "form", "field", "delete", "touch"},
     then : SUBSET {"refetch", "clear"}, row : Rows \cup {NoRow}, body : Row \cup {NoRow},
     here : BOOLEAN, same : BOOLEAN]

Owing ==
    /\ \A p \in Presses :
          press[p].pc = "sent" /\ press[p].does # "touch" => "refetch" \in press[p].then
    /\ \A p \in cache.misses \cup fetch.reply.misses :
          press[p].pc = "ok" /\ "refetch" \in press[p].then
    /\ ~fetch.reply.lacks

Saving ==
    /\ \A p \in Presses : press[p].pc = "idle" => ~press[p].here /\ ~press[p].same
    /\ \A p \in Presses : press[p].here => "clear" \in press[p].then
    /\ page.once =>
          /\ \A p, q \in Presses : press[p].here /\ press[q].here => p = q
          /\ \A p \in Presses :
                press[p].pc = "sent" /\ press[p].does = "form" /\ press[p].same => press[p].here
          /\ taken => \E p \in Presses : press[p].here /\ press[p].pc = "ok"

TableInv == TableTypeOK /\ Owing /\ Saving /\ FreshIncludesOwnChanges

-----------------------------------------------------------------------------
(* What the pages' buttons have in common.                                 *)
Sound(b) ==
    /\ b.does \in {"form", "field", "delete", "touch"}
    /\ b.then \subseteq {"refetch", "clear"}
    /\ b.does # "touch" => "refetch" \in b.then
    /\ b.does = "form" <=> "clear" \in b.then

LEMMA ButtonsAreSound ==
    ASSUME NEW g \in Pages
    PROVE  /\ g.makes \subseteq Row /\ g.once \in BOOLEAN /\ g.admin \in BOOLEAN
           /\ \A op \in DOMAIN g.has : Sound(g.has[op])
<1>1. /\ Sound(Create) /\ Sound(Delete) /\ Sound(Toggle)
      /\ Sound(Button("touch", "every", {})) /\ Sound(Button("touch", "set", {}))
      /\ Sound(Button("delete", "others", {"refetch"}))
      /\ Sound(Button("field", "others", {"refetch"}))
      /\ Sound(Button("touch", "every", {"refetch"}))
  BY DEF Sound, Create, Delete, Toggle, Button
<1>2. CASE g = Forward
  BY <1>1, <1>2 DEF Forward, Row
<1>3. CASE g = Proxy
  BY <1>1, <1>3 DEF Proxy, Row
<1>4. CASE g = DDNS
  BY <1>1, <1>4 DEF DDNS, Row
<1>5. CASE g = STUN
  BY <1>1, <1>5 DEF STUN, Row
<1>6. CASE g = Cron
  BY <1>1, <1>6 DEF Cron, Row
<1>7. CASE g = Storage
  BY <1>1, <1>7 DEF Storage, Row
<1>8. CASE g = WOL
  BY <1>1, <1>8 DEF WOL, Row
<1>9. CASE g = ACME
  BY <1>1, <1>9 DEF ACME, Row
<1>10. CASE g = Users
  BY <1>1, <1>10 DEF Users, Row
<1>11. CASE g = Webhooks
  BY <1>1, <1>11 DEF Webhooks, Row
<1> QED
  BY <1>2, <1>3, <1>4, <1>5, <1>6, <1>7, <1>8, <1>9, <1>10, <1>11 DEF Pages

LEMMA BareIsEmpty ==
    ASSUME NEW what \in {"none", "rows", "error"}
    PROVE  /\ Bare(what) \in Snapshot /\ Bare(what).misses = {} /\ Bare(what).lacks = FALSE
           /\ Bare(what).what = what
  BY DEF Bare, Snapshot, Tables

LEMMA NewReadIsEmpty ==
    /\ NewRead \in [pc : {"idle", "sent", "read"}, reply : Snapshot]
    /\ NewRead.reply.misses = {} /\ ~NewRead.reply.lacks
  BY BareIsEmpty DEF NewRead

LEMMA Copies ==
    ASSUME NEW copy \in Snapshot, NEW p \in Presses
    PROVE  /\ Missed(copy, p) \in Snapshot /\ Missed(copy, p).lacks = copy.lacks
           /\ Missed(copy, p).misses \subseteq copy.misses \cup {p}
           /\ Waived(copy, p) \in Snapshot /\ Waived(copy, p).lacks = copy.lacks
           /\ Waived(copy, p).misses = copy.misses \ {p}
           /\ Owed(copy, p) \in Snapshot /\ Owed(copy, p).misses = copy.misses \ {p}
           /\ Owed(copy, p).lacks = (copy.lacks \/ p \in copy.misses)
<1>1. /\ copy.misses \in SUBSET Presses /\ copy.lacks \in BOOLEAN
      /\ copy.misses \cup {p} \in SUBSET Presses /\ copy.misses \ {p} \in SUBSET Presses
  BY DEF Snapshot
<1>2. Missed(copy, p) \in Snapshot /\ Missed(copy, p).lacks = copy.lacks
      /\ Missed(copy, p).misses \subseteq copy.misses \cup {p}
  BY <1>1 DEF Missed, Snapshot
<1>3. Waived(copy, p) \in Snapshot /\ Waived(copy, p).lacks = copy.lacks
      /\ Waived(copy, p).misses = copy.misses \ {p}
  BY <1>1 DEF Waived, Snapshot
<1>4. Owed(copy, p) \in Snapshot /\ Owed(copy, p).misses = copy.misses \ {p}
      /\ Owed(copy, p).lacks = (copy.lacks \/ p \in copy.misses)
  BY <1>1 DEF Owed, Snapshot
<1> QED
  BY <1>2, <1>3, <1>4

-----------------------------------------------------------------------------
LEMMA InitHolds == TableInit => TableInv
<1> SUFFICES ASSUME TableInit PROVE TableInv
  OBVIOUS
<1>1. page.makes \subseteq Row /\ page \in Pages
  BY ButtonsAreSound DEF TableInit
<1>2. table \in Tables
  BY <1>1 DEF TableInit, Tables, Values, Row
<1>3. AtRest \in PressRecord /\ AtRest.pc = "idle" /\ ~AtRest.here /\ ~AtRest.same
  BY DEF AtRest, PressRecord
<1>4. press \in [Presses -> PressRecord] /\ \A p \in Presses : press[p] = AtRest
  BY <1>3 DEF TableInit
<1>5. admin \in BOOLEAN
  BY DEF TableInit
<1>6. TableTypeOK
  BY <1>1, <1>2, <1>4, <1>5, BareIsEmpty, NewReadIsEmpty
     DEF TableInit, TableTypeOK, PressRecord
<1>7. Owing
  BY <1>3, <1>4, BareIsEmpty, NewReadIsEmpty DEF TableInit, Owing
<1>8. Saving
  BY <1>3, <1>4 DEF TableInit, Saving
<1>9. FreshIncludesOwnChanges
  BY DEF TableInit, FreshIncludesOwnChanges
<1> QED
  BY <1>6, <1>7, <1>8, <1>9 DEF TableInv

(* Reads and the cache: requests and the form stay as they are.            *)
LEMMA ReadsKeep ==
    ASSUME TableInv,
           Return \/ Focus \/ GrowOld \/ Forget \/ Read \/ Arrive \/ ReadFails \/ Elsewhere
    PROVE  TableInv'
<1>1. UNCHANGED <<page, admin, press, formVars>>
  BY DEF Return, Focus, GrowOld, Forget, Read, Arrive, ReadFails, Elsewhere, formVars, readVars
<1>2. /\ cache \in Snapshot /\ fetch.reply \in Snapshot /\ table \in Tables
      /\ fetch \in [pc : {"idle", "sent", "read"}, reply : Snapshot]
  BY DEF TableInv, TableTypeOK
<1>3. /\ cache' \in Snapshot /\ cache'.misses \subseteq cache.misses \cup fetch.reply.misses
      /\ cache' \in {cache, fetch.reply, Bare("none")}
  BY <1>2, BareIsEmpty DEF Return, Focus, GrowOld, Forget, Read, Arrive, ReadFails, Elsewhere, readVars
<1>4. /\ fetch' \in [pc : {"idle", "sent", "read"}, reply : Snapshot]
      /\ fetch'.reply.misses \subseteq fetch.reply.misses
      /\ ~fetch'.reply.lacks
  <2>1. CASE fetch' = fetch
    BY <1>2, <2>1 DEF TableInv, Owing
  <2>2. CASE fetch' = NewRead
    BY <2>2, NewReadIsEmpty
  <2>3. CASE fetch' = [pc |-> "idle", reply |-> Bare("none")]
    BY <2>3, BareIsEmpty
  <2>5. CASE fetch' = [pc |-> "read", reply |-> Bare("error")]
    BY <2>5, BareIsEmpty
  <2>4. CASE fetch' = [pc |-> "read", reply |-> [Bare("rows") EXCEPT !.rows = table]]
    <3>1. /\ [Bare("rows") EXCEPT !.rows = table] \in Snapshot
          /\ [Bare("rows") EXCEPT !.rows = table].misses = {}
          /\ ~[Bare("rows") EXCEPT !.rows = table].lacks
      BY <1>2, BareIsEmpty DEF Snapshot
    <3> QED
      BY <2>4, <3>1
  <2> QED
    BY <2>1, <2>2, <2>3, <2>4, <2>5
       DEF Return, Focus, GrowOld, Forget, Read, Arrive, ReadFails, Elsewhere, readVars
<1>5. table' \in Tables
  <2>1. Values \subseteq Row
    BY ButtonsAreSound DEF TableInv, TableTypeOK, Values, Row
  <2> QED
    BY <1>2, <2>1 DEF Return, Focus, GrowOld, Forget, Read, Arrive, ReadFails, Elsewhere, Tables
<1>6. open' \in BOOLEAN /\ fresh' \in BOOLEAN
  BY DEF Return, Focus, GrowOld, Forget, Read, Arrive, ReadFails, Elsewhere, readVars,
         TableInv, TableTypeOK
<1>7. TableTypeOK'
  BY <1>1, <1>3, <1>4, <1>5, <1>6 DEF TableInv, TableTypeOK, formVars
<1>8. Owing'
  BY <1>1, <1>3, <1>4 DEF TableInv, Owing
<1>9. Saving'
  BY <1>1 DEF TableInv, Saving, formVars
<1>11. FreshIncludesOwnChanges'
  <2>1. CASE UNCHANGED cache /\ (fresh' => fresh)
    BY <2>1 DEF TableInv, FreshIncludesOwnChanges
  <2>2. CASE cache' \in {fetch.reply, Bare("none")}
    BY <2>2, BareIsEmpty DEF TableInv, Owing, FreshIncludesOwnChanges
  <2> QED
    BY <2>1, <2>2
       DEF Return, Focus, GrowOld, Forget, Read, Arrive, ReadFails, Elsewhere, readVars
<1> QED
  BY <1>7, <1>8, <1>9, <1>11 DEF TableInv

(* The fields change or the page is left: the requests go on, and forget   *)
(* the fields they were sent with.                                         *)
LEMMA FormKeeps ==
    ASSUME TableInv,
           \/ Leave \/ Reset
           \/ \E row \in Row : Fill(row)
           \/ \E r \in Rows : startEdit(r)
    PROVE  TableInv'
<1>1. press \in [Presses -> PressRecord]
  BY DEF TableInv, TableTypeOK, PressRecord
<1>2. /\ UNCHANGED <<page, admin, table, cache, fresh, fetch>>
      /\ \/ press' = Changed(press)
         \/ press' = [p \in Presses |-> [press[p] EXCEPT !.here = FALSE, !.same = FALSE]]
      /\ taken' = FALSE
  BY DEF Leave, Reset, Fill, startEdit, Cleared, readVars
<1>3. ASSUME NEW p \in Presses
      PROVE  /\ press'[p] \in PressRecord
             /\ press'[p].pc = press[p].pc /\ press'[p].does = press[p].does
             /\ press'[p].then = press[p].then /\ press'[p].same = FALSE
             /\ press'[p].here => press[p].here
  <2>1. press[p] \in PressRecord
    BY <1>1
  <2>2. CASE press' = Changed(press)
    <3>1. press'[p] = [press[p] EXCEPT !.same = FALSE]
      BY <2>2 DEF Changed
    <3> QED
      BY <2>1, <3>1 DEF PressRecord
  <2>3. CASE press' = [q \in Presses |-> [press[q] EXCEPT !.here = FALSE, !.same = FALSE]]
    <3>1. press'[p] = [press[p] EXCEPT !.here = FALSE, !.same = FALSE]
      BY <2>3
    <3> QED
      BY <2>1, <3>1 DEF PressRecord
  <2> QED
    BY <1>2, <2>2, <2>3
<1>4. press' \in [Presses -> PressRecord]
  BY <1>2, <1>3 DEF Changed
<1>5. /\ form' \in Row \cup {NoRow} /\ editing' \in Rows \cup {NoRow}
      /\ open' \in BOOLEAN
  <2>1. CASE Leave
    BY <2>1 DEF Leave
  <2>2. CASE Reset
    BY <2>2 DEF Reset, Cleared, TableInv, TableTypeOK
  <2>3. CASE \E row \in Row : Fill(row)
    BY <2>3 DEF Fill, TableInv, TableTypeOK
  <2>4. ASSUME NEW r \in Rows, startEdit(r)
        PROVE  /\ form' \in Row \cup {NoRow} /\ editing' = r
               /\ open' = open
    <3>1. cache.rows \in [Rows -> Row \cup {NoRow}]
      BY DEF TableInv, TableTypeOK, Snapshot, Tables
    <3> QED
      BY <2>4, <3>1 DEF startEdit
  <2> QED
    BY <2>1, <2>2, <2>3, <2>4 DEF TableInv, TableTypeOK
<1>6. TableTypeOK'
  BY <1>2, <1>4, <1>5 DEF TableInv, TableTypeOK, PressRecord
<1>7. cache.misses \cup fetch.reply.misses \subseteq Presses
  BY DEF TableInv, TableTypeOK, Snapshot
<1>8. Owing'
  BY <1>2, <1>3, <1>7 DEF TableInv, Owing
<1>9. Saving'
  BY <1>2, <1>3 DEF TableInv, Saving
<1>10. FreshIncludesOwnChanges'
  BY <1>2, <1>5 DEF TableInv, FreshIncludesOwnChanges
<1> QED
  BY <1>6, <1>8, <1>9, <1>10 DEF TableInv

LEMMA RecordIs ==
    ASSUME NEW does \in {"form", "field", "delete", "touch"},
           NEW then \in SUBSET {"refetch", "clear"}, NEW r \in Rows \cup {NoRow},
           NEW body \in Row \cup {NoRow}, NEW here \in BOOLEAN, NEW same \in BOOLEAN
    PROVE  [pc |-> "sent", does |-> does, then |-> then, row |-> r, body |-> body,
            here |-> here, same |-> same] \in PressRecord
  BY DEF PressRecord

LEMMA PressKeeps ==
    ASSUME TableInv, NEW p \in Presses, NEW op \in Ops, NEW r \in Rows \cup {NoRow},
           Press(p, op, r)
    PROVE  TableInv'
<1> DEFINE b == page.has[op]
           new == [pc |-> "sent", does |-> b.does, then |-> b.then, row |-> r,
                   body |-> Body(b, r), here |-> "clear" \in b.then, same |-> page.once]
<1>1. /\ press \in [Presses -> PressRecord] /\ form \in Row \cup {NoRow}
      /\ cache.misses \cup fetch.reply.misses \subseteq Presses
  BY DEF TableInv, TableTypeOK, PressRecord, Snapshot
<1>2. /\ press[p].pc = "idle" /\ op \in DOMAIN page.has /\ Enabled(b)
      /\ press' = [press EXCEPT ![p] = new]
      /\ UNCHANGED <<page, admin, table, open, readVars, formVars>>
  BY DEF Press
<1>3. Sound(b) /\ page.once \in BOOLEAN
  BY <1>2, ButtonsAreSound DEF TableInv, TableTypeOK
<1>4. Body(b, r) \in Row \cup {NoRow}
  BY <1>1 DEF Body, Row
<1>5. new \in PressRecord
  <2>1. /\ b.does \in {"form", "field", "delete", "touch"}
        /\ b.then \in SUBSET {"refetch", "clear"} /\ ("clear" \in b.then) \in BOOLEAN
    BY <1>3 DEF Sound
  <2> QED
    BY <1>3, <1>4, <2>1, RecordIs
<1>11. new.here = ("clear" \in b.then)
  OBVIOUS
<1>6. \A q \in Presses : press'[q] = IF q = p THEN new ELSE press[q]
  BY <1>1, <1>2
<1>7. TableTypeOK'
  BY <1>1, <1>2, <1>5 DEF TableInv, TableTypeOK, PressRecord, readVars, formVars
<1>8. Owing'
  <2>1. \A q \in Presses :
           press'[q].pc = "sent" /\ press'[q].does # "touch" => "refetch" \in press'[q].then
    BY <1>3, <1>6 DEF TableInv, Owing, Sound
  <2>2. p \notin cache.misses \cup fetch.reply.misses
    BY <1>2 DEF TableInv, Owing
  <2> QED
    BY <1>1, <1>2, <1>6, <2>1, <2>2 DEF TableInv, Owing, readVars
<1>9. Saving'
  <2>1. ASSUME page.once, "clear" \in b.then
        PROVE  \A q \in Presses : ~press[q].here
    BY <1>2, <1>3, <2>1 DEF Enabled, Sound
  <2>2. ~press[p].here
    BY <1>2 DEF TableInv, Saving
  <2>3. page.once => \A q, s \in Presses : press'[q].here /\ press'[s].here => q = s
    <3> SUFFICES ASSUME page.once, NEW q \in Presses, NEW s \in Presses,
                        press'[q].here, press'[s].here
                 PROVE  q = s
      OBVIOUS
    <3>1. CASE q = p \/ s = p
      <4>1. "clear" \in b.then
        BY <1>6, <1>11, <3>1
      <4>2. \A x \in Presses : x # p => ~press'[x].here
        BY <1>6, <2>1, <4>1
      <4> QED
        BY <3>1, <4>2
    <3>2. CASE q # p /\ s # p
      BY <1>6, <3>2 DEF TableInv, Saving
    <3> QED
      BY <3>1, <3>2
  <2>4. page.once =>
          \A q \in Presses :
             press'[q].pc = "sent" /\ press'[q].does = "form" /\ press'[q].same => press'[q].here
    <3> SUFFICES ASSUME page.once, NEW q \in Presses, press'[q].pc = "sent",
                        press'[q].does = "form", press'[q].same
                 PROVE  press'[q].here
      OBVIOUS
    <3>1. CASE q = p
      <4>1. b.does = "form"
        BY <1>6, <3>1
      <4>2. "clear" \in b.then
        BY <1>3, <4>1 DEF Sound
      <4> QED
        BY <1>6, <1>11, <3>1, <4>2
    <3>2. CASE q # p
      BY <1>6, <3>2 DEF TableInv, Saving
    <3> QED
      BY <3>1, <3>2
  <2>5. page.once /\ taken => \E q \in Presses : press'[q].here /\ press'[q].pc = "ok"
    BY <1>2, <1>6, <2>2 DEF TableInv, Saving
  <2>6. \A q \in Presses : press'[q].pc = "idle" => ~press'[q].here /\ ~press'[q].same
    BY <1>6 DEF TableInv, Saving
  <2>7. \A q \in Presses : press'[q].here => "clear" \in press'[q].then
    <3>1. new.then = b.then
      OBVIOUS
    <3>2. press'[p].here => "clear" \in press'[p].then
      BY <1>6, <1>11, <3>1
    <3>3. \A q \in Presses \ {p} : press'[q].here => "clear" \in press'[q].then
      BY <1>6 DEF TableInv, Saving
    <3> QED
      BY <3>2, <3>3
  <2> QED
    BY <1>2, <2>3, <2>4, <2>5, <2>6, <2>7 DEF Saving, formVars
<1>10. FreshIncludesOwnChanges'
  BY <1>2 DEF TableInv, FreshIncludesOwnChanges, readVars, formVars
<1> QED
  BY <1>7, <1>8, <1>9, <1>10 DEF TableInv

(* Only the row of a request changes.                                      *)
LEMMA ResumeKeeps ==
    ASSUME TableInv, NEW p \in Presses, Resume(p)
    PROVE  TableInv'
<1> DEFINE now == [press[p] EXCEPT !.row = editing]
<1>1. /\ press \in [Presses -> PressRecord] /\ press[p] \in PressRecord
      /\ editing \in Rows \cup {NoRow}
      /\ cache.misses \cup fetch.reply.misses \subseteq Presses
  BY DEF TableInv, TableTypeOK, PressRecord, Snapshot
<1>2. /\ press' = [press EXCEPT ![p] = now]
      /\ UNCHANGED <<page, admin, table, open, readVars, formVars>>
  BY <1>1 DEF Resume
<1>3. /\ now \in PressRecord /\ now.pc = press[p].pc /\ now.does = press[p].does
      /\ now.then = press[p].then /\ now.here = press[p].here /\ now.same = press[p].same
  BY <1>1 DEF PressRecord
<1>4. \A q \in Presses : press'[q] = IF q = p THEN now ELSE press[q]
  BY <1>1, <1>2
<1>5. \A q \in Presses :
         /\ press'[q].pc = press[q].pc /\ press'[q].does = press[q].does
         /\ press'[q].then = press[q].then /\ press'[q].here = press[q].here
         /\ press'[q].same = press[q].same
  BY <1>3, <1>4
<1>6. TableTypeOK'
  BY <1>1, <1>2, <1>3 DEF TableInv, TableTypeOK, PressRecord, readVars, formVars
<1>7. Owing'
  BY <1>1, <1>2, <1>5 DEF TableInv, Owing, readVars
<1>8. Saving'
  BY <1>2, <1>5 DEF TableInv, Saving, formVars
<1>9. FreshIncludesOwnChanges'
  BY <1>2 DEF TableInv, FreshIncludesOwnChanges, readVars
<1> QED
  BY <1>6, <1>7, <1>8, <1>9 DEF TableInv

LEMMA AcceptKeeps ==
    ASSUME TableInv, NEW p \in Presses, Accept(p)
    PROVE  TableInv'
<1> DEFINE done == [press[p] EXCEPT !.pc = "ok", !.does = "", !.row = NoRow, !.body = NoRow]
<1>1. /\ press \in [Presses -> PressRecord] /\ press[p] \in PressRecord
      /\ cache.misses \cup fetch.reply.misses \subseteq Presses
      /\ cache \in Snapshot /\ fetch.reply \in Snapshot /\ table \in Tables
      /\ fetch \in [pc : {"idle", "sent", "read"}, reply : Snapshot]
  BY DEF TableInv, TableTypeOK, PressRecord, Snapshot
<1>2. PICK new \in After(p) :
        /\ table' = new
        /\ IF new = table
           THEN UNCHANGED <<cache, fetch>>
           ELSE /\ cache' = Missed(cache, p)
                /\ fetch' = [fetch EXCEPT !.reply = Missed(@, p)]
  BY DEF Accept
<1>3. /\ press[p].pc = "sent"
      /\ press' = [press EXCEPT ![p] = done]
      /\ taken' = (taken \/ (Creates(p) /\ press[p].same))
      /\ UNCHANGED <<page, admin, open, fresh, form, editing>>
  BY <1>1 DEF Accept, PressRecord
<1>4. /\ done \in PressRecord /\ done.pc = "ok" /\ done.then = press[p].then
      /\ done.here = press[p].here /\ done.same = press[p].same
  BY <1>1 DEF PressRecord
<1>5. \A q \in Presses : press'[q] = IF q = p THEN done ELSE press[q]
  BY <1>1, <1>3
<1>6. new \in Tables /\ (new # table => press[p].does # "touch")
  <2>1. press[p].row \in Rows \cup {NoRow} /\ press[p].body \in Row \cup {NoRow}
    BY <1>1 DEF PressRecord
  <2>2. CASE Creates(p)
    BY <1>1, <1>2, <2>1, <2>2 DEF After, Tables, Creates
  <2>3. CASE ~Creates(p) /\ table[press[p].row] # NoRow
    BY <1>1, <1>2, <2>1, <2>3 DEF After, Tables
  <2>4. CASE ~Creates(p) /\ table[press[p].row] = NoRow
    BY <1>2, <2>4 DEF After
  <2> QED
    BY <2>2, <2>3, <2>4
<1>7. new # table => "refetch" \in press[p].then
  BY <1>3, <1>6 DEF TableInv, Owing
<1>8. /\ cache' \in Snapshot /\ fetch' \in [pc : {"idle", "sent", "read"}, reply : Snapshot]
      /\ cache'.misses \cup fetch'.reply.misses
            \subseteq cache.misses \cup fetch.reply.misses \cup (IF new = table THEN {} ELSE {p})
      /\ cache'.lacks = cache.lacks /\ fetch'.reply.lacks = fetch.reply.lacks
  <2>1. CASE new = table
    BY <1>1, <1>2, <2>1
  <2>2. CASE new # table
    <3>1. cache' = Missed(cache, p) /\ fetch' = [fetch EXCEPT !.reply = Missed(fetch.reply, p)]
      BY <1>2, <2>2
    <3>2. fetch'.reply = Missed(fetch.reply, p) /\ fetch'.pc = fetch.pc
      BY <1>1, <3>1
    <3>3. /\ Missed(cache, p) \in Snapshot /\ Missed(cache, p).lacks = cache.lacks
          /\ Missed(cache, p).misses \subseteq cache.misses \cup {p}
      BY <1>1, Copies
    <3>4. /\ Missed(fetch.reply, p) \in Snapshot
          /\ Missed(fetch.reply, p).lacks = fetch.reply.lacks
          /\ Missed(fetch.reply, p).misses \subseteq fetch.reply.misses \cup {p}
      BY <1>1, Copies
    <3>5. fetch' \in [pc : {"idle", "sent", "read"}, reply : Snapshot]
      BY <1>1, <3>1, <3>4
    <3> QED
      BY <2>2, <3>1, <3>2, <3>3, <3>4, <3>5
  <2> QED
    BY <2>1, <2>2
<1>9. TableTypeOK'
  <2>1. press' \in [Presses -> PressRecord]
    BY <1>1, <1>3, <1>4
  <2>2. taken' \in BOOLEAN
    BY <1>1, <1>3 DEF TableInv, TableTypeOK, PressRecord
  <2> QED
    BY <1>2, <1>3, <1>6, <1>8, <2>1, <2>2 DEF TableInv, TableTypeOK, PressRecord
<1>10. Owing'
  <2>1. \A q \in Presses :
           press'[q].pc = "sent" /\ press'[q].does # "touch" => "refetch" \in press'[q].then
    BY <1>4, <1>5 DEF TableInv, Owing
  <2>2. ASSUME NEW q \in cache'.misses \cup fetch'.reply.misses
        PROVE  press'[q].pc = "ok" /\ "refetch" \in press'[q].then
    <3>1. CASE q \in cache.misses \cup fetch.reply.misses
      BY <1>1, <1>4, <1>5, <3>1 DEF TableInv, Owing
    <3>2. CASE q = p /\ new # table
      BY <1>4, <1>5, <1>7, <3>2
    <3> QED
      BY <1>8, <3>1, <3>2
  <2>3. ~fetch'.reply.lacks
    BY <1>8 DEF TableInv, Owing
  <2> QED
    BY <2>1, <2>2, <2>3 DEF Owing
<1>11. Saving'
  <2>1. \A q \in Presses : press'[q].pc = "idle" => ~press'[q].here /\ ~press'[q].same
    BY <1>4, <1>5 DEF TableInv, Saving
  <2>2. \A q \in Presses : press'[q].here = press[q].here
    BY <1>4, <1>5
  <2>3. page.once =>
          \A q \in Presses :
             press'[q].pc = "sent" /\ press'[q].does = "form" /\ press'[q].same => press'[q].here
    BY <1>4, <1>5 DEF TableInv, Saving
  <2>4. ASSUME page.once, taken'
        PROVE  \E q \in Presses : press'[q].here /\ press'[q].pc = "ok"
    <3>1. CASE taken
      BY <1>4, <1>5, <2>4, <3>1 DEF TableInv, Saving
    <3>2. CASE Creates(p) /\ press[p].same
      <4>1. press[p].here
        BY <1>3, <2>4, <3>2 DEF TableInv, Saving, Creates
      <4> QED
        BY <1>4, <1>5, <4>1
    <3> QED
      BY <1>3, <2>4, <3>1, <3>2
  <2>5. \A q \in Presses : press'[q].here => "clear" \in press'[q].then
    BY <1>4, <1>5 DEF TableInv, Saving
  <2> QED
    BY <1>3, <2>1, <2>2, <2>3, <2>4, <2>5 DEF TableInv, Saving
<1>12. FreshIncludesOwnChanges'
  BY <1>3, <1>8 DEF TableInv, FreshIncludesOwnChanges
<1> QED
  BY <1>9, <1>10, <1>11, <1>12 DEF TableInv

(* An answer is taken up.                                                  *)
LEMMA SettleKeeps ==
    ASSUME TableInv, NEW p \in Presses, press[p].pc \in {"sent", "ok"}, Settle(p)
    PROVE  TableInv'
<1> DEFINE rest == [press EXCEPT ![p] = AtRest]
<1>1. /\ press \in [Presses -> PressRecord] /\ press[p] \in PressRecord
      /\ cache \in Snapshot /\ fetch.reply \in Snapshot /\ fresh \in BOOLEAN
      /\ cache.misses \subseteq Presses /\ fetch.reply.misses \subseteq Presses
      /\ fetch \in [pc : {"idle", "sent", "read"}, reply : Snapshot]
  BY DEF TableInv, TableTypeOK, PressRecord, Snapshot
<1>2. UNCHANGED <<page, admin, table, open>>
  BY DEF Settle
<1>3. /\ AtRest \in PressRecord /\ AtRest.pc = "idle" /\ ~AtRest.here /\ ~AtRest.same
      /\ AtRest.does = ""
  BY DEF AtRest, PressRecord
<1>4. rest \in [Presses -> PressRecord] /\ \A q \in Presses : rest[q] = IF q = p THEN AtRest ELSE press[q]
  BY <1>1, <1>3
<1>5. \/ /\ "clear" \in press[p].then /\ press[p].here
         /\ Cleared /\ press' = Changed(rest)
      \/ /\ ~("clear" \in press[p].then /\ press[p].here)
         /\ press' = rest /\ UNCHANGED formVars
  BY DEF Settle
<1>6. ASSUME NEW q \in Presses
      PROVE  /\ press'[q] \in PressRecord
             /\ press'[q].pc = rest[q].pc /\ press'[q].does = rest[q].does
             /\ press'[q].then = rest[q].then /\ press'[q].here = rest[q].here
             /\ press'[q].same => rest[q].same
  <2>1. rest[q] \in PressRecord
    BY <1>4
  <2>2. CASE press' = Changed(rest)
    <3>1. press'[q] = [rest[q] EXCEPT !.same = FALSE]
      BY <2>2 DEF Changed
    <3> QED
      BY <2>1, <3>1 DEF PressRecord
  <2>3. CASE press' = rest
    BY <2>1, <2>3
  <2> QED
    BY <1>5, <2>2, <2>3
<1>7. press' \in [Presses -> PressRecord]
  BY <1>4, <1>5, <1>6 DEF Changed
<1>8. /\ press'[p].pc = "idle" /\ ~press'[p].here /\ ~press'[p].same
      /\ \A q \in Presses \ {p} :
            /\ press'[q].pc = press[q].pc /\ press'[q].does = press[q].does
            /\ press'[q].then = press[q].then /\ press'[q].here = press[q].here
            /\ press'[q].same => press[q].same
  BY <1>3, <1>4, <1>6
<1>9. /\ Waived(cache, p) \in Snapshot /\ Waived(cache, p).lacks = cache.lacks
      /\ Waived(cache, p).misses = cache.misses \ {p}
      /\ Owed(cache, p) \in Snapshot /\ Owed(cache, p).misses = cache.misses \ {p}
      /\ Owed(cache, p).lacks = (cache.lacks \/ p \in cache.misses)
  BY <1>1, Copies
<1>10. /\ Waived(fetch.reply, p) \in Snapshot /\ Waived(fetch.reply, p).lacks = fetch.reply.lacks
       /\ Waived(fetch.reply, p).misses = fetch.reply.misses \ {p}
       /\ Owed(fetch.reply, p) \in Snapshot /\ Owed(fetch.reply, p).misses = fetch.reply.misses \ {p}
       /\ Owed(fetch.reply, p).lacks = (fetch.reply.lacks \/ p \in fetch.reply.misses)
  BY <1>1, Copies
<1>11. "refetch" \notin press[p].then => p \notin cache.misses \cup fetch.reply.misses
  BY DEF TableInv, Owing
<1>12. /\ cache' \in Snapshot /\ cache'.misses = cache.misses \ {p}
       /\ fresh' \in BOOLEAN
       /\ "refetch" \in press[p].then => fresh' = FALSE
       /\ "refetch" \notin press[p].then => fresh' = fresh /\ cache'.lacks = cache.lacks
  <2>1. cache' = IF Overlooked THEN Waived(cache, p) ELSE Owed(cache, p)
    BY DEF Settle
  <2>2. IF "refetch" \in press[p].then THEN fresh' = FALSE ELSE fresh' = fresh
    BY DEF Settle
  <2>3. cache.lacks \in BOOLEAN
    BY <1>1 DEF Snapshot
  <2>4. "refetch" \notin press[p].then => cache'.lacks = cache.lacks
    BY <1>9, <1>11, <2>1, <2>3
  <2>5. cache' \in Snapshot /\ cache'.misses = cache.misses \ {p}
    BY <1>9, <2>1
  <2> QED
    BY <1>1, <2>2, <2>4, <2>5
<1>13. /\ fetch' \in [pc : {"idle", "sent", "read"}, reply : Snapshot]
       /\ fetch'.reply.misses \subseteq fetch.reply.misses \ {p}
       /\ ~fetch'.reply.lacks
  <2>1. ~fetch.reply.lacks
    BY DEF TableInv, Owing
  <2>2. CASE "refetch" \in press[p].then /\ Restarts
    BY <2>2, NewReadIsEmpty DEF Settle
  <2>3. CASE "refetch" \in press[p].then /\ ~Restarts
    <3>1. fetch' = [fetch EXCEPT !.reply = Waived(fetch.reply, p)]
      BY <2>3 DEF Settle
    <3> QED
      BY <1>1, <1>10, <2>1, <3>1
  <2>4. CASE "refetch" \notin press[p].then
    <3>1. fetch' = [fetch EXCEPT !.reply = Owed(fetch.reply, p)]
      BY <2>4 DEF Settle
    <3>2. ~Owed(fetch.reply, p).lacks
      BY <1>10, <1>11, <2>1, <2>4
    <3> QED
      BY <1>1, <1>10, <3>1, <3>2
  <2> QED
    BY <2>2, <2>3, <2>4
<1>14. /\ form' \in Row \cup {NoRow} /\ editing' \in Rows \cup {NoRow}
       /\ taken' \in BOOLEAN
  BY <1>5 DEF Cleared, formVars, TableInv, TableTypeOK
<1>15. TableTypeOK'
  BY <1>2, <1>7, <1>12, <1>13, <1>14 DEF TableInv, TableTypeOK, PressRecord
<1>16. Owing'
  BY <1>1, <1>8, <1>12, <1>13 DEF TableInv, Owing
<1>17. Saving'
  <2>1. \A q \in Presses : /\ press'[q].pc = "idle" => ~press'[q].here /\ ~press'[q].same
                           /\ press'[q].here => "clear" \in press'[q].then
    BY <1>8 DEF TableInv, Saving
  <2>2. ASSUME page.once
        PROVE  /\ \A q, s \in Presses : press'[q].here /\ press'[s].here => q = s
               /\ \A q \in Presses :
                     press'[q].pc = "sent" /\ press'[q].does = "form" /\ press'[q].same
                        => press'[q].here
    BY <1>8, <2>2 DEF TableInv, Saving
  <2>3. ASSUME page.once, taken'
        PROVE  \E q \in Presses : press'[q].here /\ press'[q].pc = "ok"
    <3>1. taken /\ ~press[p].here
      BY <1>5, <2>3 DEF Cleared, formVars, TableInv, Saving
    <3>2. PICK q \in Presses : press[q].here /\ press[q].pc = "ok"
      BY <2>3, <3>1 DEF TableInv, Saving
    <3> QED
      BY <1>8, <3>1, <3>2
  <2> QED
    BY <1>2, <2>1, <2>2, <2>3 DEF Saving
<1>18. FreshIncludesOwnChanges'
  BY <1>12 DEF TableInv, FreshIncludesOwnChanges
<1> QED
  BY <1>15, <1>16, <1>17, <1>18 DEF TableInv

LEMMA FailedKeeps ==
    ASSUME TableInv, NEW p \in Presses, Failed(p)
    PROVE  TableInv'
<1>1. /\ press \in [Presses -> PressRecord]
      /\ cache \in Snapshot /\ fetch.reply \in Snapshot
      /\ cache.misses \subseteq Presses /\ fetch.reply.misses \subseteq Presses
      /\ fetch \in [pc : {"idle", "sent", "read"}, reply : Snapshot]
  BY DEF TableInv, TableTypeOK, PressRecord, Snapshot
<1>2. /\ press' = [press EXCEPT ![p] = AtRest] /\ taken' = FALSE
      /\ cache' = Waived(cache, p)
      /\ fetch' = [fetch EXCEPT !.reply = Waived(fetch.reply, p)]
      /\ UNCHANGED <<page, admin, table, open, fresh, form, editing>>
  BY DEF Failed
<1>3. /\ AtRest \in PressRecord /\ AtRest.pc = "idle" /\ ~AtRest.here /\ ~AtRest.same
  BY DEF AtRest, PressRecord
<1>4. /\ press' \in [Presses -> PressRecord]
      /\ \A q \in Presses : press'[q] = IF q = p THEN AtRest ELSE press[q]
  BY <1>1, <1>2, <1>3
<1>5. /\ cache' \in Snapshot /\ cache'.lacks = cache.lacks
      /\ cache'.misses = cache.misses \ {p}
  BY <1>1, <1>2, Copies
<1>6. /\ fetch' \in [pc : {"idle", "sent", "read"}, reply : Snapshot]
      /\ fetch'.reply.misses = fetch.reply.misses \ {p}
      /\ fetch'.reply.lacks = fetch.reply.lacks
  BY <1>1, <1>2, Copies
<1>7. TableTypeOK'
  BY <1>2, <1>4, <1>5, <1>6 DEF TableInv, TableTypeOK, PressRecord
<1>8. Owing'
  BY <1>1, <1>3, <1>4, <1>5, <1>6 DEF TableInv, Owing
<1>9. Saving'
  BY <1>2, <1>3, <1>4 DEF TableInv, Saving
<1>10. FreshIncludesOwnChanges'
  BY <1>2, <1>5 DEF TableInv, FreshIncludesOwnChanges
<1> QED
  BY <1>7, <1>8, <1>9, <1>10 DEF TableInv

-----------------------------------------------------------------------------
LEMMA NextKeeps == TableInv /\ [TableNext]_tableVars => TableInv'
<1> SUFFICES ASSUME TableInv, [TableNext]_tableVars PROVE TableInv'
  OBVIOUS
<1>1. CASE Leave \/ Reset \/ (\E row \in Row : Fill(row)) \/ \E r \in Rows : startEdit(r)
  BY <1>1, FormKeeps
<1>2. CASE Return \/ Focus \/ GrowOld \/ Forget \/ Read \/ Arrive \/ ReadFails \/ Elsewhere
  BY <1>2, ReadsKeep
<1>3. CASE \E p \in Presses, op \in Ops, r \in Rows \cup {NoRow} : Press(p, op, r)
  BY <1>3, PressKeeps
<1>4. ASSUME NEW p \in Presses,
             Resume(p) \/ Accept(p) \/ Answered(p) \/ Refused(p) \/ Failed(p)
      PROVE  TableInv'
  <2>4. CASE Resume(p)
    BY <2>4, ResumeKeeps
  <2>1. CASE Accept(p)
    BY <2>1, AcceptKeeps
  <2>2. CASE Answered(p) \/ Refused(p)
    BY <2>2, SettleKeeps DEF Answered, Refused
  <2>3. CASE Failed(p)
    BY <2>3, FailedKeeps
  <2> QED
    BY <1>4, <2>1, <2>2, <2>3, <2>4
<1>5. CASE UNCHANGED tableVars
  BY <1>5 DEF tableVars, readVars, formVars, TableInv, TableTypeOK, Owing, Saving,
              FreshIncludesOwnChanges
<1> QED
  BY <1>1, <1>2, <1>3, <1>4, <1>5 DEF TableNext

(* Whatever the rows and the number of requests under way, every state of  *)
(* a page with a table satisfies the invariant above.                      *)
THEOREM TableInvariant == TableSpec => []TableInv
  BY InitHolds, NextKeeps, PTL DEF TableSpec

(* useMutation's onSuccess and invalidateQueries: a table taken for fresh  *)
(* shows every change the page made and was answered for (but Overlooked). *)
THEOREM FreshIsCurrent == TableSpec => []FreshIncludesOwnChanges
<1>1. TableInv => FreshIncludesOwnChanges
  BY DEF TableInv
<1> QED
  BY <1>1, TableInvariant, PTL

(* Webhooks.tsx, the disabled Save: fields that became a row are not sent  *)
(* to become another, however answers, edits and departures interleave.    *)
THEOREM CreatesOnce == TableSpec => NoDoubleCreate
<1>1. ASSUME TableInv, [TableNext]_tableVars
      PROVE  [\A p \in Presses :
                 /\ page.once /\ Creates(p) /\ press[p].same
                 /\ press[p].pc = "sent" /\ press'[p].pc = "ok"
                 => ~taken]_tableVars
  <2> SUFFICES ASSUME NEW p \in Presses, page.once, Creates(p), press[p].same,
                      press[p].pc = "sent", taken
               PROVE  FALSE
    OBVIOUS
  <2>1. press[p].here
    BY <1>1 DEF TableInv, Saving, Creates
  <2>2. PICK q \in Presses : press[q].here /\ press[q].pc = "ok"
    BY <1>1 DEF TableInv, Saving
  <2> QED
    BY <1>1, <2>1, <2>2 DEF TableInv, Saving
<1> QED
  BY <1>1, TableInvariant, PTL DEF TableSpec, NoDoubleCreate

-----------------------------------------------------------------------------
(* WebAudit *)


Filed ==
    /\ \A r \in reading : r[1] = r[2]
    /\ \A p \in PageNumbers, f \in Choices :
          pages[<<p, f>>].what # "none" => pages[<<p, f>>].of = f

Counted ==
    /\ \A f \in Filters : log[f] <= log[All]
    /\ \A p \in PageNumbers, f \in Choices : pages[<<p, f>>].total <= log[f]

AuditInv == AuditTypeOK /\ Filed /\ Counted /\ ShowsSelection

-----------------------------------------------------------------------------
LEMMA AuditInitHolds == AuditInit => AuditInv
<1> SUFFICES ASSUME AuditInit PROVE AuditInv
  OBVIOUS
<1>1. MaxEvents \in Nat /\ All \in Choices /\ 1 \in PageNumbers
  BY AuditAssumption DEF AuditAssumption, Choices, PageNumbers
<1>2. log \in [Choices -> 0..MaxEvents] /\ \A f \in Filters : log[f] <= log[All]
  BY DEF AuditInit
<1>3. Unread \in Answer /\ Unread.what = "none" /\ Unread.total = 0
  BY <1>1 DEF Unread, Answer
<1>4. pages \in [Keys -> Answer] /\ \A k \in Keys : pages[k] = Unread
  BY <1>3 DEF AuditInit
<1>5. \A p \in PageNumbers, f \in Choices : <<p, f>> \in Keys
  BY DEF Keys
<1>6. reading = {<< <<1, All>>, <<1, All>> >>} /\ shownPage = 1 /\ filter = All /\ typed = All
  BY DEF AuditInit, Wanted, Key
<1>7. AuditTypeOK
  BY <1>1, <1>2, <1>4, <1>5, <1>6 DEF AuditTypeOK
<1>8. Filed
  BY <1>3, <1>4, <1>5, <1>6 DEF Filed
<1>9. Counted
  BY <1>1, <1>2, <1>3, <1>4, <1>5 DEF Counted
<1>10. ShowsSelection
  BY <1>1, <1>3, <1>4, <1>5, <1>6 DEF ShowsSelection, Shown, Key
<1> QED
  BY <1>7, <1>8, <1>9, <1>10 DEF AuditInv

(* A page that exists is selected; it is read, or its cached answer shown. *)
LEMMA SelectKeeps ==
    ASSUME AuditInv, NEW p \in PageNumbers, NEW f \in Choices, Select(p, f),
           p > 1 => p <= log[f], UNCHANGED <<log, pages>>, typed' \in Choices
    PROVE  AuditInv'
<1>1. /\ shownPage' = p /\ filter' = f
      /\ reading' \in {reading, reading \cup {<< <<p, f>>, <<p, f>> >>}}
  BY DEF Select, Wanted, Key
<1>2. <<p, f>> \in Keys
  BY DEF Keys
<1>3. AuditTypeOK'
  BY <1>1, <1>2 DEF AuditInv, AuditTypeOK
<1>4. Filed'
  BY <1>1 DEF AuditInv, Filed
<1>5. Counted'
  BY DEF AuditInv, Counted
<1>6. ShowsSelection'
  BY <1>1 DEF AuditInv, Filed, ShowsSelection, Shown, Key
<1> QED
  BY <1>3, <1>4, <1>5, <1>6 DEF AuditInv

LEMMA ArrivesKeeps ==
    ASSUME AuditInv, NEW r \in reading, Arrives(r)
    PROVE  AuditInv'
<1>1. PICK p \in PageNumbers, f \in Choices : r = << <<p, f>>, <<p, f>> >>
  BY DEF AuditInv, AuditTypeOK, Filed, Keys
<1>2. PICK what \in {"rows", "error"} :
        pages' = [pages EXCEPT ![<<p, f>>] =
                     [what |-> what, of |-> f, total |-> IF what = "rows" THEN log[f] ELSE 0]]
  BY <1>1 DEF Arrives
<1> DEFINE new == [what |-> what, of |-> f, total |-> IF what = "rows" THEN log[f] ELSE 0]
<1>3. MaxEvents \in Nat /\ log[f] \in 0..MaxEvents
  BY AuditAssumption DEF AuditAssumption, AuditInv, AuditTypeOK
<1>4. new \in Answer /\ new.what # "none" /\ new.of = f /\ new.total <= log[f]
  BY <1>3 DEF Answer
<1>5. pages \in [Keys -> Answer]
  BY DEF AuditInv, AuditTypeOK
<1>6. \A q \in PageNumbers, g \in Choices :
         pages'[<<q, g>>] = IF q = p /\ g = f THEN new ELSE pages[<<q, g>>]
  BY <1>2, <1>5 DEF Keys
<1>7. reading' = reading \ {r} /\ UNCHANGED <<log, shownPage, filter, typed>>
  BY DEF Arrives
<1>8. AuditTypeOK'
  BY <1>2, <1>4, <1>5, <1>7 DEF AuditInv, AuditTypeOK
<1>9. Filed'
  BY <1>4, <1>6, <1>7 DEF AuditInv, Filed
<1>10. Counted'
  BY <1>4, <1>6, <1>7 DEF AuditInv, Counted
<1>11. ShowsSelection'
  BY <1>4, <1>6, <1>7 DEF AuditInv, AuditTypeOK, ShowsSelection, Shown, Key
<1> QED
  BY <1>8, <1>9, <1>10, <1>11 DEF AuditInv

LEMMA LoggedKeeps ==
    ASSUME AuditInv, Logged
    PROVE  AuditInv'
<1>1. PICK S \in SUBSET Filters :
        log' = [f \in Choices |-> IF f \in S \cup {All} THEN log[f] + 1 ELSE log[f]]
  BY DEF Logged
<1>2. MaxEvents \in Nat /\ All \notin Filters /\ Choices = Filters \cup {All}
  BY AuditAssumption DEF AuditAssumption, Choices
<1>3. /\ \A f \in Choices : log[f] \in 0..MaxEvents /\ log[f] <= log[All]
      /\ log[All] < MaxEvents
  BY <1>2 DEF Logged, AuditInv, AuditTypeOK, Counted
<1>4. \A f \in Choices : /\ log'[f] \in 0..MaxEvents
                         /\ log[f] <= log'[f] /\ log'[f] <= log'[All]
  BY <1>1, <1>2, <1>3
<1>5. UNCHANGED <<shownPage, filter, typed, pages, reading>>
  BY DEF Logged
<1>6. AuditTypeOK'
  BY <1>1, <1>4, <1>5 DEF AuditInv, AuditTypeOK
<1>7. Filed'
  BY <1>5 DEF AuditInv, Filed
<1>8. \A p \in PageNumbers, f \in Choices : pages[<<p, f>>].total \in Nat
  BY <1>2 DEF AuditInv, AuditTypeOK, Answer, Keys
<1>9. Counted'
  BY <1>2, <1>3, <1>4, <1>5, <1>8 DEF AuditInv, Counted
<1>10. ShowsSelection'
  BY <1>3, <1>4, <1>5 DEF AuditInv, AuditTypeOK, ShowsSelection, Shown, Key, PageNumbers
<1> QED
  BY <1>6, <1>7, <1>9, <1>10 DEF AuditInv

LEMMA AuditNextKeeps == AuditInv /\ [AuditNext]_auditVars => AuditInv'
<1> SUFFICES ASSUME AuditInv, [AuditNext]_auditVars PROVE AuditInv'
  OBVIOUS
<1>1. MaxEvents \in Nat /\ All \in Choices /\ 1 \in PageNumbers
  BY AuditAssumption DEF AuditAssumption, Choices, PageNumbers
<1>2. /\ shownPage \in PageNumbers /\ filter \in Choices /\ typed \in Choices
      /\ shownPage > 1 => shownPage <= log[filter]
      /\ log[filter] \in 0..MaxEvents
  BY DEF AuditInv, AuditTypeOK, ShowsSelection
<1>3. CASE Open \/ Apply
  BY <1>1, <1>2, <1>3, SelectKeeps DEF Open, Apply
<1>4. CASE Prev
  <2>1. shownPage - 1 \in PageNumbers /\ (shownPage - 1 > 1 => shownPage - 1 <= log[filter])
    BY <1>1, <1>2, <1>4 DEF Prev, PageNumbers
  <2> QED
    BY <1>2, <1>4, <2>1, SelectKeeps DEF Prev
<1>5. CASE Forth
  <2>1. /\ Shown \in Answer /\ Shown.total <= log[filter]
    BY <1>2 DEF AuditInv, AuditTypeOK, Counted, Shown, Key, Keys
  <2>2. shownPage < Shown.total
    BY <1>1, <1>2, <1>5 DEF Forth, totalPages, PageNumbers
  <2>3. shownPage + 1 <= log[filter] /\ shownPage + 1 \in PageNumbers
    BY <1>1, <1>2, <2>1, <2>2 DEF PageNumbers, Answer
  <2> QED
    BY <1>2, <1>5, <2>3, SelectKeeps DEF Forth
<1>6. CASE ReadAgain
  BY <1>2, <1>6, SelectKeeps DEF ReadAgain
<1>7. CASE Logged
  BY <1>7, LoggedKeeps
<1>8. ASSUME NEW f \in Choices, Choose(f) PROVE AuditInv'
  BY <1>1, <1>2, <1>8, SelectKeeps DEF Choose
<1>9. ASSUME NEW f \in Choices, Type(f) PROVE AuditInv'
  BY <1>9 DEF Type, AuditInv, AuditTypeOK, Filed, Counted, ShowsSelection, Shown
<1>10. ASSUME NEW r \in reading, Arrives(r) PROVE AuditInv'
  BY <1>10, ArrivesKeeps
<1>11. ASSUME NEW r \in reading, ReadLost(r) PROVE AuditInv'
  BY <1>11 DEF ReadLost, AuditInv, AuditTypeOK, Filed, Counted, ShowsSelection, Shown
<1>12. CASE UNCHANGED auditVars
  BY <1>12 DEF auditVars, AuditInv, AuditTypeOK, Filed, Counted, ShowsSelection, Shown
<1> QED
  BY <1>3, <1>4, <1>5, <1>6, <1>7, <1>8, <1>9, <1>10, <1>11, <1>12 DEF AuditNext

(* Whatever can be selected and however long the log, every state of the   *)
(* audit page satisfies the invariant above.                               *)
THEOREM AuditInvariant == AuditSpec => []AuditInv
  BY AuditInitHolds, AuditNextKeeps, PTL DEF AuditSpec

(* Audit.tsx: the rows shown are of the filter selected and the page asked *)
(* for exists, in whatever order the answers of other keys arrive.         *)
THEOREM SelectionIsShown == AuditSpec => []ShowsSelection
<1>1. AuditInv => ShowsSelection
  BY DEF AuditInv
<1> QED
  BY <1>1, AuditInvariant, PTL

-----------------------------------------------------------------------------
(* The settings page: at most one call is in flight, and as long as the    *)
(* badge and the server disagree it is one that will ask who the user is,  *)
(* or that has asked.                                                      *)

InFlight(a) == ask[a].pc # "idle"

OneCall ==
    /\ \A a, b \in Asks : InFlight(a) /\ InFlight(b) => a = b
    /\ \A a \in Asks : ask[a].pc # "error"

(* A secret is handed out only while two-factor is off.                    *)
SetupWhileOff == \A a \in Asks : InFlight(a) /\ ask[a].what = "setup" => ~otp

BadgeComes ==
    /\ \/ badge = otp
       \/ \E a \in Asks :
             \/ InFlight(a) /\ ask[a].what = "me"
             \/ ask[a].pc = "ok" /\ ask[a].what \in {"enable", "disable"}
    /\ \A a \in Asks : ask[a].pc = "ok" /\ ask[a].what = "me" => ask[a].otp = otp

OnIsProven == otp => secret = proven /\ secret # NoSecret

SettingsInv ==
    /\ SettingsTypeOK
    /\ ~crossed => OneCall /\ SetupWhileOff /\ BadgeComes /\ OnIsProven

LEMMA SettingsBounds ==
    /\ MaxSecrets \in Nat \ {0}
    /\ 1 \in Secrets /\ NoSecret \in Secrets /\ NoSecret # 1
    /\ \A n \in Secrets : n < MaxSecrets => n + 1 \in Secrets
<1>1. MaxSecrets \in Nat \ {0}
  BY SettingsAssumption DEF SettingsAssumption
<1> QED
  BY <1>1 DEF Secrets, NoSecret

LEMMA SettingsInitHolds == SettingsInit => SettingsInv
<1> SUFFICES ASSUME SettingsInit PROVE SettingsInv
  OBVIOUS
<1>1. /\ badge = otp /\ otp \in BOOLEAN /\ proven = secret
      /\ secret = IF otp THEN 1 ELSE NoSecret
      /\ ask = [a \in Asks |-> Quiet]
  BY DEF SettingsInit
<1>2. \A a \in Asks : ask[a].pc = "idle"
  BY <1>1 DEF Quiet
<1>3. OneCall /\ SetupWhileOff /\ BadgeComes
  BY <1>1, <1>2 DEF OneCall, SetupWhileOff, BadgeComes, InFlight
<1>4. OnIsProven
  BY <1>1, SettingsBounds DEF OnIsProven
<1>5. SettingsTypeOK
  BY SettingsBounds DEF SettingsInit, SettingsTypeOK, Quiet, Forms
<1> QED
  BY <1>3, <1>4, <1>5 DEF SettingsInv

(* The record of a call, as SettingsTypeOK has it.                         *)
Ask == [pc     : {"idle", "sent", "ok", "error"},
        what   : {"password", "setup", "enable", "disable", "me"},
        form   : Forms,
        code   : Secrets,
        secret : Secrets,
        otp    : BOOLEAN]

LEMMA QuietIs ==
    /\ Quiet \in Ask /\ Quiet.pc = "idle" /\ Quiet.what = "me"
    /\ NoSecret \in Secrets
<1>1. Blank \in Forms
  BY DEF Forms
<1> QED
  BY <1>1, SettingsBounds DEF Quiet, Ask

(* What a record of a call becomes.                                        *)
LEMMA PcStep ==
    ASSUME NEW r \in Ask, NEW s \in {"sent", "ok", "error"}
    PROVE  /\ [r EXCEPT !.pc = s] \in Ask
           /\ [r EXCEPT !.pc = s].pc = s
           /\ [r EXCEPT !.pc = s].what = r.what
BY DEF Ask

LEMMA WhatStep ==
    ASSUME NEW r \in Ask, NEW w \in {"password", "setup", "enable", "disable"}
    PROVE  /\ [r EXCEPT !.what = w] \in Ask
           /\ [r EXCEPT !.what = w].what = w
BY DEF Ask

LEMMA FormStep ==
    ASSUME NEW r \in Ask, NEW f \in Forms
    PROVE  [r EXCEPT !.form = f] \in Ask /\ [r EXCEPT !.form = f].what = r.what
BY DEF Ask

LEMMA CodeStep ==
    ASSUME NEW r \in Ask, NEW c \in Secrets
    PROVE  [r EXCEPT !.code = c] \in Ask /\ [r EXCEPT !.code = c].what = r.what
BY DEF Ask

LEMMA SecretStep ==
    ASSUME NEW r \in Ask, NEW c \in Secrets
    PROVE  /\ [r EXCEPT !.secret = c] \in Ask
           /\ [r EXCEPT !.secret = c].pc = r.pc
           /\ [r EXCEPT !.secret = c].what = r.what
BY DEF Ask

LEMMA OtpStep ==
    ASSUME NEW r \in Ask, NEW b \in BOOLEAN
    PROVE  /\ [r EXCEPT !.otp = b] \in Ask
           /\ [r EXCEPT !.otp = b].pc = r.pc
           /\ [r EXCEPT !.otp = b].what = r.what
           /\ [r EXCEPT !.otp = b].otp = b
BY DEF Ask

LEMMA AskTypes ==
    ASSUME SettingsTypeOK
    PROVE  ask \in [Asks -> Ask]
BY DEF SettingsTypeOK, Ask

(* A handler answers, or refuses.                                          *)
LEMMA ReplyFields ==
    ASSUME SettingsTypeOK, NEW a \in Asks, NEW s \in {"ok", "error"},
           ask' = [ask EXCEPT ![a].pc = s]
    PROVE  /\ ask' \in [Asks -> Ask]
           /\ ask'[a].pc = s /\ ask'[a].what = ask[a].what
           /\ \A b \in Asks \ {a} : ask'[b] = ask[b]
<1>1. ask \in [Asks -> Ask] /\ ask[a] \in Ask
  BY AskTypes
<1>2. /\ ask'[a] = [ask[a] EXCEPT !.pc = s]
      /\ \A b \in Asks \ {a} : ask'[b] = ask[b]
  BY <1>1
<1>3. ask'[a] \in Ask /\ ask'[a].pc = s /\ ask'[a].what = ask[a].what
  <2>1. s \in {"sent", "ok", "error"}
    OBVIOUS
  <2> QED
    BY <1>1, <1>2, <2>1, PcStep, Zenon
<1>4. ask' \in [Asks -> Ask]
  BY <1>1, <1>3
<1> QED
  BY <1>2, <1>3, <1>4

(* A button sends its request, which is not asking who the user is.        *)
LEMMA SendFields ==
    ASSUME SettingsTypeOK, NEW a \in Asks, NEW r \in Ask, Send(a, r)
    PROVE  /\ ask' \in [Asks -> Ask]
           /\ ask'[a].pc = "sent" /\ ask'[a].what = r.what
           /\ \A b \in Asks \ {a} : ask'[b] = ask[b]
           /\ ask[a].pc = "idle"
           /\ crossed' \in BOOLEAN
           /\ ~crossed' => ~crossed /\ \A b \in Asks : ask[b].pc = "idle"
<1>1. ask \in [Asks -> Ask] /\ crossed \in BOOLEAN
  BY AskTypes DEF SettingsTypeOK
<1>2. /\ ask'[a] = [r EXCEPT !.pc = "sent"]
      /\ \A b \in Asks \ {a} : ask'[b] = ask[b]
  BY <1>1 DEF Send
<1>3. /\ [r EXCEPT !.pc = "sent"] \in Ask
      /\ [r EXCEPT !.pc = "sent"].pc = "sent"
      /\ [r EXCEPT !.pc = "sent"].what = r.what
  BY PcStep
<1>4. ask' \in [Asks -> Ask]
  BY <1>1, <1>3 DEF Send
<1> QED
  BY <1>1, <1>2, <1>3, <1>4 DEF Send

LEMMA EndFields ==
    ASSUME SettingsTypeOK, NEW a \in Asks, End(a)
    PROVE  /\ ask' \in [Asks -> Ask] /\ ask'[a].pc = "idle"
           /\ \A b \in Asks \ {a} : ask'[b] = ask[b]
BY AskTypes, QuietIs DEF End

LEMMA FetchUserFields ==
    ASSUME SettingsTypeOK, NEW a \in Asks, fetchUser(a)
    PROVE  /\ ask' \in [Asks -> Ask]
           /\ ask'[a].pc = "sent" /\ ask'[a].what = "me"
           /\ \A b \in Asks \ {a} : ask'[b] = ask[b]
<1>1. /\ [Quiet EXCEPT !.pc = "sent"] \in Ask
      /\ [Quiet EXCEPT !.pc = "sent"].pc = "sent"
      /\ [Quiet EXCEPT !.pc = "sent"].what = "me"
  BY QuietIs, PcStep
<1> QED
  BY <1>1, AskTypes DEF fetchUser

-----------------------------------------------------------------------------
(* Step by step.  The handlers:                                            *)

LEMMA HandlersKeep ==
    ASSUME SettingsInv, NEW a \in Asks,
           \/ ChangePassword(a) \/ Setup2FA(a) \/ Enable2FA(a) \/ Disable2FA(a)
           \/ Me(a) \/ Refuse(a)
    PROVE  SettingsInv'
<1> USE DEF SettingsInv
<1>0. ask \in [Asks -> Ask] /\ ask[a] \in Ask
  BY AskTypes
<1>1. CASE ChangePassword(a)
  <2>1. /\ ask' \in [Asks -> Ask]
        /\ ask'[a].pc = "ok" /\ ask'[a].what = "password"
        /\ ask[a].pc = "sent" /\ ask[a].what = "password"
        /\ \A b \in Asks \ {a} : ask'[b] = ask[b]
        /\ UNCHANGED <<secret, otp, proven, given, cardVars, crossed>>
    BY <1>1, ReplyFields DEF ChangePassword, Reply, Asked
  <2>2. password' \in Passwords
    <3>1. ask[a].form.old \in Passwords
      BY <1>1 DEF ChangePassword, SettingsTypeOK
    <3>2. ask[a].form \in Forms /\ ask[a].form # Blank
      <4>1. Blank.old \notin Passwords
        BY SettingsAssumption DEF SettingsAssumption, Blank
      <4> QED
        BY <1>0, <3>1, <4>1 DEF Ask
    <3>3. ask[a].form.new \in Passwords
      BY <3>2 DEF Forms
    <3> QED
      BY <1>1, <3>3 DEF ChangePassword
  <2>3. SettingsTypeOK'
    BY <2>1, <2>2 DEF SettingsTypeOK, Ask, cardVars
  <2>4. ~crossed => OneCall' /\ SetupWhileOff' /\ BadgeComes' /\ OnIsProven'
    BY <2>1 DEF OneCall, SetupWhileOff, BadgeComes, OnIsProven, InFlight, cardVars
  <2> QED
    BY <2>1, <2>3, <2>4
<1>2. CASE Setup2FA(a)
  <2>1. /\ ask[a].pc = "sent" /\ ask[a].what = "setup"
        /\ given' = given + 1 /\ secret' = given + 1 /\ given + 1 \in Secrets
        /\ UNCHANGED <<password, otp, proven, cardVars, crossed>>
    BY <1>2, SettingsBounds DEF Setup2FA, Asked, SettingsTypeOK
  <2>2. /\ ask'[a] = [[ask[a] EXCEPT !.pc = "ok"] EXCEPT !.secret = given + 1]
        /\ \A b \in Asks \ {a} : ask'[b] = ask[b]
        /\ ask' = [ask EXCEPT ![a] = ask'[a]]
    BY <1>0, <1>2 DEF Setup2FA
  <2>3. ask'[a] \in Ask /\ ask'[a].pc = "ok" /\ ask'[a].what = "setup"
    <3>1. /\ [ask[a] EXCEPT !.pc = "ok"] \in Ask
          /\ [ask[a] EXCEPT !.pc = "ok"].pc = "ok"
          /\ [ask[a] EXCEPT !.pc = "ok"].what = "setup"
      BY <1>0, <2>1, PcStep
    <3> QED
      BY <2>1, <2>2, <3>1, SecretStep, Zenon
  <2>4. ask' \in [Asks -> Ask]
    BY <1>0, <2>2, <2>3
  <2>5. SettingsTypeOK'
    BY <2>1, <2>4 DEF SettingsTypeOK, Ask, cardVars
  <2>6. ~crossed => OneCall' /\ SetupWhileOff' /\ BadgeComes' /\ OnIsProven'
    BY <2>1, <2>2, <2>3 DEF OneCall, SetupWhileOff, BadgeComes, OnIsProven,
       InFlight, cardVars
  <2> QED
    BY <2>1, <2>5, <2>6
<1>3. CASE Enable2FA(a)
  <2>1. /\ ask' \in [Asks -> Ask]
        /\ ask'[a].pc = "ok" /\ ask'[a].what = "enable"
        /\ ask[a].pc = "sent" /\ ask[a].what = "enable"
        /\ \A b \in Asks \ {a} : ask'[b] = ask[b]
        /\ otp' = TRUE /\ proven' = secret /\ secret # NoSecret
        /\ UNCHANGED <<password, secret, given, cardVars, crossed>>
    BY <1>3, ReplyFields DEF Enable2FA, Reply, Asked
  <2>2. SettingsTypeOK'
    BY <2>1 DEF SettingsTypeOK, Ask, cardVars
  <2>3. ~crossed => OneCall' /\ SetupWhileOff' /\ BadgeComes' /\ OnIsProven'
    BY <2>1 DEF OneCall, SetupWhileOff, BadgeComes, OnIsProven, InFlight, cardVars
  <2> QED
    BY <2>1, <2>2, <2>3
<1>4. CASE Disable2FA(a)
  <2>1. /\ ask' \in [Asks -> Ask]
        /\ ask'[a].pc = "ok" /\ ask'[a].what = "disable"
        /\ ask[a].pc = "sent" /\ ask[a].what = "disable"
        /\ \A b \in Asks \ {a} : ask'[b] = ask[b]
        /\ otp' = FALSE /\ secret' = NoSecret
        /\ UNCHANGED <<password, proven, given, cardVars, crossed>>
    BY <1>4, ReplyFields DEF Disable2FA, Reply, Asked
  <2>2. SettingsTypeOK'
    BY <2>1, QuietIs DEF SettingsTypeOK, Ask, cardVars
  <2>3. ~crossed => OneCall' /\ SetupWhileOff' /\ BadgeComes' /\ OnIsProven'
    BY <2>1 DEF OneCall, SetupWhileOff, BadgeComes, OnIsProven, InFlight, cardVars
  <2> QED
    BY <2>1, <2>2, <2>3
<1>5. CASE Me(a)
  <2>1. /\ ask[a].pc = "sent" /\ ask[a].what = "me" /\ otp \in BOOLEAN
        /\ UNCHANGED <<accountVars, cardVars, crossed>>
    BY <1>5 DEF Me, Asked, SettingsTypeOK
  <2>2. /\ ask'[a] = [[ask[a] EXCEPT !.pc = "ok"] EXCEPT !.otp = otp]
        /\ \A b \in Asks \ {a} : ask'[b] = ask[b]
        /\ ask' = [ask EXCEPT ![a] = ask'[a]]
    BY <1>0, <1>5 DEF Me
  <2>3. /\ ask'[a] \in Ask /\ ask'[a].pc = "ok" /\ ask'[a].what = "me"
        /\ ask'[a].otp = otp
    <3>1. /\ [ask[a] EXCEPT !.pc = "ok"] \in Ask
          /\ [ask[a] EXCEPT !.pc = "ok"].pc = "ok"
          /\ [ask[a] EXCEPT !.pc = "ok"].what = "me"
      BY <1>0, <2>1, PcStep
    <3>2. LET q == [[ask[a] EXCEPT !.pc = "ok"] EXCEPT !.otp = otp] IN
          q \in Ask /\ q.pc = "ok" /\ q.what = "me" /\ q.otp = otp
      BY <2>1, <3>1, OtpStep
    <3> QED
      BY <2>2, <3>2, Zenon
  <2>4. ask' \in [Asks -> Ask]
    BY <1>0, <2>2, <2>3
  <2>5. SettingsTypeOK'
    BY <2>1, <2>4 DEF SettingsTypeOK, Ask, accountVars, cardVars
  <2>6. ASSUME ~crossed PROVE OneCall' /\ SetupWhileOff' /\ BadgeComes' /\ OnIsProven'
    <3>1. \A b \in Asks \ {a} : ask[b].pc = "idle" /\ ask'[b].pc = "idle"
      BY <2>1, <2>2, <2>6 DEF OneCall, InFlight
    <3>2. OneCall' /\ SetupWhileOff'
      BY <2>3, <3>1 DEF OneCall, SetupWhileOff, InFlight
    <3>3. BadgeComes'
      BY <2>1, <2>3, <3>1 DEF BadgeComes, InFlight, accountVars
    <3>4. OnIsProven'
      BY <2>1, <2>6 DEF OnIsProven, accountVars
    <3> QED
      BY <3>2, <3>3, <3>4
  <2> QED
    BY <2>1, <2>5, <2>6
<1>6. CASE Refuse(a)
  <2>1. /\ ask' \in [Asks -> Ask] /\ crossed'
        /\ UNCHANGED <<accountVars, cardVars>>
    BY <1>6, ReplyFields DEF Refuse
  <2> QED
    BY <2>1 DEF SettingsTypeOK, Ask, accountVars, cardVars, Refuse
<1> QED
  BY <1>1, <1>2, <1>3, <1>4, <1>5, <1>6

(* ... the buttons ...                                                     *)
LEMMA ButtonKeeps ==
    ASSUME SettingsInv, NEW a \in Asks, NEW r \in Ask, Send(a, r),
           r.what \in {"password", "setup", "enable", "disable"},
           r.what = "setup" => ~badge,
           UNCHANGED <<accountVars, cardVars>>
    PROVE  SettingsInv'
<1> USE DEF SettingsInv
<1>1. /\ ask' \in [Asks -> Ask]
      /\ ask'[a].pc = "sent" /\ ask'[a].what = r.what
      /\ \A b \in Asks \ {a} : ask'[b] = ask[b]
      /\ crossed' \in BOOLEAN
      /\ ~crossed' => ~crossed /\ \A b \in Asks : ask[b].pc = "idle"
  BY SendFields
<1>2. SettingsTypeOK'
  BY <1>1 DEF SettingsTypeOK, Ask, accountVars, cardVars
<1>3. ~crossed' => badge = otp /\ OnIsProven
  BY <1>1 DEF BadgeComes, InFlight
<1>4. ~crossed' => OneCall' /\ SetupWhileOff' /\ BadgeComes' /\ OnIsProven'
  BY <1>1, <1>3 DEF OneCall, SetupWhileOff, BadgeComes, OnIsProven, InFlight,
     accountVars, cardVars
<1> QED
  BY <1>2, <1>4

LEMMA ButtonsKeep ==
    ASSUME SettingsInv, NEW a \in Asks,
           changePassword(a) \/ Enable(a) \/ Verify(a) \/ Disable(a)
    PROVE  SettingsInv'
<1>1. CASE changePassword(a)
  <2> DEFINE r == [[Quiet EXCEPT !.what = "password"] EXCEPT !.form = entered]
  <2>1. entered \in Forms
    BY DEF SettingsInv, SettingsTypeOK
  <2>2. r \in Ask /\ r.what = "password"
    <3>1. [Quiet EXCEPT !.what = "password"] \in Ask
            /\ [Quiet EXCEPT !.what = "password"].what = "password"
      BY QuietIs, WhatStep
    <3> QED
      BY <2>1, <3>1, FormStep, Zenon
  <2>3. Send(a, r) /\ UNCHANGED <<accountVars, cardVars>>
    BY <1>1 DEF changePassword
  <2> QED
    BY <2>2, <2>3, ButtonKeeps
<1>2. CASE Enable(a)
  <2>1. [Quiet EXCEPT !.what = "setup"] \in Ask
          /\ [Quiet EXCEPT !.what = "setup"].what = "setup"
    BY QuietIs, WhatStep
  <2> QED
    BY <1>2, <2>1, ButtonKeeps DEF Enable
<1>3. CASE Verify(a)
  <2>1. PICK code \in {shown, NoSecret} :
           Send(a, [[Quiet EXCEPT !.what = "enable"] EXCEPT !.code = code])
    BY <1>3 DEF Verify
  <2>2. code \in Secrets
    BY <2>1, QuietIs DEF SettingsInv, SettingsTypeOK
  <2>3. LET r == [[Quiet EXCEPT !.what = "enable"] EXCEPT !.code = code] IN
        r \in Ask /\ r.what = "enable"
    <3>1. [Quiet EXCEPT !.what = "enable"] \in Ask
            /\ [Quiet EXCEPT !.what = "enable"].what = "enable"
      BY QuietIs, WhatStep
    <3> QED
      BY <2>2, <3>1, CodeStep, Zenon
  <2> QED
    BY <1>3, <2>1, <2>3, ButtonKeeps DEF Verify
<1>4. CASE Disable(a)
  <2>1. [Quiet EXCEPT !.what = "disable"] \in Ask
          /\ [Quiet EXCEPT !.what = "disable"].what = "disable"
    BY QuietIs, WhatStep
  <2> QED
    BY <1>4, <2>1, ButtonKeeps DEF Disable
<1> QED
  BY <1>1, <1>2, <1>3, <1>4

(* ... and what comes back.                                                *)
LEMMA BackKeeps ==
    ASSUME SettingsInv, NEW a \in Asks,
           \/ PasswordBack(a) \/ SetupBack(a) \/ EnableBack(a) \/ DisableBack(a)
           \/ UserBack(a) \/ Nothing(a)
    PROVE  SettingsInv'
<1> USE DEF SettingsInv
<1>0. ask \in [Asks -> Ask] /\ ask[a] \in Ask
  BY AskTypes
<1>1. CASE PasswordBack(a) \/ SetupBack(a)
  <2>1. /\ ask' \in [Asks -> Ask] /\ ask'[a].pc = "idle"
        /\ \A b \in Asks \ {a} : ask'[b] = ask[b]
        /\ ask[a].pc \in {"ok", "error"} /\ ask[a].what \in {"password", "setup"}
        /\ UNCHANGED <<accountVars, badge, crossed>>
    BY <1>1, EndFields DEF PasswordBack, SetupBack, Back
  <2>2. /\ message' \in {"", "changed", "failed"} /\ entered' \in Forms
        /\ shown' \in Secrets
    BY <1>0, <1>1 DEF PasswordBack, SetupBack, SettingsTypeOK, Ask, Forms
  <2>3. SettingsTypeOK'
    BY <2>1, <2>2 DEF SettingsTypeOK, Ask, accountVars
  <2>4. ~crossed => OneCall' /\ SetupWhileOff' /\ BadgeComes' /\ OnIsProven'
    BY <2>1 DEF OneCall, SetupWhileOff, BadgeComes, OnIsProven, InFlight,
       accountVars
  <2> QED
    BY <2>1, <2>3, <2>4
<1>2. CASE EnableBack(a) \/ DisableBack(a)
  <2>1. /\ ask' \in [Asks -> Ask] /\ ask'[a].pc = "sent" /\ ask'[a].what = "me"
        /\ \A b \in Asks \ {a} : ask'[b] = ask[b]
        /\ ask[a].pc \in {"ok", "error"} /\ ask[a].what \in {"enable", "disable"}
        /\ UNCHANGED <<accountVars, badge, entered, message, crossed>>
    BY <1>2, FetchUserFields DEF EnableBack, DisableBack, Back, cardVars
  <2>2. shown' \in Secrets
    BY <1>2, QuietIs DEF EnableBack, DisableBack, SettingsTypeOK, cardVars
  <2>3. SettingsTypeOK'
    BY <2>1, <2>2 DEF SettingsTypeOK, Ask, accountVars
  <2>4. ~crossed => OneCall' /\ SetupWhileOff' /\ BadgeComes' /\ OnIsProven'
    BY <2>1 DEF OneCall, SetupWhileOff, BadgeComes, OnIsProven, InFlight,
       accountVars
  <2> QED
    BY <2>1, <2>3, <2>4
<1>3. CASE UserBack(a)
  <2>1. /\ ask' \in [Asks -> Ask] /\ ask'[a].pc = "idle"
        /\ \A b \in Asks \ {a} : ask'[b] = ask[b]
        /\ ask[a].pc \in {"ok", "error"} /\ ask[a].what = "me"
        /\ badge' = IF ask[a].pc = "ok" THEN ask[a].otp ELSE badge
        /\ UNCHANGED <<accountVars, shown, entered, message, crossed>>
    BY <1>3, EndFields DEF UserBack, Back
  <2>2. badge' \in BOOLEAN
    BY <1>0, <2>1 DEF SettingsTypeOK, Ask
  <2>3. SettingsTypeOK'
    BY <2>1, <2>2 DEF SettingsTypeOK, Ask, accountVars
  <2>4. ~crossed => badge' = otp /\ OneCall /\ SetupWhileOff /\ OnIsProven
    BY <2>1 DEF OneCall, BadgeComes
  <2>5. ~crossed => OneCall' /\ SetupWhileOff' /\ BadgeComes' /\ OnIsProven'
    BY <2>1, <2>4 DEF OneCall, SetupWhileOff, BadgeComes, OnIsProven, InFlight,
       accountVars
  <2> QED
    BY <2>1, <2>3, <2>5
<1>4. CASE Nothing(a)
  <2>1. /\ ask' \in [Asks -> Ask] /\ crossed' = TRUE
        /\ message' \in {"", "changed", "failed"}
        /\ UNCHANGED <<accountVars, badge, shown, entered>>
    BY <1>4, EndFields DEF Nothing, SettingsTypeOK
  <2> QED
    BY <2>1 DEF SettingsTypeOK, Ask, accountVars
<1> QED
  BY <1>1, <1>2, <1>3, <1>4

LEMMA SettingsNextKeeps == SettingsInv /\ [SettingsNext]_settingsVars => SettingsInv'
<1> SUFFICES ASSUME SettingsInv, [SettingsNext]_settingsVars PROVE SettingsInv'
  OBVIOUS
<1>1. CASE (\E f \in Forms : Enter(f)) \/ UNCHANGED settingsVars
  <2>1. /\ entered' \in Forms
        /\ UNCHANGED <<accountVars, badge, shown, message, ask, crossed>>
    BY <1>1 DEF Enter, settingsVars, cardVars, SettingsInv, SettingsTypeOK
  <2>2. SettingsTypeOK'
    BY <2>1 DEF SettingsInv, SettingsTypeOK, accountVars
  <2>3. ~crossed' => OneCall' /\ SetupWhileOff' /\ BadgeComes' /\ OnIsProven'
    BY <2>1 DEF SettingsInv, OneCall, SetupWhileOff, BadgeComes, OnIsProven,
       InFlight, accountVars
  <2> QED
    BY <2>2, <2>3 DEF SettingsInv
<1> QED
  BY <1>1, HandlersKeep, ButtonsKeep, BackKeeps DEF SettingsNext

(* The invariant of the settings page, for every number of calls,          *)
(* passwords and secrets.                                                  *)
THEOREM SettingsInvariant == SettingsSpec => []SettingsInv
<1> QED
  BY SettingsInitHolds, SettingsNextKeeps, PTL DEF SettingsSpec

(* Once Enable2FA or Disable2FA is answered fetchUser asks again, so that  *)
(* the badge tells the truth when all is quiet; and two-factor is never on *)
(* with a secret nobody gave a code for.                                   *)
THEOREM BadgeTellsTruth == SettingsSpec => []TwoFactorSettles
<1>1. SettingsInv => TwoFactorSettles
  BY DEF SettingsInv, BadgeComes, OnIsProven, InFlight, TwoFactorSettles
<1> QED
  BY <1>1, SettingsInvariant, PTL

-----------------------------------------------------------------------------
(* The whole of the web UI is each of its parts, with the others resting:  *)
(* what is proved of a part holds of it.                                   *)
LEMMA WebIsEach == WebSpec => TableSpec /\ SessionSpec /\ AuditSpec /\ SettingsSpec
<1>1. WebInit => TableInit /\ SessionInit /\ AuditInit /\ SettingsInit
  BY DEF WebInit
<1>2. [WebNext]_webVars => /\ [TableNext]_tableVars /\ [SessionNext]_sessionVars
                           /\ [AuditNext]_auditVars /\ [SettingsNext]_settingsVars
  BY DEF WebNext, TablesStep, SessionsStep, AuditStep, SettingsStep, webVars
<1> QED
  BY <1>1, <1>2, PTL DEF WebSpec, TableSpec, SessionSpec, AuditSpec, SettingsSpec

(* ... as the invariants of the pages.                                     *)
THEOREM WebKeeps ==
    WebSpec => [](FreshIncludesOwnChanges /\ ShowsSelection /\ TwoFactorSettles)
<1> QED
  BY WebIsEach, FreshIsCurrent, SelectionIsShown, BadgeTellsTruth, PTL
=============================================================================
