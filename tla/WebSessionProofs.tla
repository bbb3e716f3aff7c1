--------------------------- MODULE WebSessionProofs ---------------------------
(***************************************************************************)
(* Proofs about WebSession.  The two properties rest on one inductive      *)
(* invariant: a pair that was issued and did not reach its tab yet is      *)
(* known to nobody else (Private), and as long as nobody logged in or out  *)
(* while a call was in flight, every call of a tab was made with tokens of *)
(* the one user whose tokens the tab has (Loyal).                          *)
(***************************************************************************)
EXTENDS WebSession, FiniteSetTheorems, TLAPS

Refreshing == {"refresh", "checked", "rotated"}

(* What a call carries at each of its stages.                              *)
Carried ==
    \A c \in Calls :
        /\ call[c].pc # "idle" => call[c].tab \in Tabs
        /\ call[c].pc \in Refreshing => call[c].key \in Issued
        /\ Waiting(c) /\ call[c].what = "me" => call[c].pair \in Issued
        /\ call[c].pc = "rotated" =>
              call[c].pair \in Issued /\ owner[call[c].pair] = owner[call[c].key]

Private ==
    \A c \in Calls : call[c].pc = "rotated" =>
        LET n == call[c].pair
        IN  /\ n \notin exchanged /\ n # stored
            /\ \A t \in Tabs : n # mine[t]
            /\ \A d \in Calls : n # call[d].key
            /\ \A d \in Calls \ {c} : call[d].pc = "rotated" => n # call[d].pair

(* The pair n is one of the user whose pair tab t has.                     *)
Same(t, n) == mine[t] # NoPair /\ owner[n] = owner[mine[t]]

Loyal ==
    \A t \in Tabs : ~overlap[t] =>
        \A c \in CallsOf(t) :
            /\ call[c].pc \in Refreshing => Same(t, call[c].key)
            /\ Waiting(c) /\ call[c].what = "me" => Same(t, call[c].pair)

SessionInv == SessionTypeOK /\ Carried /\ Private /\ Loyal /\ NoStaleToken /\ SessionAgrees

-----------------------------------------------------------------------------
(* Issued pairs are numbered without gaps; the next one is new.            *)
LEMMA FreshIsNew ==
    ASSUME SessionTypeOK
    PROVE  /\ Fresh \in Nat /\ Fresh \notin Issued /\ Fresh # NoPair
           /\ NoPair \notin Issued
           /\ Issued \subseteq Nat
           /\ Issued = 1..(Fresh - 1)
<1>1. PICK n \in 0..MaxPairs : owner \in [1..n -> People]
  BY DEF SessionTypeOK
<1>2. MaxPairs \in Nat
  BY SessionAssumption DEF SessionAssumption
<1>3. n \in Nat /\ Issued = 1..n
  BY <1>1, <1>2 DEF Issued
<1>4. Cardinality(1..n) = n
  BY <1>3, FS_Interval
<1> QED
  BY <1>3, <1>4 DEF Fresh, NoPair

LEMMA IssueAdds ==
    ASSUME SessionTypeOK, NEW p \in People, Issue(p)
    PROVE  /\ Issued' = Issued \cup {Fresh}
           /\ owner'[Fresh] = p
           /\ \A n \in Issued : owner'[n] = owner[n]
           /\ \E n \in 0..MaxPairs : owner' \in [1..n -> People]
<1>1. Issued = 1..(Fresh - 1) /\ Fresh \in Nat /\ Fresh # 0 /\ Fresh \notin Issued
  BY FreshIsNew DEF NoPair
<1>2. owner' = [n \in 1..Fresh |-> IF n = Fresh THEN p ELSE owner[n]] /\ Fresh <= MaxPairs
  BY DEF Issue
<1>3. \A n \in Issued : owner[n] \in People
  BY DEF SessionTypeOK, Issued
<1>4. 1..Fresh = (1..(Fresh - 1)) \cup {Fresh}
  BY <1>1
<1>5. owner' \in [1..Fresh -> People]
  BY <1>1, <1>2, <1>3, <1>4
<1>6. MaxPairs \in Nat
  BY SessionAssumption DEF SessionAssumption
<1>8. Fresh \in 0..MaxPairs
  BY <1>1, <1>2, <1>6
<1>7. Issued' = 1..Fresh
  BY <1>2 DEF Issued
<1> QED
  BY <1>1, <1>2, <1>4, <1>5, <1>7, <1>8

-----------------------------------------------------------------------------
(* The user, the page and the expiry of access tokens do not matter to the *)
(* parts about calls.                                                      *)
Calling == Carried /\ Private /\ Loyal

(* A call goes on to k, which carries nothing that was not known.          *)
Known(c, k) ==
    /\ k.pc # "rotated"
    /\ k.pc # "idle" => k.tab \in Tabs
    /\ k.key \in {NoPair, call[c].key} \cup {mine[t] : t \in Tabs}
    /\ k.pc \in Refreshing =>
          k.key \in Issued /\ (~overlap[k.tab] => Same(k.tab, k.key))
    /\ k.pc \in {"sent", "again"} /\ k.what = "me" =>
          k.pair \in Issued /\ (~overlap[k.tab] => Same(k.tab, k.pair))

LEMMA CallMoves ==
    ASSUME SessionTypeOK, Calling, NEW c \in Calls, NEW k, Known(c, k),
           call' = [call EXCEPT ![c] = k],
           UNCHANGED <<owner, stored, mine, exchanged, overlap>>
    PROVE  Calling'
<1>1. NoPair \notin Issued
  BY FreshIsNew
<1>2. \A d \in Calls : call'[d] = IF d = c THEN k ELSE call[d]
  BY DEF SessionTypeOK
<1>3. Issued' = Issued
  BY DEF Issued
<1>4. Carried'
  BY <1>2, <1>3 DEF Calling, Carried, Known, Waiting, Refreshing
<1>5. Private'
  BY <1>1, <1>2, <1>3 DEF Calling, Private, Carried, Known
<1>6. Loyal'
  BY <1>2, <1>3 DEF Calling, Loyal, Known, Waiting, CallsOf, Same, Refreshing
<1> QED
  BY <1>4, <1>5, <1>6 DEF Calling

-----------------------------------------------------------------------------
CallRecord ==
    [tab : Tabs \cup {""},
     pc : {"idle", "sent", "refresh", "checked", "rotated", "refused", "again", "lost"},
     what : {"get", "me", "login"},
     pair : Issued \cup {NoPair}, key : Issued \cup {NoPair}]

(* The first pair, if there is one, is the one every tab has loaded.       *)
LEMMA InitHolds == SessionInit => SessionInv
<1> SUFFICES ASSUME SessionInit PROVE SessionInv
  OBVIOUS
<1>1. PICK n \in 0..1 : owner \in [1..n -> People]
  BY DEF SessionInit
<1>2. Issued = 1..n /\ Cardinality(Issued) = n
  <2>1. Issued = 1..n
    BY <1>1 DEF Issued
  <2>2. n \in Nat
    OBVIOUS
  <2>3. Cardinality(1..n) = n
    BY <2>2, FS_Interval
  <2> QED
    BY <2>1, <2>3
<1>3. n \in 0..MaxPairs /\ stored \in Issued \cup {NoPair}
  <2>1. stored = n
    BY <1>2 DEF SessionInit
  <2>2. MaxPairs \in Nat \ {0}
    BY SessionAssumption DEF SessionAssumption
  <2> QED
    BY <1>2, <2>1, <2>2 DEF NoPair
<1>4. ASSUME NEW c \in Calls
      PROVE  \/ call[c] = Idle
             \/ \E t \in Tabs : call[c] = Sent(t, "me", stored)
  BY DEF SessionInit
<1>5. call \in [Calls -> {Idle} \cup {Sent(t, "me", stored) : t \in Tabs}]
  BY DEF SessionInit
<1>6. SessionTypeOK
  <2>1. expired \in Issued \cup {NoPair}
    BY <1>2 DEF SessionInit, NoPair
  <2>2. \A v \in {Idle} \cup {Sent(t, "me", stored) : t \in Tabs} :
           v \in CallRecord
    <3>1. Idle \in CallRecord
      BY DEF Idle, CallRecord
    <3>2. ASSUME NEW t \in Tabs
          PROVE  Sent(t, "me", stored) \in CallRecord
      BY <1>3 DEF Sent, CallRecord
    <3> QED
      BY <3>1, <3>2
  <2>3. call \in [Calls -> CallRecord]
    BY <1>5, <2>2
  <2> QED
    BY <1>1, <1>3, <2>1, <2>3 DEF SessionInit, SessionTypeOK, CallRecord
<1>7. ASSUME NEW c \in Calls, call[c] # Idle
      PROVE  stored \in Issued /\ \E t \in Tabs : call[c] = Sent(t, "me", stored)
  <2>1. PICK t \in Tabs : call[c] = Sent(t, "me", stored)
    BY <1>4, <1>7
  <2>2. stored # NoPair
    <3> SUFFICES ASSUME stored = NoPair PROVE FALSE
      OBVIOUS
    <3>1. Cardinality({d \in Calls : call[d].tab = t}) = 0
      BY DEF SessionInit
    <3>2. IsFiniteSet({d \in Calls : call[d].tab = t})
      BY FS_Subset, SessionAssumption DEF SessionAssumption
    <3>3. {d \in Calls : call[d].tab = t} = {}
      BY <3>1, <3>2, FS_EmptySet
    <3> QED
      BY <2>1, <3>3 DEF Sent
  <2> QED
    BY <1>3, <2>1, <2>2
<1>8. ASSUME NEW c \in Calls
      PROVE  /\ call[c].pc \in {"idle", "sent"}
             /\ call[c].pc = "sent" =>
                   call[c].tab \in Tabs /\ call[c].pair = stored /\ stored \in Issued
  <2>1. CASE call[c] = Idle
    <3>1. Idle.pc = "idle"
      BY DEF Idle
    <3> QED
      BY <2>1, <3>1
  <2>2. CASE call[c] # Idle
    <3>1. PICK t \in Tabs : call[c] = Sent(t, "me", stored)
      BY <1>7, <2>2
    <3>2. call[c].pc = "sent" /\ call[c].tab = t /\ call[c].pair = stored
      BY <3>1 DEF Sent
    <3> QED
      BY <1>7, <2>2, <3>2
  <2> QED
    BY <2>1, <2>2
<1>9. Carried /\ Private
  BY <1>8 DEF Carried, Private, Waiting, Refreshing
<1>11. Loyal
  <2>1. NoPair \notin Issued /\ \A t \in Tabs : mine[t] = stored
    BY <1>6, FreshIsNew DEF SessionInit
  <2> QED
    BY <1>8, <2>1 DEF Loyal, CallsOf, Same, Waiting, Refreshing
<1>10. NoStaleToken /\ SessionAgrees
  BY DEF SessionInit, NoStaleToken, SessionAgrees
<1> QED
  BY <1>6, <1>9, <1>10, <1>11 DEF SessionInv

-----------------------------------------------------------------------------
(* Steps in which a call goes on and no pair is issued or taken up.        *)
LEMMA ViewKeeps ==
    ASSUME SessionInv, UNCHANGED <<owner, stored, mine, exchanged, overlap>>, Calling',
           SessionTypeOK',
           \A t \in Tabs : user'[t] \in {user[t], Nobody}
    PROVE  SessionInv'
<1>1. NoStaleToken'
  BY DEF SessionInv, NoStaleToken
<1>2. SessionAgrees'
  BY DEF SessionInv, SessionAgrees
<1> QED
  BY <1>1, <1>2 DEF SessionInv, Calling

LEMMA QuietCall ==
    ASSUME SessionInv, NEW c \in Calls, NEW k \in CallRecord, Known(c, k),
           call' = [call EXCEPT ![c] = k], UNCHANGED <<serverVars, tokenVars, viewVars>>
    PROVE  SessionInv'
<1>1. Calling'
  BY CallMoves DEF SessionInv, Calling, serverVars, tokenVars, viewVars
<1>2. SessionTypeOK'
  <2>1. Issued' = Issued
    BY DEF Issued, serverVars
  <2>2. call' \in [Calls -> CallRecord]
    BY DEF SessionInv, SessionTypeOK, CallRecord
  <2> QED
    BY <2>1, <2>2 DEF SessionInv, SessionTypeOK, CallRecord, serverVars, tokenVars, viewVars
<1> QED
  BY <1>1, <1>2, ViewKeeps DEF serverVars, tokenVars, viewVars

LEMMA IdleIsKnown ==
    ASSUME SessionInv, NEW c \in Calls, Done(c), UNCHANGED <<serverVars, tokenVars, viewVars>>
    PROVE  SessionInv'
<1>1. Idle \in CallRecord /\ Known(c, Idle)
  BY DEF CallRecord, Known, Idle, Refreshing
<1> QED
  BY <1>1, QuietCall DEF Done

(* A refresh is checked, refused, lost, or begun; a page asks something.   *)
LEMMA QuietSteps ==
    ASSUME SessionInv, NEW c \in Calls, NEW t \in Tabs,
           \/ RefreshCheck(c) \/ RefreshRefused(c) \/ RefreshLost(c) \/ Got401(c)
           \/ Get(t, c) \/ Login(t, c)
    PROVE  SessionInv'
<1>1. call \in [Calls -> CallRecord]
  BY DEF SessionInv, SessionTypeOK, CallRecord
<1>2. call[c] \in CallRecord /\ (call[c].pc # "idle" => call[c].tab \in Tabs)
  BY <1>1 DEF SessionInv, Carried
<1>3. \A u \in Tabs : mine[u] \in Issued \cup {NoPair}
  BY DEF SessionInv, SessionTypeOK
<1>4. \A k : [call EXCEPT ![c] = k] = [d \in Calls |-> IF d = c THEN k ELSE call[d]]
  BY <1>1
<1>5. CASE RefreshCheck(c)
  <2> DEFINE k == [call[c] EXCEPT !.pc = "checked"]
  <2>1. k \in CallRecord
    BY <1>2 DEF CallRecord
  <2>2. k.pc = "checked" /\ k.tab = call[c].tab /\ k.key = call[c].key
    BY <1>2 DEF CallRecord
  <2>3. call[c].pc = "refresh" /\ c \in CallsOf(call[c].tab)
    BY <1>5 DEF RefreshCheck, CallsOf
  <2>4. Known(c, k)
    BY <1>2, <2>2, <2>3 DEF Known, Refreshing, SessionInv, Carried, Loyal
  <2>5. call' = [call EXCEPT ![c] = k]
    BY <1>5 DEF RefreshCheck
  <2> QED
    BY <1>5, <2>1, <2>4, <2>5, QuietCall DEF RefreshCheck
<1>6. CASE RefreshRefused(c) \/ RefreshLost(c)
  <2> DEFINE k == [call[c] EXCEPT !.pc = "refused", !.pair = NoPair, !.key = NoPair]
  <2>1. k \in CallRecord
    BY <1>2 DEF CallRecord
  <2>2. k.pc = "refused" /\ k.tab = call[c].tab /\ k.key = NoPair
    BY <1>2 DEF CallRecord
  <2>3. call[c].pc # "idle"
    BY <1>6 DEF RefreshRefused, RefreshLost
  <2>4. Known(c, k)
    BY <1>2, <2>2, <2>3 DEF Known, Refreshing
  <2>5. call' = [call EXCEPT ![c] = k]
    BY <1>6, <1>1 DEF RefreshRefused, RefreshLost, CallRecord
  <2> QED
    BY <1>6, <2>1, <2>4, <2>5, QuietCall DEF RefreshRefused, RefreshLost
<1>7. CASE Got401(c)
  <2> DEFINE k == [call[c] EXCEPT !.pc = "refresh", !.pair = NoPair, !.key = mine[call[c].tab]]
  <2>1. call[c].pc = "sent" /\ mine[call[c].tab] # NoPair /\ call[c].tab \in Tabs
    BY <1>2, <1>7 DEF Got401
  <2>2. mine[call[c].tab] \in Issued
    BY <1>3, <2>1
  <2>3. k \in CallRecord
    BY <1>2, <2>2 DEF CallRecord
  <2>4. k.pc = "refresh" /\ k.tab = call[c].tab /\ k.key = mine[call[c].tab]
    BY <1>2 DEF CallRecord
  <2>5. Known(c, k)
    BY <2>1, <2>2, <2>4 DEF Known, Refreshing, Same
  <2>6. call' = [call EXCEPT ![c] = k]
    BY <1>7, <1>1 DEF Got401, CallRecord
  <2> QED
    BY <1>7, <2>3, <2>5, <2>6, QuietCall DEF Got401
<1>8. CASE Get(t, c)
  <2> DEFINE k == Sent(t, "get", mine[t])
  <2>1. k \in CallRecord
    BY <1>3 DEF CallRecord, Sent
  <2>2. Known(c, k)
    BY DEF Known, Sent, Refreshing
  <2> QED
    BY <1>8, <2>1, <2>2, QuietCall DEF Get
<1>9. CASE Login(t, c)
  <2> DEFINE k == Sent(t, "login", mine[t])
  <2>1. k \in CallRecord
    BY <1>3 DEF CallRecord, Sent
  <2>2. Known(c, k)
    BY DEF Known, Sent, Refreshing
  <2> QED
    BY <1>9, <2>1, <2>2, QuietCall DEF Login
<1> QED
  BY <1>5, <1>6, <1>7, <1>8, <1>9

(* An answer is taken up, or a call gets none.                             *)
LEMMA CallEnds ==
    ASSUME SessionInv, NEW c \in Calls,
           AnsweredError(c) \/ GetAnswered(c) \/ CallLost(c) \/ UserFetched(c)
    PROVE  SessionInv'
<1>1. call \in [Calls -> CallRecord]
  BY DEF SessionInv, SessionTypeOK, CallRecord
<1>2. call[c] \in CallRecord /\ (call[c].pc # "idle" => call[c].tab \in Tabs)
  BY <1>1 DEF SessionInv, Carried
<1>3. Idle \in CallRecord /\ Known(c, Idle)
  BY DEF CallRecord, Known, Idle, Refreshing
<1>4. CASE AnsweredError(c) \/ GetAnswered(c)
  BY <1>4, IdleIsKnown DEF AnsweredError, GetAnswered
<1>5. CASE CallLost(c)
  <2> DEFINE lost == [call[c] EXCEPT !.pc = "lost"]
             k == IF call[c].what = "login" THEN lost ELSE Idle
  <2>1. Waiting(c) /\ UNCHANGED <<serverVars, tokenVars, overlap>> /\ call' = [call EXCEPT ![c] = k]
    BY <1>5 DEF CallLost, Throw, Done
  <2>2. lost \in CallRecord /\ lost.pc = "lost" /\ lost.tab = call[c].tab /\ lost.key = call[c].key
    BY <1>2 DEF CallRecord
  <2>3. k \in CallRecord
    BY <1>3, <2>2
  <2>4. Known(c, lost)
    BY <1>2, <2>1, <2>2 DEF Known, Waiting, Refreshing
  <2>5. Known(c, k)
    BY <1>3, <2>4
  <2>6. Calling'
    BY <2>1, <2>5, CallMoves DEF SessionInv, Calling, serverVars, tokenVars
  <2>7. call' \in [Calls -> CallRecord]
    BY <1>1, <2>1, <2>3
  <2>8. SessionTypeOK'
    <3>1. Issued' = Issued
      BY <2>1 DEF Issued, serverVars
    <3>2. /\ user' \in [Tabs -> People \cup {Nobody}]
          /\ loading' \in [Tabs -> BOOLEAN]
          /\ path' \in [Tabs -> {"/", "/login"}]
      BY <1>5 DEF CallLost, Throw, SessionInv, SessionTypeOK
    <3> QED
      BY <2>1, <2>7, <3>1, <3>2 DEF SessionInv, SessionTypeOK, CallRecord, serverVars, tokenVars
  <2>9. \A t \in Tabs : user'[t] \in {user[t], Nobody}
    BY <1>5 DEF CallLost, Throw, SessionInv, SessionTypeOK
  <2> QED
    BY <2>1, <2>6, <2>8, <2>9, ViewKeeps DEF serverVars, tokenVars
<1>6. CASE UserFetched(c)
  <2> DEFINE t == call[c].tab
  <2>1. /\ Waiting(c) /\ call[c].what = "me" /\ t \in Tabs
        /\ user' = [user EXCEPT ![t] = owner[call[c].pair]]
        /\ loading' = [loading EXCEPT ![t] = FALSE]
        /\ call' = [call EXCEPT ![c] = Idle]
        /\ UNCHANGED <<serverVars, tokenVars, path, overlap>>
    BY <1>2, <1>6 DEF UserFetched, Show, Done, Waiting
  <2>2. Calling'
    BY <1>3, <2>1, CallMoves DEF SessionInv, Calling, serverVars, tokenVars
  <2>3. call[c].pair \in Issued
    BY <2>1 DEF SessionInv, Carried
  <2>4. owner[call[c].pair] \in People
    BY <2>3 DEF SessionInv, SessionTypeOK, Issued
  <2>5. SessionTypeOK'
    <3>1. Issued' = Issued
      BY <2>1 DEF Issued, serverVars
    <3>2. call' \in [Calls -> CallRecord]
      BY <1>1, <1>3, <2>1
    <3>3. user' \in [Tabs -> People \cup {Nobody}] /\ loading' \in [Tabs -> BOOLEAN]
      BY <2>1, <2>4 DEF SessionInv, SessionTypeOK
    <3> QED
      BY <2>1, <3>1, <3>2, <3>3 DEF SessionInv, SessionTypeOK, CallRecord, serverVars, tokenVars
  <2>6. NoStaleToken'
    BY <2>1 DEF SessionInv, NoStaleToken, tokenVars
  <2>7. SessionAgrees'
    <3>1. c \in CallsOf(t)
      BY DEF CallsOf
    <3>2. ~overlap[t] => owner[mine[t]] = owner[call[c].pair]
      BY <2>1, <3>1 DEF SessionInv, Loyal, Same
    <3>3. \A u \in Tabs : user'[u] = IF u = t THEN owner[call[c].pair] ELSE user[u]
      BY <2>1 DEF SessionInv, SessionTypeOK
    <3> QED
      BY <2>1, <3>2, <3>3 DEF SessionInv, SessionAgrees, serverVars, tokenVars
  <2> QED
    BY <2>2, <2>5, <2>6, <2>7 DEF SessionInv, Calling
<1> QED
  BY <1>4, <1>5, <1>6

-----------------------------------------------------------------------------
(* The next pair is issued: what is known about the earlier ones stays,    *)
(* and none of them is the new one.                                        *)
LEMMA IssueKeeps ==
    ASSUME SessionInv, NEW p \in People, Issue(p)
    PROVE  /\ Issued' = Issued \cup {Fresh} /\ owner'[Fresh] = p
           /\ \A n \in Issued : owner'[n] = owner[n]
           /\ \E n \in 0..MaxPairs : owner' \in [1..n -> People]
           /\ Fresh \notin Issued /\ Fresh # NoPair /\ NoPair \notin Issued
           /\ stored # Fresh /\ Fresh \notin exchanged
           /\ \A t \in Tabs : mine[t] # Fresh
           /\ \A c \in Calls : call[c].key # Fresh /\ call[c].pair # Fresh
<1>1. SessionTypeOK
  BY DEF SessionInv
<1>2. \A c \in Calls : call[c] \in CallRecord
  BY <1>1 DEF SessionTypeOK, CallRecord
<1> QED
  BY <1>1, <1>2, FreshIsNew, IssueAdds DEF SessionTypeOK, CallRecord

LEMMA RotateKeeps ==
    ASSUME SessionInv, NEW c \in Calls, Rotate(c)
    PROVE  SessionInv'
<1> DEFINE k == [call[c] EXCEPT !.pc = "rotated", !.pair = Fresh]
<1>1. call \in [Calls -> CallRecord] /\ call[c] \in CallRecord
  BY DEF SessionInv, SessionTypeOK, CallRecord
<1>2. /\ call[c].pc = "checked" /\ Issue(owner[call[c].key])
      /\ revoked' = revoked \cup {call[c].key}
      /\ UNCHANGED <<expired, over, tokenVars, viewVars>>
  BY DEF Rotate
<1>3. call' = [call EXCEPT ![c] = k]
  BY <1>1 DEF Rotate, CallRecord
<1>4. call[c].key \in Issued /\ call[c].tab \in Tabs
  BY <1>2 DEF SessionInv, Carried, Refreshing
<1>5. owner[call[c].key] \in People
  BY <1>4 DEF SessionInv, SessionTypeOK, Issued
<1>6. k.pc = "rotated" /\ k.tab = call[c].tab /\ k.key = call[c].key /\ k.pair = Fresh
  BY <1>1 DEF CallRecord
<1>7. \A d \in Calls : call'[d] = IF d = c THEN k ELSE call[d]
  BY <1>1, <1>3
<1>8. /\ Issued' = Issued \cup {Fresh} /\ owner'[Fresh] = owner[call[c].key]
      /\ \A n \in Issued : owner'[n] = owner[n]
      /\ \E n \in 0..MaxPairs : owner' \in [1..n -> People]
      /\ Fresh \notin Issued /\ Fresh # NoPair /\ NoPair \notin Issued
      /\ stored # Fresh /\ Fresh \notin exchanged
      /\ \A t \in Tabs : mine[t] # Fresh
      /\ \A d \in Calls : call[d].key # Fresh /\ call[d].pair # Fresh
  BY <1>2, <1>5, IssueKeeps
<1>9. SessionTypeOK'
  <2>2. CallRecord \subseteq CallRecord' /\ k \in CallRecord'
    BY <1>1, <1>4, <1>6, <1>8 DEF CallRecord
  <2>3. call' \in [Calls -> CallRecord']
    BY <1>1, <1>3, <2>2
  <2> QED
    BY <1>2, <1>4, <1>8, <2>3 DEF SessionInv, SessionTypeOK, CallRecord, tokenVars, viewVars
<1>10. Carried'
  <2> SUFFICES ASSUME NEW d \in Calls
               PROVE  /\ call'[d].pc # "idle" => call'[d].tab \in Tabs
                      /\ call'[d].pc \in Refreshing => call'[d].key \in Issued'
                      /\ call'[d].pc \in {"sent", "again"} /\ call'[d].what = "me" =>
                            call'[d].pair \in Issued'
                      /\ call'[d].pc = "rotated" =>
                            /\ call'[d].pair \in Issued'
                            /\ owner'[call'[d].pair] = owner'[call'[d].key]
    BY DEF Carried, Waiting
  <2>1. CASE d = c
    <3>1. call'[d] = k
      BY <1>7, <2>1
    <3>2. owner'[call[c].key] = owner[call[c].key]
      BY <1>4, <1>8
    <3> QED
      BY <1>4, <1>6, <1>8, <3>1, <3>2
  <2>2. CASE d # c
    <3>1. call'[d] = call[d]
      BY <1>7, <2>2
    <3>2. /\ call[d].pc # "idle" => call[d].tab \in Tabs
          /\ call[d].pc \in Refreshing => call[d].key \in Issued
          /\ call[d].pc \in {"sent", "again"} /\ call[d].what = "me" => call[d].pair \in Issued
          /\ call[d].pc = "rotated" =>
                /\ call[d].pair \in Issued /\ call[d].key \in Issued
                /\ owner[call[d].pair] = owner[call[d].key]
      BY DEF SessionInv, Carried, Waiting, Refreshing
    <3> QED
      BY <1>8, <3>1, <3>2
  <2> QED
    BY <2>1, <2>2
<1>11. Private'
  <2> SUFFICES ASSUME NEW d \in Calls, call'[d].pc = "rotated"
               PROVE  /\ call'[d].pair \notin exchanged /\ call'[d].pair # stored
                      /\ \A t \in Tabs : call'[d].pair # mine[t]
                      /\ \A e \in Calls : call'[d].pair # call'[e].key
                      /\ \A e \in Calls \ {d} :
                            call'[e].pc = "rotated" => call'[d].pair # call'[e].pair
    BY <1>2 DEF Private, tokenVars
  <2>1. \A e \in Calls : call'[e].key = call[e].key
    BY <1>6, <1>7
  <2>2. CASE d = c
    <3>1. call'[d].pair = Fresh
      BY <1>6, <1>7, <2>2
    <3>2. \A e \in Calls \ {d} : call'[e] = call[e]
      BY <1>7, <2>2
    <3> QED
      BY <1>8, <2>1, <3>1, <3>2
  <2>3. CASE d # c
    <3>1. call'[d] = call[d]
      BY <1>7, <2>3
    <3>2. /\ call[d].pair \notin exchanged /\ call[d].pair # stored
          /\ \A t \in Tabs : call[d].pair # mine[t]
          /\ \A e \in Calls : call[d].pair # call[e].key
          /\ \A e \in Calls \ {d} : call[e].pc = "rotated" => call[d].pair # call[e].pair
      BY <3>1 DEF SessionInv, Private
    <3>3. call[d].pair # Fresh
      BY <1>8
    <3> QED
      BY <1>6, <1>7, <2>1, <3>1, <3>2, <3>3
  <2> QED
    BY <2>2, <2>3
<1>12. \A t \in Tabs : mine[t] \in Issued \cup {NoPair}
  BY DEF SessionInv, SessionTypeOK
<1>13. Loyal'
  <2> SUFFICES ASSUME NEW t \in Tabs, ~overlap[t], NEW d \in Calls, call'[d].tab = t
               PROVE  /\ call'[d].pc \in Refreshing =>
                            mine[t] # NoPair /\ owner'[call'[d].key] = owner'[mine[t]]
                      /\ call'[d].pc \in {"sent", "again"} /\ call'[d].what = "me" =>
                            mine[t] # NoPair /\ owner'[call'[d].pair] = owner'[mine[t]]
    BY <1>2 DEF Loyal, CallsOf, Same, Waiting, tokenVars, viewVars
  <2>1. ASSUME NEW n \in Issued, Same(t, n)
        PROVE  mine[t] # NoPair /\ owner'[n] = owner'[mine[t]]
    <3>1. mine[t] \in Issued /\ owner[n] = owner[mine[t]]
      BY <1>12, <2>1 DEF Same
    <3> QED
      BY <1>8, <2>1, <3>1 DEF Same
  <2>2. CASE d = c
    <3>1. Same(t, call[c].key)
      BY <1>2, <1>6, <1>7, <2>2 DEF SessionInv, Loyal, CallsOf, Refreshing
    <3> QED
      BY <1>4, <1>6, <1>7, <2>1, <2>2, <3>1
  <2>3. CASE d # c
    <3>1. call'[d] = call[d]
      BY <1>7, <2>3
    <3>2. /\ call[d].pc \in Refreshing => Same(t, call[d].key) /\ call[d].key \in Issued
          /\ call[d].pc \in {"sent", "again"} /\ call[d].what = "me" =>
                Same(t, call[d].pair) /\ call[d].pair \in Issued
      BY <3>1 DEF SessionInv, Loyal, CallsOf, Carried, Waiting
    <3> QED
      BY <2>1, <3>1, <3>2
  <2> QED
    BY <2>2, <2>3
<1>14. NoStaleToken' /\ SessionAgrees'
  BY <1>2, <1>8, <1>12 DEF SessionInv, NoStaleToken, SessionAgrees, tokenVars, viewVars
<1> QED
  BY <1>9, <1>10, <1>11, <1>13, <1>14 DEF SessionInv

(* The new pair reaches its tab.                                           *)
LEMMA RetryKeeps ==
    ASSUME SessionInv, NEW c \in Calls, Retry(c)
    PROVE  SessionInv'
<1> DEFINE t == call[c].tab
           n == call[c].pair
           k == [Sent(t, call[c].what, n) EXCEPT !.pc = "again"]
<1>1. call \in [Calls -> CallRecord] /\ call[c] \in CallRecord
  BY DEF SessionInv, SessionTypeOK, CallRecord
<1>2. /\ call[c].pc = "rotated"
      /\ mine' = [mine EXCEPT ![t] = n] /\ stored' = n
      /\ exchanged' = exchanged \cup {call[c].key}
      /\ call' = [call EXCEPT ![c] = k]
      /\ UNCHANGED <<serverVars, viewVars>>
  BY DEF Retry, setTokens
<1>3. /\ t \in Tabs /\ call[c].key \in Issued /\ n \in Issued
      /\ owner[n] = owner[call[c].key]
  BY <1>2 DEF SessionInv, Carried, Refreshing
<1>4. k.pc = "again" /\ k.tab = t /\ k.pair = n /\ k.key = NoPair /\ k \in CallRecord
  BY <1>1, <1>3 DEF Sent, CallRecord
<1>5. \A d \in Calls : call'[d] = IF d = c THEN k ELSE call[d]
  BY <1>1, <1>2
<1>6. \A u \in Tabs : mine'[u] = IF u = t THEN n ELSE mine[u]
  BY <1>2 DEF SessionInv, SessionTypeOK
<1>7. /\ n \notin exchanged /\ \A d \in Calls : n # call[d].key
      /\ \A d \in Calls \ {c} : call[d].pc = "rotated" => n # call[d].pair
  BY <1>2 DEF SessionInv, Private
<1>8. n # NoPair /\ NoPair \notin Issued
  BY <1>3, FreshIsNew DEF SessionInv
<1>9. Issued' = Issued /\ owner' = owner /\ overlap' = overlap /\ user' = user
  BY <1>2 DEF Issued, serverVars, viewVars
<1>10. SessionTypeOK'
  <2>1. call' \in [Calls -> CallRecord]
    BY <1>1, <1>2, <1>4
  <2>2. mine' \in [Tabs -> Issued \cup {NoPair}]
    BY <1>2, <1>3 DEF SessionInv, SessionTypeOK
  <2>3. /\ expired' = expired /\ revoked' = revoked /\ over' = over
        /\ loading' = loading /\ path' = path
    BY <1>2 DEF serverVars, viewVars
  <2>4. /\ \E m \in 0..MaxPairs : owner \in [1..m -> People]
        /\ expired \in Issued \cup {NoPair} /\ revoked \subseteq Issued /\ over \in BOOLEAN
        /\ user \in [Tabs -> People \cup {Nobody}] /\ loading \in [Tabs -> BOOLEAN]
        /\ path \in [Tabs -> {"/", "/login"}] /\ overlap \in [Tabs -> BOOLEAN]
        /\ exchanged \subseteq Issued
    BY DEF SessionInv, SessionTypeOK
  <2> QED
    BY <1>2, <1>3, <1>9, <2>1, <2>2, <2>3, <2>4 DEF SessionTypeOK, CallRecord
<1>11. Carried'
  BY <1>3, <1>4, <1>5, <1>9 DEF SessionInv, Carried, Waiting, Refreshing
<1>12. Private'
  <2> SUFFICES ASSUME NEW d \in Calls, call'[d].pc = "rotated"
               PROVE  /\ call'[d].pair \notin exchanged' /\ call'[d].pair # stored'
                      /\ \A u \in Tabs : call'[d].pair # mine'[u]
                      /\ \A e \in Calls : call'[d].pair # call'[e].key
                      /\ \A e \in Calls \ {d} :
                            call'[e].pc = "rotated" => call'[d].pair # call'[e].pair
    BY DEF Private
  <2>1. d # c /\ call'[d] = call[d]
    BY <1>4, <1>5
  <2>2. /\ call[d].pair \notin exchanged /\ call[d].pair # stored
        /\ \A u \in Tabs : call[d].pair # mine[u]
        /\ \A e \in Calls : call[d].pair # call[e].key
        /\ \A e \in Calls \ {d} : call[e].pc = "rotated" => call[d].pair # call[e].pair
    BY <2>1 DEF SessionInv, Private
  <2>3. call[d].pair # n /\ call[d].pair # NoPair
    BY <1>2, <1>8, <2>1, <2>2 DEF SessionInv, Carried
  <2> QED
    BY <1>2, <1>4, <1>5, <1>6, <2>1, <2>2, <2>3
<1>13. c \in CallsOf(t)
  BY DEF CallsOf
<1>14. ~overlap[t] => mine[t] # NoPair /\ owner[n] = owner[mine[t]]
  BY <1>2, <1>3, <1>13 DEF SessionInv, Loyal, Same, Refreshing
<1>15. Loyal'
  <2> SUFFICES ASSUME NEW u \in Tabs, ~overlap[u], NEW d \in Calls, call'[d].tab = u
               PROVE  /\ call'[d].pc \in Refreshing =>
                            mine'[u] # NoPair /\ owner[call'[d].key] = owner[mine'[u]]
                      /\ call'[d].pc \in {"sent", "again"} /\ call'[d].what = "me" =>
                            mine'[u] # NoPair /\ owner[call'[d].pair] = owner[mine'[u]]
    BY <1>9 DEF Loyal, CallsOf, Same, Waiting
  <2>1. CASE d = c
    BY <1>4, <1>5, <1>6, <1>8, <2>1 DEF Refreshing
  <2>2. CASE d # c
    <3>1. call'[d] = call[d]
      BY <1>5, <2>2
    <3>2. /\ call[d].pc \in Refreshing => Same(u, call[d].key)
          /\ call[d].pc \in {"sent", "again"} /\ call[d].what = "me" => Same(u, call[d].pair)
      BY <3>1 DEF SessionInv, Loyal, CallsOf, Waiting
    <3>3. Same(u, call[d].key) => mine'[u] # NoPair /\ owner[call[d].key] = owner[mine'[u]]
      BY <1>6, <1>8, <1>14 DEF Same
    <3>4. Same(u, call[d].pair) => mine'[u] # NoPair /\ owner[call[d].pair] = owner[mine'[u]]
      BY <1>6, <1>8, <1>14 DEF Same
    <3> QED
      BY <3>1, <3>2, <3>3, <3>4
  <2> QED
    BY <2>1, <2>2
<1>16. NoStaleToken'
  BY <1>2, <1>7 DEF NoStaleToken
<1>17. SessionAgrees'
  BY <1>6, <1>9, <1>14 DEF SessionInv, SessionAgrees
<1> QED
  BY <1>10, <1>11, <1>12, <1>15, <1>16, <1>17 DEF SessionInv

LEMMA LoggedInKeeps ==
    ASSUME SessionInv, NEW c \in Calls, NEW p \in People, LoggedIn(c, p)
    PROVE  SessionInv'
<1> DEFINE t == call[c].tab
<1>1. call \in [Calls -> CallRecord] /\ call[c] \in CallRecord
  BY DEF SessionInv, SessionTypeOK, CallRecord
<1>2. /\ Waiting(c) /\ Issue(p)
      /\ mine' = [mine EXCEPT ![t] = Fresh] /\ stored' = Fresh
      /\ user' = [user EXCEPT ![t] = p]
      /\ path' = [path EXCEPT ![t] = "/"]
      /\ overlap' = [overlap EXCEPT ![t] = @ \/ ~Alone(c)]
      /\ call' = [call EXCEPT ![c] = Idle]
      /\ UNCHANGED <<expired, revoked, over, exchanged, loading>>
  BY DEF LoggedIn, setTokens, Show, Go, Done
<1>3. t \in Tabs
  BY <1>2 DEF SessionInv, Carried, Waiting
<1>4. Idle \in CallRecord /\ Idle.pc = "idle" /\ Idle.key = NoPair
  BY DEF Idle, CallRecord
<1>5. /\ Issued' = Issued \cup {Fresh} /\ owner'[Fresh] = p
      /\ \A n \in Issued : owner'[n] = owner[n]
      /\ \E n \in 0..MaxPairs : owner' \in [1..n -> People]
      /\ Fresh \notin Issued /\ Fresh # NoPair /\ NoPair \notin Issued
      /\ stored # Fresh /\ Fresh \notin exchanged
      /\ \A u \in Tabs : mine[u] # Fresh
      /\ \A d \in Calls : call[d].key # Fresh /\ call[d].pair # Fresh
  BY <1>2, IssueKeeps
<1>6. \A d \in Calls : call'[d] = IF d = c THEN Idle ELSE call[d]
  BY <1>1, <1>2
<1>7. /\ \A u \in Tabs : mine'[u] = IF u = t THEN Fresh ELSE mine[u]
      /\ \A u \in Tabs : user'[u] = IF u = t THEN p ELSE user[u]
      /\ \A u \in Tabs : overlap'[u] = IF u = t THEN overlap[t] \/ ~Alone(c) ELSE overlap[u]
  BY <1>2 DEF SessionInv, SessionTypeOK
<1>8. \A u \in Tabs : mine[u] \in Issued \cup {NoPair}
  BY DEF SessionInv, SessionTypeOK
<1>9. SessionTypeOK'
  <2>1. CallRecord \subseteq CallRecord'
    BY <1>5 DEF CallRecord
  <2>2. call' \in [Calls -> CallRecord']
    BY <1>1, <1>2, <1>4, <2>1
  <2>3. mine' \in [Tabs -> Issued' \cup {NoPair}] /\ stored' \in Issued'
    BY <1>2, <1>5 DEF SessionInv, SessionTypeOK
  <2>4. /\ user' \in [Tabs -> People \cup {Nobody}] /\ path' \in [Tabs -> {"/", "/login"}]
        /\ overlap' \in [Tabs -> BOOLEAN]
    BY <1>2 DEF SessionInv, SessionTypeOK, Alone
  <2> QED
    BY <1>2, <1>5, <2>2, <2>3, <2>4 DEF SessionInv, SessionTypeOK, CallRecord
<1>10. Carried'
  <2> SUFFICES ASSUME NEW d \in Calls, d # c
               PROVE  /\ call[d].pc # "idle" => call[d].tab \in Tabs
                      /\ call[d].pc \in Refreshing => call[d].key \in Issued'
                      /\ call[d].pc \in {"sent", "again"} /\ call[d].what = "me" =>
                            call[d].pair \in Issued'
                      /\ call[d].pc = "rotated" =>
                            /\ call[d].pair \in Issued'
                            /\ owner'[call[d].pair] = owner'[call[d].key]
    BY <1>4, <1>6 DEF Carried, Waiting, Refreshing
  <2>1. /\ call[d].pc # "idle" => call[d].tab \in Tabs
        /\ call[d].pc \in Refreshing => call[d].key \in Issued
        /\ call[d].pc \in {"sent", "again"} /\ call[d].what = "me" => call[d].pair \in Issued
        /\ call[d].pc = "rotated" =>
              /\ call[d].pair \in Issued /\ call[d].key \in Issued
              /\ owner[call[d].pair] = owner[call[d].key]
    BY DEF SessionInv, Carried, Waiting, Refreshing
  <2> QED
    BY <1>5, <2>1
<1>11. Private'
  <2> SUFFICES ASSUME NEW d \in Calls, d # c, call[d].pc = "rotated"
               PROVE  /\ call[d].pair \notin exchanged /\ call[d].pair # Fresh
                      /\ \A u \in Tabs : call[d].pair # mine'[u]
                      /\ \A e \in Calls : call[d].pair # call'[e].key
                      /\ \A e \in Calls \ {d} :
                            call'[e].pc = "rotated" => call[d].pair # call'[e].pair
    BY <1>2, <1>4, <1>6 DEF Private
  <2>1. /\ call[d].pair \notin exchanged /\ call[d].pair # stored
        /\ \A u \in Tabs : call[d].pair # mine[u]
        /\ \A e \in Calls : call[d].pair # call[e].key
        /\ \A e \in Calls \ {d} : call[e].pc = "rotated" => call[d].pair # call[e].pair
    BY DEF SessionInv, Private
  <2>2. call[d].pair # NoPair
    BY <1>5 DEF SessionInv, Carried
  <2> QED
    BY <1>4, <1>5, <1>6, <1>7, <2>1, <2>2
<1>12. Loyal'
  <2> SUFFICES ASSUME NEW u \in Tabs, ~overlap'[u], NEW d \in Calls, d # c, call[d].tab = u
               PROVE  /\ call[d].pc \in Refreshing =>
                            mine'[u] # NoPair /\ owner'[call[d].key] = owner'[mine'[u]]
                      /\ call[d].pc \in {"sent", "again"} /\ call[d].what = "me" =>
                            mine'[u] # NoPair /\ owner'[call[d].pair] = owner'[mine'[u]]
    BY <1>4, <1>6 DEF Loyal, CallsOf, Same, Waiting, Refreshing
  <2>1. u # t
    <3> SUFFICES ASSUME u = t PROVE FALSE
      OBVIOUS
    <3>1. Alone(c)
      BY <1>7
    <3> QED
      BY <3>1 DEF Alone, CallsOf
  <2>2. mine'[u] = mine[u] /\ ~overlap[u]
    BY <1>7, <2>1
  <2>3. /\ call[d].pc \in Refreshing => Same(u, call[d].key) /\ call[d].key \in Issued
        /\ call[d].pc \in {"sent", "again"} /\ call[d].what = "me" =>
              Same(u, call[d].pair) /\ call[d].pair \in Issued
    BY <2>2 DEF SessionInv, Loyal, CallsOf, Carried, Waiting
  <2> QED
    BY <1>5, <1>8, <2>2, <2>3 DEF Same
<1>13. NoStaleToken'
  BY <1>2, <1>5 DEF NoStaleToken
<1>14. SessionAgrees'
  <2> SUFFICES ASSUME NEW u \in Tabs, ~overlap'[u], user'[u] # Nobody, mine'[u] # NoPair
               PROVE  owner'[mine'[u]] = user'[u]
    BY DEF SessionAgrees
  <2>1. CASE u = t
    BY <1>5, <1>7, <2>1
  <2>2. CASE u # t
    <3>1. mine'[u] = mine[u] /\ user'[u] = user[u] /\ ~overlap[u]
      BY <1>7, <2>2
    <3> QED
      BY <1>5, <1>8, <3>1 DEF SessionInv, SessionAgrees
  <2> QED
    BY <2>1, <2>2
<1> QED
  BY <1>9, <1>10, <1>11, <1>12, <1>13, <1>14 DEF SessionInv

LEMMA LogoutKeeps ==
    ASSUME SessionInv, NEW t \in Tabs, logout(t)
    PROVE  SessionInv'
<1>1. /\ mine' = [mine EXCEPT ![t] = NoPair] /\ stored' = NoPair
      /\ user' = [user EXCEPT ![t] = Nobody]
      /\ path' = [path EXCEPT ![t] = "/login"]
      /\ overlap' = [overlap EXCEPT ![t] = @ \/ CallsOf(t) # {}]
      /\ UNCHANGED <<serverVars, exchanged, loading, call>>
  BY DEF logout, clearTokens, Show, Go
<1>2. /\ \A u \in Tabs : mine'[u] = IF u = t THEN NoPair ELSE mine[u]
      /\ \A u \in Tabs : user'[u] = IF u = t THEN Nobody ELSE user[u]
      /\ \A u \in Tabs : overlap'[u] = IF u = t THEN overlap[t] \/ CallsOf(t) # {} ELSE overlap[u]
  BY <1>1 DEF SessionInv, SessionTypeOK
<1>3. Issued' = Issued /\ owner' = owner /\ call' = call /\ exchanged' = exchanged
  BY <1>1 DEF Issued, serverVars
<1>4. NoPair \notin Issued
  BY FreshIsNew DEF SessionInv
<1>5. SessionTypeOK'
  <2>1. /\ user' \in [Tabs -> People \cup {Nobody}] /\ path' \in [Tabs -> {"/", "/login"}]
        /\ overlap' \in [Tabs -> BOOLEAN] /\ mine' \in [Tabs -> Issued \cup {NoPair}]
    BY <1>1 DEF SessionInv, SessionTypeOK
  <2>2. /\ expired' = expired /\ revoked' = revoked /\ over' = over /\ loading' = loading
    BY <1>1 DEF serverVars
  <2>3. /\ \E m \in 0..MaxPairs : owner \in [1..m -> People]
        /\ expired \in Issued \cup {NoPair} /\ revoked \subseteq Issued /\ over \in BOOLEAN
        /\ loading \in [Tabs -> BOOLEAN] /\ call \in [Calls -> CallRecord]
        /\ exchanged \subseteq Issued
    BY DEF SessionInv, SessionTypeOK, CallRecord
  <2> QED
    BY <1>1, <1>3, <2>1, <2>2, <2>3 DEF SessionTypeOK, CallRecord
<1>6. Carried'
  BY <1>3 DEF SessionInv, Carried, Waiting
<1>7. Private'
  BY <1>1, <1>2, <1>3, <1>4 DEF SessionInv, Private, Carried
<1>8. Loyal'
  <2> SUFFICES ASSUME NEW u \in Tabs, ~overlap'[u], NEW d \in Calls, call[d].tab = u
               PROVE  /\ call[d].pc \in Refreshing => Same(u, call[d].key)
                      /\ Waiting(d) /\ call[d].what = "me" => Same(u, call[d].pair)
                      /\ mine'[u] = mine[u]
    BY <1>3 DEF Loyal, CallsOf, Same, Waiting
  <2>1. u # t
    BY <1>2 DEF CallsOf
  <2> QED
    BY <1>2, <2>1 DEF SessionInv, Loyal, CallsOf
<1>9. NoStaleToken'
  BY <1>1, <1>3, <1>4 DEF SessionInv, SessionTypeOK, NoStaleToken
<1>10. SessionAgrees'
  BY <1>2, <1>3 DEF SessionInv, SessionAgrees
<1> QED
  BY <1>5, <1>6, <1>7, <1>8, <1>9, <1>10 DEF SessionInv

(* A tab loads again, with the pair in localStorage or with none.          *)
LEMMA ReloadKeeps ==
    ASSUME SessionInv, NEW t \in Tabs, NEW n \in {stored, NoPair},
           NEW where \in {"/", "/login"}, Reload(t, n, where)
    PROVE  SessionInv'
<1> DEFINE rest == [c \in Calls |-> IF call[c].tab = t THEN Idle ELSE call[c]]
<1>1. /\ stored' = n /\ mine' = [mine EXCEPT ![t] = n]
      /\ user' = [user EXCEPT ![t] = Nobody]
      /\ loading' = [loading EXCEPT ![t] = n # NoPair]
      /\ path' = [path EXCEPT ![t] = IF n = NoPair THEN "/login" ELSE where]
      /\ overlap' = [overlap EXCEPT ![t] = FALSE]
      /\ UNCHANGED <<owner, expired, over, exchanged>>
      /\ call' \in Loaded(t, n)
  BY DEF Reload
<1>2. PICK done \in SUBSET {c \in CallsOf(t) : call[c].pc \in {"refresh", "checked"}} :
        revoked' = revoked \cup {call[c].key : c \in done}
  BY DEF Reload
<1>3. call \in [Calls -> CallRecord]
  BY DEF SessionInv, SessionTypeOK, CallRecord
<1>4. n \in Issued \cup {NoPair} /\ NoPair \notin Issued
  BY FreshIsNew DEF SessionInv, SessionTypeOK
<1>5. /\ Idle \in CallRecord /\ Sent(t, "me", n) \in CallRecord
      /\ Idle.pc = "idle" /\ Idle.key = NoPair
      /\ Sent(t, "me", n).pc = "sent" /\ Sent(t, "me", n).key = NoPair
      /\ Sent(t, "me", n).pair = n /\ Sent(t, "me", n).tab = t
  BY <1>4 DEF Idle, Sent, CallRecord
<1>6. Issued' = Issued /\ owner' = owner /\ exchanged' = exchanged
  BY <1>1 DEF Issued
<1>7. rest \in [Calls -> CallRecord]
  BY <1>3, <1>5
<1>8. call' \in [Calls -> CallRecord]
  BY <1>1, <1>5, <1>7 DEF Loaded
<1>9. ASSUME NEW c \in Calls
      PROVE  \/ call'[c] = Idle
             \/ call'[c] = Sent(t, "me", n) /\ n \in Issued
             \/ call'[c] = call[c] /\ call[c].tab # t
  <2>1. CASE n = NoPair
    BY <1>1, <2>1 DEF Loaded
  <2>2. CASE n # NoPair
    <3>1. PICK e \in Calls : call' = [rest EXCEPT ![e] = Sent(t, "me", n)]
      BY <1>1, <2>2 DEF Loaded
    <3>2. call'[c] = IF c = e THEN Sent(t, "me", n) ELSE rest[c]
      BY <1>7, <3>1
    <3> QED
      BY <1>4, <2>2, <3>2
  <2> QED
    BY <2>1, <2>2
<1>10. /\ \A u \in Tabs : mine'[u] = IF u = t THEN n ELSE mine[u]
       /\ \A u \in Tabs : user'[u] = IF u = t THEN Nobody ELSE user[u]
       /\ \A u \in Tabs : overlap'[u] = IF u = t THEN FALSE ELSE overlap[u]
  BY <1>1 DEF SessionInv, SessionTypeOK
<1>11. SessionTypeOK'
  <2>1. /\ user' \in [Tabs -> People \cup {Nobody}] /\ path' \in [Tabs -> {"/", "/login"}]
        /\ overlap' \in [Tabs -> BOOLEAN] /\ mine' \in [Tabs -> Issued \cup {NoPair}]
        /\ loading' \in [Tabs -> BOOLEAN]
    BY <1>1, <1>4 DEF SessionInv, SessionTypeOK
  <2>2. revoked' \subseteq Issued
    <3>1. \A c \in done : call[c].key \in Issued
      BY DEF SessionInv, Carried, Refreshing, CallsOf
    <3>2. revoked \subseteq Issued
      BY DEF SessionInv, SessionTypeOK
    <3> QED
      BY <1>2, <3>1, <3>2
  <2>3. /\ \E m \in 0..MaxPairs : owner \in [1..m -> People]
        /\ expired \in Issued \cup {NoPair} /\ over \in BOOLEAN /\ exchanged \subseteq Issued
    BY DEF SessionInv, SessionTypeOK
  <2> QED
    <3>1. stored' \in Issued \cup {NoPair} /\ expired' = expired /\ over' = over
      BY <1>1, <1>4
    <3> QED
      BY <1>6, <1>8, <2>1, <2>2, <2>3, <3>1 DEF SessionTypeOK, CallRecord
<1>12. Carried'
  <2> SUFFICES ASSUME NEW c \in Calls
               PROVE  /\ call'[c].pc # "idle" => call'[c].tab \in Tabs
                      /\ call'[c].pc \in Refreshing => call'[c].key \in Issued
                      /\ call'[c].pc \in {"sent", "again"} /\ call'[c].what = "me" =>
                            call'[c].pair \in Issued
                      /\ call'[c].pc = "rotated" =>
                            /\ call'[c].pair \in Issued
                            /\ owner[call'[c].pair] = owner[call'[c].key]
    BY <1>6 DEF Carried, Waiting
  <2>1. CASE call'[c] = call[c]
    BY <2>1 DEF SessionInv, Carried, Waiting
  <2>2. CASE call'[c] # call[c]
    BY <1>5, <1>9, <2>2 DEF Refreshing
  <2> QED
    BY <2>1, <2>2
<1>13. Private'
  <2> SUFFICES ASSUME NEW d \in Calls, call'[d].pc = "rotated"
               PROVE  /\ call'[d].pair \notin exchanged /\ call'[d].pair # n
                      /\ \A u \in Tabs : call'[d].pair # mine'[u]
                      /\ \A e \in Calls : call'[d].pair # call'[e].key
                      /\ \A e \in Calls \ {d} :
                            call'[e].pc = "rotated" => call'[d].pair # call'[e].pair
    BY <1>1, <1>6 DEF Private
  <2>1. call'[d] = call[d]
    BY <1>5, <1>9
  <2>2. /\ call[d].pair \notin exchanged /\ call[d].pair # stored
        /\ \A u \in Tabs : call[d].pair # mine[u]
        /\ \A e \in Calls : call[d].pair # call[e].key
        /\ \A e \in Calls \ {d} : call[e].pc = "rotated" => call[d].pair # call[e].pair
    BY <2>1 DEF SessionInv, Private
  <2>3. call[d].pair # NoPair
    BY <1>4, <2>1 DEF SessionInv, Carried
  <2> QED
    BY <1>5, <1>9, <1>10, <2>1, <2>2, <2>3
<1>14. Loyal'
  <2> SUFFICES ASSUME NEW u \in Tabs, ~overlap'[u], NEW d \in Calls, call'[d].tab = u
               PROVE  /\ call'[d].pc \in Refreshing =>
                            mine'[u] # NoPair /\ owner[call'[d].key] = owner[mine'[u]]
                      /\ call'[d].pc \in {"sent", "again"} /\ call'[d].what = "me" =>
                            mine'[u] # NoPair /\ owner[call'[d].pair] = owner[mine'[u]]
    BY <1>6 DEF Loyal, CallsOf, Same, Waiting
  <2>1. CASE call'[d] = Idle
    BY <1>5, <2>1 DEF Refreshing
  <2>2. CASE call'[d] = Sent(t, "me", n) /\ n \in Issued
    BY <1>4, <1>5, <1>10, <2>2 DEF Refreshing
  <2>3. CASE call'[d] = call[d] /\ call[d].tab # t
    <3>1. u # t
      BY <2>3
    <3>2. mine'[u] = mine[u] /\ ~overlap[u]
      BY <1>10, <3>1
    <3>3. /\ call[d].pc \in Refreshing => Same(u, call[d].key)
          /\ call[d].pc \in {"sent", "again"} /\ call[d].what = "me" => Same(u, call[d].pair)
      BY <2>3, <3>2 DEF SessionInv, Loyal, CallsOf, Waiting
    <3> QED
      BY <2>3, <3>2, <3>3 DEF Same
  <2> QED
    BY <1>9, <2>1, <2>2, <2>3
<1>15. NoStaleToken' /\ SessionAgrees'
  BY <1>1, <1>4, <1>6, <1>10 DEF SessionInv, SessionTypeOK, NoStaleToken, SessionAgrees
<1> QED
  BY <1>11, <1>12, <1>13, <1>14, <1>15 DEF SessionInv

LEMMA TimePasses ==
    ASSUME SessionInv, AccessExpires \/ \E p \in People : SessionEnds(p)
    PROVE  SessionInv'
<1>1. UNCHANGED <<owner, tokenVars, viewVars, call>>
  BY DEF AccessExpires, SessionEnds
<1>2. Issued' = Issued
  BY <1>1 DEF Issued
<1>3. expired' \in Issued \cup {NoPair} /\ revoked' \subseteq Issued /\ over' \in BOOLEAN
  BY DEF AccessExpires, SessionEnds, SessionInv, SessionTypeOK
<1>4. SessionTypeOK'
  BY <1>1, <1>2, <1>3 DEF SessionInv, SessionTypeOK, tokenVars, viewVars
<1>5. Carried' /\ Private' /\ Loyal'
  BY <1>1, <1>2 DEF SessionInv, Carried, Private, Loyal, Waiting, Same, CallsOf, tokenVars, viewVars
<1>6. NoStaleToken' /\ SessionAgrees'
  BY <1>1 DEF SessionInv, NoStaleToken, SessionAgrees, tokenVars, viewVars
<1> QED
  BY <1>4, <1>5, <1>6 DEF SessionInv

-----------------------------------------------------------------------------
LEMMA NextKeeps == SessionInv /\ [SessionNext]_sessionVars => SessionInv'
<1> SUFFICES ASSUME SessionInv, [SessionNext]_sessionVars PROVE SessionInv'
  OBVIOUS
<1>1. CASE AccessExpires \/ \E p \in People : SessionEnds(p)
  BY <1>1, TimePasses
<1>2. ASSUME NEW c \in Calls, SessionStep(c) PROVE SessionInv'
  <2>1. CASE RefreshCheck(c) \/ RefreshRefused(c) \/ RefreshLost(c) \/ Got401(c)
    <3>1. call[c].tab \in Tabs
      BY <2>1 DEF RefreshCheck, RefreshRefused, RefreshLost, Got401, SessionInv, Carried
    <3> QED
      BY <2>1, <3>1, QuietSteps
  <2>2. CASE \E t \in Tabs : Get(t, c) \/ Login(t, c)
    BY <2>2, QuietSteps
  <2>3. CASE AnsweredError(c) \/ GetAnswered(c) \/ CallLost(c) \/ UserFetched(c)
    BY <2>3, CallEnds
  <2>4. CASE Rotate(c)
    BY <2>4, RotateKeeps
  <2>5. CASE Retry(c)
    BY <2>5, RetryKeeps
  <2>6. CASE \E p \in People : LoggedIn(c, p)
    BY <2>6, LoggedInKeeps
  <2>7. CASE MustChange(c)
    <3>1. call[c].tab \in Tabs /\ Reload(call[c].tab, stored, "/")
      BY <2>7 DEF MustChange, SessionInv, Carried
    <3> QED
      BY <3>1, ReloadKeeps
  <2>8. CASE Expel(c)
    <3>1. call[c].tab \in Tabs /\ Reload(call[c].tab, NoPair, "/login")
      BY <2>8 DEF Expel, SessionInv, Carried
    <3> QED
      BY <3>1, ReloadKeeps
  <2> QED
    BY <1>2, <2>1, <2>2, <2>3, <2>4, <2>5, <2>6, <2>7, <2>8 DEF SessionStep
<1>3. ASSUME NEW t \in Tabs, logout(t) \/ Reload(t, stored, path[t]) PROVE SessionInv'
  <2>1. path[t] \in {"/", "/login"}
    BY DEF SessionInv, SessionTypeOK
  <2> QED
    BY <1>3, <2>1, LogoutKeeps, ReloadKeeps
<1>4. CASE UNCHANGED sessionVars
  <2>1. UNCHANGED <<serverVars, tokenVars, viewVars, call>>
    BY <1>4 DEF sessionVars
  <2>2. Issued' = Issued
    BY <2>1 DEF Issued, serverVars
  <2>3. SessionTypeOK'
    BY <2>1, <2>2 DEF SessionInv, SessionTypeOK, serverVars, tokenVars, viewVars
  <2>4. Carried' /\ Private' /\ Loyal'
    BY <2>1, <2>2 DEF SessionInv, Carried, Private, Loyal, Waiting, Same, CallsOf,
                      serverVars, tokenVars, viewVars
  <2>5. NoStaleToken' /\ SessionAgrees'
    BY <2>1 DEF SessionInv, NoStaleToken, SessionAgrees, serverVars, tokenVars, viewVars
  <2> QED
    BY <2>3, <2>4, <2>5 DEF SessionInv
<1> QED
  BY <1>1, <1>2, <1>3, <1>4 DEF SessionNext

(* Whatever the tabs, the people and the number of pairs, every state the  *)
(* tabs and the refresh handler reach satisfies the invariant above.       *)
THEOREM SessionInvariant == SessionSpec => []SessionInv
  BY InitHolds, NextKeeps, PTL DEF SessionSpec

(* api.ts and auth.ts only ever hold pairs the server has issued, and a    *)
(* call is always one of a tab that exists.                                *)
THEOREM SessionTypeCorrect == SessionSpec => []SessionTypeOK
<1>1. SessionInv => SessionTypeOK
  BY DEF SessionInv
<1> QED
  BY <1>1, SessionInvariant, PTL

(* refreshAccessToken and setTokens: in whatever order calls and tabs are  *)
(* answered, localStorage never holds a pair that was exchanged already.   *)
THEOREM StoredIsFresh == SessionSpec => []NoStaleToken
<1>1. SessionInv => NoStaleToken
  BY DEF SessionInv
<1> QED
  BY <1>1, SessionInvariant, PTL

(* login, logout and fetchUser: unless the user logged in or out while a   *)
(* call was in flight, the user shown is the one the tokens belong to.     *)
THEOREM ShownIsOwner == SessionSpec => []SessionAgrees
<1>1. SessionInv => SessionAgrees
  BY DEF SessionInv
<1> QED
  BY <1>1, SessionInvariant, PTL
=============================================================================
