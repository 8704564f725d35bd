----------------------- MODULE Subscriptions_proofs -----------------------
(***************************************************************************)
(* No user loses his last subscription, an acknowledged checkout is kept,   *)
(* and only overlapping requests give a user two active subscriptions: for  *)
(* any users, requests, events, plans and failures.                         *)
(***************************************************************************)
EXTENDS Subscriptions, FiniteSetTheorems, WellFoundedInduction, TLAPS

StripeStatus == {"none", "active", "past_due", "canceled"}
Writes == [cancel : SUBSET Row, insert : SUBSET Plans, month : BOOLEAN,
           side : {"keep", "active", "past_due", "canceled"}]
Status == {"none", "200", "400", "500", "503"}

TypeOK ==
    /\ subs \subseteq Row
    /\ side \in [Users -> StripeStatus]
    /\ pc \in [Requests -> {"absent", "idle", "looked", "ending", "raised", "done"}]
    /\ seen \in [Requests -> [subs : SUBSET Row, side : StripeStatus]]
    /\ staged \in [Requests -> Writes]
    /\ answer \in [Requests -> Status]
    /\ commits \in [Requests -> Nat]
    /\ overlapped \subseteq Users

\* What a request about to commit may have staged.
Sound(r, w) ==
    /\ w \in Writes
    /\ w.cancel \subseteq seen[r].subs
    /\ w.cancel # {} => w.insert # {}
    /\ w.insert # {} /\ seen[r].subs # {} => w.cancel # {}
    /\ \A p, q \in w.insert : p = q
    /\ r \in Events /\ KindOf[r] = "completed" => w.insert = {PlanOf[r]} /\ w.side = "active"

\* What a session knows: it cancels rows of its own user, which it has seen active.
SessionInv(r) ==
    /\ \A s \in seen[r].subs : s.active /\ UserOf[s.by] = UserOf[r]
    /\ staged[r].cancel \subseteq seen[r].subs
    /\ pc[r] \notin {"ending", "raised"} => staged[r].cancel = {}
    /\ pc[r] = "ending" => Sound(r, staged[r])
    /\ pc[r] = "raised" => answer[r] # "200"

\* Unless somebody committed meanwhile, what it has seen is what there is.
CurrentInv(r) == Open(r) /\ UserOf[r] \notin overlapped => seen[r].subs = Active(UserOf[r])

OneUnlessOverlapped ==
    \A u \in Users \ overlapped : \A s, t \in Active(u) : s = t

SubscriptionsInv ==
    /\ TypeOK
    /\ \A r \in Requests : SessionInv(r) /\ CurrentInv(r)
    /\ OneUnlessOverlapped
    /\ AcknowledgedIsKept

LEMMA SubscriptionsInit == Init => SubscriptionsInv
<1> SUFFICES ASSUME Init PROVE SubscriptionsInv
  OBVIOUS
<1> USE SubscriptionsAssumption
<1>1. Nothing \in Writes
  BY DEF Nothing, Writes
<1>2. TypeOK
  BY <1>1 DEF Init, TypeOK, StripeStatus, Status
<1>3. \A r \in Requests : SessionInv(r) /\ CurrentInv(r)
  BY DEF Init, SessionInv, CurrentInv, Open, Nothing
<1>4. OneUnlessOverlapped /\ AcknowledgedIsKept
  BY DEF Init, OneUnlessOverlapped, AcknowledgedIsKept, Active, Requests
<1> QED  BY <1>2, <1>3, <1>4 DEF SubscriptionsInv

\* A step inside one session: the tables stay, the session may look, stage or end.
LEMMA Inside ==
    ASSUME SubscriptionsInv, NEW r \in Requests,
           UNCHANGED <<tables, commits, overlapped>>,
           \A q \in Requests \ {r} : /\ pc'[q] = pc[q] /\ seen'[q] = seen[q]
                                     /\ staged'[q] = staged[q] /\ answer'[q] = answer[q],
           TypeOK', SessionInv(r)', CurrentInv(r)',
           answer'[r] = "200" => answer[r] = "200"
    PROVE  SubscriptionsInv'
<1>1. \A q \in Requests : SessionInv(q)' /\ CurrentInv(q)'
  <2> TAKE q \in Requests
  <2>1. CASE q = r
    BY <2>1
  <2>2. CASE q # r
    <3>1. SessionInv(q) /\ CurrentInv(q)
      BY DEF SubscriptionsInv
    <3>2. pc'[q] = pc[q] /\ seen'[q] = seen[q] /\ staged'[q] = staged[q] /\ answer'[q] = answer[q]
      BY <2>2
    <3> QED  BY <3>1, <3>2 DEF SessionInv, CurrentInv, Sound, Open, Active, tables
  <2> QED  BY <2>1, <2>2
<1>2. OneUnlessOverlapped'
  BY DEF SubscriptionsInv, OneUnlessOverlapped, Active, tables
<1>3. AcknowledgedIsKept'
  <2>1. \A e \in Events : answer'[e] = "200" => answer[e] = "200"
    BY DEF Requests
  <2> QED  BY <2>1 DEF SubscriptionsInv, AcknowledgedIsKept, tables
<1> QED  BY <1>1, <1>2, <1>3 DEF SubscriptionsInv

LEMMA LookStep ==
    ASSUME SubscriptionsInv, NEW r \in Requests, pc[r] = "idle", Look(r)
    PROVE  SubscriptionsInv'
<1>1. TypeOK /\ SessionInv(r)
  BY DEF SubscriptionsInv
<1>2. UserOf[r] \in Users
  BY SubscriptionsAssumption
<1>3. /\ seen'[r].subs = Active(UserOf[r]) /\ pc'[r] = "looked" /\ staged'[r] = staged[r]
      /\ answer' = answer /\ subs' = subs
      /\ \A q \in Requests \ {r} : pc'[q] = pc[q] /\ seen'[q] = seen[q]
  BY <1>1 DEF Look, TypeOK, tables
<1>4. Active(UserOf[r]) \in SUBSET Row /\ side[UserOf[r]] \in StripeStatus
  BY <1>1, <1>2 DEF TypeOK, Active
<1>5. TypeOK'
  BY <1>1, <1>4 DEF Look, TypeOK, tables
<1>6. SessionInv(r)'
  BY <1>1, <1>3 DEF SessionInv, Active
<1>7. CurrentInv(r)'
  BY <1>3 DEF CurrentInv, Active
<1> QED  BY <1>3, <1>5, <1>6, <1>7, Inside DEF Look

LEMMA StageStep ==
    ASSUME SubscriptionsInv, NEW r \in Requests, NEW w, pc[r] = "looked",
           Stage(r, w), Sound(r, w)
    PROVE  SubscriptionsInv'
<1>1. TypeOK /\ SessionInv(r) /\ CurrentInv(r)
  BY DEF SubscriptionsInv
<1>2. /\ seen' = seen /\ pc'[r] = "ending" /\ staged'[r] = w /\ answer' = answer
      /\ \A q \in Requests \ {r} : pc'[q] = pc[q] /\ staged'[q] = staged[q]
      /\ UNCHANGED <<tables, commits, overlapped>>
  BY <1>1 DEF Stage, TypeOK
<1>3. TypeOK'
  BY <1>1 DEF Stage, Sound, TypeOK, tables
<1>4. SessionInv(r)'
  BY <1>1, <1>2 DEF SessionInv, Sound
<1>5. CurrentInv(r)'
  BY <1>1, <1>2 DEF CurrentInv, Open, Active, tables
<1> QED  BY <1>2, <1>3, <1>4, <1>5, Inside

LEMMA RaiseStep ==
    ASSUME SubscriptionsInv, NEW r \in Requests, NEW w \in Writes, NEW status \in Status \ {"200"},
           pc[r] = "looked", Raise(r, w, status), w.cancel \subseteq seen[r].subs
    PROVE  SubscriptionsInv'
<1>1. TypeOK /\ SessionInv(r) /\ CurrentInv(r)
  BY DEF SubscriptionsInv
<1>2. /\ seen' = seen /\ pc'[r] = "raised" /\ staged'[r] = w /\ answer'[r] = status
      /\ \A q \in Requests \ {r} : /\ pc'[q] = pc[q] /\ staged'[q] = staged[q]
                                   /\ answer'[q] = answer[q]
      /\ UNCHANGED <<tables, commits, overlapped>>
  BY <1>1 DEF Raise, TypeOK
<1>3. TypeOK'
  BY <1>1 DEF Raise, TypeOK, tables
<1>4. SessionInv(r)'
  BY <1>1, <1>2 DEF SessionInv
<1>5. CurrentInv(r)'
  BY <1>1, <1>2 DEF CurrentInv, Open, Active, tables
<1> QED  BY <1>2, <1>3, <1>4, <1>5, Inside

LEMMA OverStep ==
    ASSUME SubscriptionsInv, NEW r \in Requests, NEW status \in Status \ {"200"},
           Over(r, status), UNCHANGED <<tables, commits, overlapped>>
    PROVE  SubscriptionsInv'
<1>1. TypeOK
  BY DEF SubscriptionsInv
<1>2. /\ seen'[r].subs = {} /\ pc'[r] \in {"idle", "done"} /\ staged'[r] = Nothing
      /\ answer'[r] = status
      /\ \A q \in Requests \ {r} : /\ pc'[q] = pc[q] /\ seen'[q] = seen[q]
                                   /\ staged'[q] = staged[q] /\ answer'[q] = answer[q]
  BY <1>1 DEF Over, TypeOK
<1>3. TypeOK'
  BY <1>1 DEF Over, TypeOK, tables, Nothing, Writes, StripeStatus
<1>4. SessionInv(r)' /\ CurrentInv(r)'
  BY <1>2 DEF SessionInv, CurrentInv, Open, Nothing
<1> QED  BY <1>2, <1>3, <1>4, Inside

\* What a commit does to the active subscriptions.
LEMMA Committing ==
    ASSUME SubscriptionsInv, NEW r \in Requests, Commit(r)
    PROVE  /\ \A u \in Users \ {UserOf[r]} : Active(u)' = Active(u)
           /\ \A s \in Active(UserOf[r])' :
                 \/ s \in Active(UserOf[r]) \ staged[r].cancel
                 \/ s.by = r /\ s.n = commits[r] /\ s.plan \in staged[r].insert
           /\ Active(UserOf[r]) \ staged[r].cancel \subseteq Active(UserOf[r])'
           /\ staged[r].insert # {} => Active(UserOf[r])' # {}
           /\ \A s \in subs : \E t \in subs' : t.by = s.by /\ t.plan = s.plan
<1>1. SessionInv(r) /\ TypeOK /\ subs' = Written(r)
  BY DEF SubscriptionsInv, Commit, Apply
<1>2. \A s \in staged[r].cancel : s \in Row /\ UserOf[s.by] = UserOf[r]
  BY <1>1 DEF SessionInv, TypeOK
<1>3. \A s \in Row : /\ [s EXCEPT !.active = FALSE].by = s.by
                     /\ [s EXCEPT !.active = FALSE].plan = s.plan
                     /\ ~[s EXCEPT !.active = FALSE].active
  BY DEF Row
<1>4. \A s \in subs : s \in subs' \/ (s \in staged[r].cancel /\ [s EXCEPT !.active = FALSE] \in subs')
  BY <1>1 DEF Written
<1>5. \A s \in subs' : s.active =>
          \/ s \in subs \ staged[r].cancel
          \/ s.by = r /\ s.n = commits[r] /\ s.plan \in staged[r].insert
  <2> TAKE s \in subs'
  <2>1. CASE s \in subs \ staged[r].cancel
    BY <2>1
  <2>2. CASE s \in {[t EXCEPT !.active = FALSE] : t \in staged[r].cancel}
    BY <1>2, <1>3, <2>2
  <2>3. CASE s \in {[by |-> r, n |-> commits[r], plan |-> p, active |-> TRUE] : p \in staged[r].insert}
    BY <2>3
  <2> QED  BY <1>1, <2>1, <2>2, <2>3 DEF Written
<1>6. \A p \in staged[r].insert :
          [by |-> r, n |-> commits[r], plan |-> p, active |-> TRUE] \in Active(UserOf[r])'
  BY <1>1 DEF Written, Active
<1>7. \A u \in Users \ {UserOf[r]} : Active(u)' = Active(u)
  <2> TAKE u \in Users \ {UserOf[r]}
  <2>1. ASSUME NEW s \in Active(u)' PROVE s \in Active(u)
    BY <1>5 DEF Active
  <2>2. ASSUME NEW s \in Active(u) PROVE s \in Active(u)'
    BY <1>2, <1>4 DEF Active
  <2> QED  BY <2>1, <2>2
<1>8. Active(UserOf[r]) \ staged[r].cancel \subseteq Active(UserOf[r])'
  BY <1>4 DEF Active
<1>9. \A s \in Active(UserOf[r])' :
          \/ s \in Active(UserOf[r]) \ staged[r].cancel
          \/ s.by = r /\ s.n = commits[r] /\ s.plan \in staged[r].insert
  BY <1>5 DEF Active
<1>10. \A s \in subs : \E t \in subs' : t.by = s.by /\ t.plan = s.plan
  BY <1>2, <1>3, <1>4
<1> QED  BY <1>6, <1>7, <1>8, <1>9, <1>10

LEMMA CommitStep ==
    ASSUME SubscriptionsInv, NEW r \in Requests, Commit(r)
    PROVE  SubscriptionsInv'
<1> USE SubscriptionsAssumption
<1>1. TypeOK /\ SessionInv(r) /\ Sound(r, staged[r]) /\ UserOf[r] \in Users
  BY DEF SubscriptionsInv, Commit, SessionInv
<1>2. PICK status \in {"200", "none"} : Over(r, status)
  BY DEF Commit
<1>3. /\ seen'[r].subs = {} /\ pc'[r] \in {"idle", "done"} /\ staged'[r] = Nothing
      /\ answer'[r] = status
      /\ \A q \in Requests \ {r} : /\ pc'[q] = pc[q] /\ seen'[q] = seen[q]
                                   /\ staged'[q] = staged[q] /\ answer'[q] = answer[q]
  BY <1>1, <1>2 DEF Over, TypeOK
<1>4. /\ subs' = Written(r)
      /\ side' = IF staged[r].side = "keep" THEN side
                 ELSE [side EXCEPT ![UserOf[r]] = staged[r].side]
      /\ overlapped' = overlapped \cup
            {UserOf[q] : q \in {x \in Requests : x # r /\ Open(x) /\ UserOf[x] = UserOf[r]}}
      /\ commits' = [commits EXCEPT ![r] = @ + 1]
  BY DEF Commit, Apply
<1>5. TypeOK'
  <2>1. Written(r) \subseteq Row
    <3>1. subs \subseteq Row /\ staged[r].cancel \subseteq Row /\ staged[r].insert \subseteq Plans
          /\ commits[r] \in Nat
      BY <1>1 DEF TypeOK, Writes, Sound
    <3>2. \A s \in Row : [s EXCEPT !.active = FALSE] \in Row
      BY DEF Row
    <3>3. \A p \in Plans : [by |-> r, n |-> commits[r], plan |-> p, active |-> TRUE] \in Row
      BY <3>1 DEF Row
    <3> QED  BY <3>1, <3>2, <3>3 DEF Written
  <2>2. /\ pc' \in [Requests -> {"absent", "idle", "looked", "ending", "raised", "done"}]
        /\ seen' \in [Requests -> [subs : SUBSET Row, side : StripeStatus]]
        /\ answer' \in [Requests -> Status]
        /\ staged' \in [Requests -> Writes]
    BY <1>1, <1>2 DEF Over, TypeOK, Status, StripeStatus, Nothing, Writes
  <2>3. side' \in [Users -> StripeStatus] /\ commits' \in [Requests -> Nat]
    BY <1>1, <1>4 DEF TypeOK, StripeStatus, Sound, Writes
  <2>4. overlapped' \subseteq Users
    BY <1>1, <1>4 DEF TypeOK
  <2> QED  BY <1>4, <2>1, <2>2, <2>3, <2>4 DEF TypeOK
<1>6. ASSUME NEW q \in Requests PROVE SessionInv(q)' /\ CurrentInv(q)'
  <2>1. CASE q = r
    BY <1>3, <2>1 DEF SessionInv, CurrentInv, Open, Nothing
  <2>2. CASE q # r
    <3>1. SessionInv(q) /\ CurrentInv(q)
      BY DEF SubscriptionsInv
    <3>2. pc'[q] = pc[q] /\ seen'[q] = seen[q] /\ staged'[q] = staged[q] /\ answer'[q] = answer[q]
      BY <1>3, <2>2
    <3>3. SessionInv(q)'
      BY <3>1, <3>2 DEF SessionInv, Sound
    <3>4. CurrentInv(q)'
      <4>1. CASE UserOf[q] = UserOf[r] /\ Open(q)
        BY <1>4, <2>2, <4>1 DEF CurrentInv
      <4>2. CASE UserOf[q] # UserOf[r]
        <5>1. Active(UserOf[q])' = Active(UserOf[q])
          BY <4>2, Committing
        <5>2. Open(q)' <=> Open(q)
          BY <3>2 DEF Open
        <5> QED  BY <1>4, <3>1, <3>2, <5>1, <5>2 DEF CurrentInv
      <4>3. CASE ~Open(q)
        BY <3>2, <4>3 DEF CurrentInv, Open
      <4> QED  BY <4>1, <4>2, <4>3
    <3> QED  BY <3>3, <3>4
  <2> QED  BY <2>1, <2>2
<1>7. OneUnlessOverlapped'
  <2> SUFFICES ASSUME NEW u \in Users, u \notin overlapped', NEW s \in Active(u)', NEW t \in Active(u)'
               PROVE  s = t
    BY DEF OneUnlessOverlapped
  <2>1. u \notin overlapped /\ \A a, b \in Active(u) : a = b
    BY <1>4 DEF SubscriptionsInv, OneUnlessOverlapped
  <2>2. CASE u # UserOf[r]
    BY <2>1, <2>2, Committing
  <2>3. CASE u = UserOf[r]
    <3>1. seen[r].subs = Active(u)
      BY <2>1, <2>3 DEF SubscriptionsInv, CurrentInv, Open, Commit
    <3>2. CASE staged[r].insert = {}
      BY <2>1, <2>3, <3>2, Committing
    <3>3. CASE staged[r].insert # {}
      <4>1. Active(u) \ staged[r].cancel = {}
        BY <1>1, <2>1, <3>1, <3>3 DEF Sound
      <4>2. /\ s.by = r /\ s.n = commits[r] /\ s.plan \in staged[r].insert
            /\ t.by = r /\ t.n = commits[r] /\ t.plan \in staged[r].insert
        BY <2>3, <4>1, Committing
      <4>3. s.plan = t.plan
        BY <1>1, <4>2 DEF Sound
      <4>4. s \in Row /\ t \in Row /\ s.active /\ t.active
        BY <1>5 DEF TypeOK, Active
      <4> QED  BY <4>2, <4>3, <4>4 DEF Row
    <3> QED  BY <3>2, <3>3
  <2> QED  BY <2>2, <2>3
<1>8. AcknowledgedIsKept'
  <2> SUFFICES ASSUME NEW e \in Events, KindOf[e] = "completed", answer'[e] = "200"
               PROVE  /\ side'[UserOf[e]] # "none"
                      /\ \E s \in subs' : s.by = e /\ s.plan = PlanOf[e]
    BY DEF AcknowledgedIsKept
  <2>0. e \in Requests /\ UserOf[e] \in Users
    BY DEF Requests
  <2>1. CASE e = r
    <3>1. staged[r].insert = {PlanOf[r]} /\ staged[r].side = "active"
      BY <1>1, <2>1 DEF Sound
    <3>2. [by |-> r, n |-> commits[r], plan |-> PlanOf[r], active |-> TRUE] \in subs'
      BY <1>4, <3>1 DEF Written
    <3>3. side'[UserOf[r]] = "active"
      BY <1>1, <1>4, <3>1 DEF TypeOK
    <3> QED  BY <2>1, <3>2, <3>3
  <2>2. CASE e # r
    <3>1. side[UserOf[e]] # "none" /\ \E s \in subs : s.by = e /\ s.plan = PlanOf[e]
      BY <1>3, <2>0, <2>2 DEF SubscriptionsInv, AcknowledgedIsKept
    <3>2. side'[UserOf[e]] # "none"
      BY <1>1, <1>4, <2>0, <3>1 DEF TypeOK, Sound, Writes
    <3> QED  BY <3>1, <3>2, Committing
  <2> QED  BY <2>1, <2>2
<1> QED  BY <1>5, <1>6, <1>7, <1>8 DEF SubscriptionsInv

LEMMA CrashStep == SubscriptionsInv /\ Crash => SubscriptionsInv'
<1> SUFFICES ASSUME SubscriptionsInv, Crash PROVE SubscriptionsInv'
  OBVIOUS
<1>1. TypeOK
  BY DEF SubscriptionsInv
<1>2. \A r \in Requests : /\ ~Open(r)' /\ pc'[r] \notin {"ending", "raised"}
                          /\ seen'[r].subs = {} /\ staged'[r] = Nothing
                          /\ answer'[r] = "200" => answer[r] = "200"
  BY <1>1 DEF Crash, Open, TypeOK
<1>3. TypeOK'
  BY <1>1 DEF Crash, TypeOK, tables, Nothing, Writes, StripeStatus, Status
<1>4. \A r \in Requests : SessionInv(r)' /\ CurrentInv(r)'
  BY <1>2 DEF SessionInv, CurrentInv, Nothing
<1>5. OneUnlessOverlapped' /\ AcknowledgedIsKept'
  BY <1>2 DEF SubscriptionsInv, OneUnlessOverlapped, AcknowledgedIsKept, Active, Crash, tables, Requests
<1> QED  BY <1>3, <1>4, <1>5 DEF SubscriptionsInv

\* The writes that handlers and library stage for a request.
LEMMA SwitchToSound ==
    ASSUME TypeOK, NEW r \in Requests, NEW plan \in Plans, NEW c \in Cancelled(r),
           NEW status \in {"keep", "active", "past_due", "canceled"},
           r \in Events /\ KindOf[r] = "completed" => plan = PlanOf[r] /\ status = "active"
    PROVE  Sound(r, SwitchTo(plan, c, status))
<1>1. seen[r].subs \subseteq Row
  BY DEF TypeOK
<1> QED  BY <1>1 DEF Sound, SwitchTo, Cancelled, Writes

LEMMA HandleStep ==
    ASSUME SubscriptionsInv, NEW e \in Events, Handle(e)
    PROVE  SubscriptionsInv'
<1> USE SubscriptionsAssumption
<1>1. TypeOK /\ e \in Requests /\ pc[e] = "looked"
  BY DEF SubscriptionsInv, Requests, Handle
<1>2. CASE KindOf[e] = "completed"
  <2>1. PICK c \in Cancelled(e) : Stage(e, SwitchTo(PlanOf[e], c, "active"))
    BY <1>2 DEF Handle, HandleEvent
  <2> QED  BY <1>1, <1>2, <2>1, SwitchToSound, StageStep
<1>3. CASE KindOf[e] = "deleted" /\ seen[e].side # "none"
  <2>1. PICK c \in Cancelled(e) : Stage(e, SwitchTo("free", c, "canceled"))
    BY <1>3 DEF Handle, HandleEvent
  <2> QED  BY <1>1, <1>3, <2>1, SwitchToSound, StageStep
<1>4. KindOf[e] # "completed" =>
          Sound(e, Nothing) /\ Sound(e, [Nothing EXCEPT !.side = "past_due"])
  BY DEF Sound, Nothing, Writes
<1>5. Nothing \in Writes /\ Nothing.cancel = {} /\ "500" \in Status \ {"200"}
  BY DEF Nothing, Writes, Status
<1>6. CASE Raise(e, Nothing, "500")
  BY <1>1, <1>5, <1>6, RaiseStep
<1>7. CASE KindOf[e] # "completed" /\ Stage(e, Nothing)
  BY <1>1, <1>4, <1>7, StageStep
<1>8. CASE KindOf[e] # "completed" /\ Stage(e, [Nothing EXCEPT !.side = "past_due"])
  BY <1>1, <1>4, <1>8, StageStep
<1> QED  BY <1>2, <1>3, <1>6, <1>7, <1>8 DEF Handle, HandleEvent

LEMMA AdminStep ==
    ASSUME SubscriptionsInv, NEW r \in Grants, AdminSubscribe(r)
    PROVE  SubscriptionsInv'
<1> USE SubscriptionsAssumption
<1>1. TypeOK /\ r \in Requests \ Events /\ pc[r] = "looked"
  BY DEF SubscriptionsInv, Requests, AdminSubscribe
<1>2. PICK c \in Cancelled(r) :
        \/ PlanOf[r] \in Plans /\ Stage(r, SwitchTo(PlanOf[r], c, "keep"))
        \/ Raise(r, Nothing, "400") \/ Raise(r, [Nothing EXCEPT !.cancel = c], "400")
  BY DEF AdminSubscribe
<1>3. c \subseteq seen[r].subs /\ seen[r].subs \subseteq Row
  BY <1>1 DEF Cancelled, TypeOK
<1>4. /\ Nothing \in Writes /\ Nothing.cancel = {}
      /\ [Nothing EXCEPT !.cancel = c] \in Writes /\ [Nothing EXCEPT !.cancel = c].cancel = c
      /\ "400" \in Status \ {"200"}
  BY <1>3 DEF Nothing, Writes, Status
<1>5. CASE PlanOf[r] \in Plans /\ Stage(r, SwitchTo(PlanOf[r], c, "keep"))
  BY <1>1, <1>5, SwitchToSound, StageStep
<1>6. CASE Raise(r, Nothing, "400")
  BY <1>1, <1>4, <1>6, RaiseStep
<1>7. CASE Raise(r, [Nothing EXCEPT !.cancel = c], "400")
  BY <1>1, <1>3, <1>4, <1>7, RaiseStep
<1> QED  BY <1>2, <1>5, <1>6, <1>7

LEMMA GetMeStep ==
    ASSUME SubscriptionsInv, NEW r \in Visits, GetMe(r)
    PROVE  SubscriptionsInv'
<1> DEFINE w == [Nothing EXCEPT !.insert = IF seen[r].subs = {} THEN {"free"} ELSE {},
                                !.month = UserOf[r] \notin usage]
<1> USE SubscriptionsAssumption
<1>1. r \in Requests \ Events /\ pc[r] = "looked" /\ Stage(r, w)
  BY DEF Requests, GetMe
<1>2. Sound(r, w)
  BY <1>1 DEF Sound, Nothing, Writes
<1> QED  BY <1>1, <1>2, StageStep

LEMMA WebhookStep ==
    ASSUME SubscriptionsInv, NEW e \in Events, StripeWebhook(e)
    PROVE  SubscriptionsInv'
<1>1. TypeOK /\ SessionInv(e) /\ CurrentInv(e) /\ e \in Requests
  BY DEF SubscriptionsInv, Requests
<1>2. /\ seen' = seen /\ staged' = staged /\ pc'[e] = "idle"
      /\ answer'[e] \in {"503", "400"} /\ pc[e] = "idle"
      /\ \A q \in Requests \ {e} : pc'[q] = pc[q] /\ answer'[q] = answer[q]
      /\ UNCHANGED <<tables, commits, overlapped>>
  BY <1>1 DEF StripeWebhook, TypeOK
<1>3. TypeOK'
  BY <1>1 DEF StripeWebhook, TypeOK, tables, Status
<1>4. SessionInv(e)' /\ CurrentInv(e)'
  BY <1>1, <1>2 DEF SessionInv, CurrentInv, Open
<1> QED  BY <1>1, <1>2, <1>3, <1>4, Inside

LEMMA SubscriptionsStep == SubscriptionsInv /\ [Next]_vars => SubscriptionsInv'
<1> SUFFICES ASSUME SubscriptionsInv, [Next]_vars PROVE SubscriptionsInv'
  OBVIOUS
<1>1. TypeOK
  BY DEF SubscriptionsInv
<1>2. ASSUME NEW r \in Requests, Progress(r) PROVE SubscriptionsInv'
  <2>1. CASE Begin(r)
    BY <2>1, LookStep DEF Begin
  <2>2. CASE GetMe(r)
    BY <2>2, GetMeStep DEF GetMe
  <2>3. CASE AdminSubscribe(r)
    BY <2>3, AdminStep DEF AdminSubscribe
  <2>4. CASE StripeWebhook(r)
    BY <2>4, WebhookStep DEF StripeWebhook
  <2>5. CASE Deliver(r)
    BY <2>5, LookStep DEF Deliver
  <2>6. CASE Handle(r)
    BY <2>6, HandleStep DEF Handle
  <2>7. CASE Commit(r)
    BY <2>7, CommitStep
  <2>8. CASE CommitFails(r)
    <3>1. "500" \in Status \ {"200"}
      BY DEF Status
    <3> QED  BY <2>8, <3>1, OverStep DEF CommitFails
  <2>9. CASE Rollback(r)
    <3>1. answer[r] \in Status \ {"200"}
      BY <1>1, <2>9 DEF SubscriptionsInv, SessionInv, TypeOK, Rollback
    <3> QED  BY <2>9, <3>1, OverStep DEF Rollback
  <2> QED  BY <1>2, <2>1, <2>2, <2>3, <2>4, <2>5, <2>6, <2>7, <2>8, <2>9 DEF Progress
<1>3. CASE UNCHANGED vars
  BY <1>3 DEF SubscriptionsInv, TypeOK, SessionInv, CurrentInv, Sound, Open, Active,
              OneUnlessOverlapped, AcknowledgedIsKept, vars, tables, session
<1> QED  BY <1>2, <1>3, CrashStep DEF Next, Quiet

\* Every reachable state satisfies the invariant, whichever sessions interleave, fail
\* or die, and in whatever order Stripe's events come.
THEOREM SubscriptionsInvariant == Spec => []SubscriptionsInv
<1> QED  BY SubscriptionsInit, SubscriptionsStep, PTL DEF Spec

\* A checkout that was answered 200 is in the tables, with its Stripe row.
THEOREM AcknowledgedKept == Spec => []AcknowledgedIsKept
<1>1. SubscriptionsInv => AcknowledgedIsKept
  BY DEF SubscriptionsInv
<1> QED  BY <1>1, SubscriptionsInvariant, PTL

\* A user has at most one active subscription unless a request about him committed
\* during another one: this is what the statistics of an administrator rest on.
THEOREM OneSubscription == Spec => []OneUnlessOverlapped
<1>1. SubscriptionsInv => OneUnlessOverlapped
  BY DEF SubscriptionsInv
<1> QED  BY <1>1, SubscriptionsInvariant, PTL

LEMMA CommitKeeps ==
    ASSUME SubscriptionsInv, NEW r \in Requests, Commit(r), NEW u \in Users, Active(u) # {}
    PROVE  Active(u)' # {}
<1>1. Sound(r, staged[r])
  BY DEF SubscriptionsInv, SessionInv, Commit
<1>2. CASE u # UserOf[r]
  BY <1>2, Committing
<1>3. CASE u = UserOf[r] /\ staged[r].insert # {}
  BY <1>3, Committing
<1>4. CASE u = UserOf[r] /\ staged[r].insert = {}
  <2>1. staged[r].cancel = {}
    BY <1>1, <1>4 DEF Sound
  <2> QED  BY <1>4, <2>1, Committing
<1> QED  BY <1>2, <1>3, <1>4

\* No step takes a user's last active subscription away: only a commit writes the
\* tables, and one that cancels also adds.
THEOREM KeepingASubscription == Spec => KeepsASubscription
<1>1. ASSUME SubscriptionsInv, [Next]_vars, NEW u \in Users, Active(u) # {}
      PROVE  Active(u)' # {}
  <2>1. CASE \E r \in Requests : Commit(r)
    BY <1>1, <2>1, CommitKeeps
  <2>2. CASE subs' = subs
    BY <1>1, <2>2 DEF Active
  <2> QED  BY <1>1, <2>1, <2>2
           DEF Next, Progress, Begin, GetMe, AdminSubscribe, StripeWebhook, Deliver, Handle,
               HandleEvent, CommitFails, Rollback, Crash, Quiet, Look, Stage, Raise, vars, tables
<1>2. SubscriptionsInv /\ [Next]_vars =>
          [\A u \in Users : Active(u) # {} => Active(u)' # {}]_vars
  BY <1>1
<1> QED  BY <1>2, SubscriptionsInvariant, PTL DEF Spec, KeepsASubscription

---------------------------------------------------------------------------
(* Sums *)

\* A nonempty set of numbers has a least one.
LEMMA LeastNumber ==
    ASSUME NEW S \in SUBSET Nat, S # {}
    PROVE  \E i \in S : \A j \in S : i <= j
<1> DEFINE below == {ss \in Nat \X Nat : ss[1] < ss[2]}
<1>1. IsWellFoundedOn(below, Nat)
  BY NatLessThanWellFounded, Zenon DEF OpToRel
<1> HIDE DEF below
<1>2. PICK i \in S : \A j \in S : <<j, i>> \notin below
  BY <1>1, WFMin
<1>3. \A j \in S : ~(j < i)
  BY <1>2 DEF below
<1> QED  BY <1>3

\* What the function behind a sum has to satisfy on a set of sets.
SumsOn(f, sets, g) ==
    g = [s \in sets |-> IF s = {} THEN 0
                        ELSE f[CHOOSE x \in s : TRUE] + g[s \ {CHOOSE x \in s : TRUE}]]

Sums(f, D, g) == SumsOn(f, SUBSET D, g)

LEMMA SumUnfolds ==
    ASSUME NEW f, NEW S
    PROVE  SumFunctionOnSet(f, S) = (CHOOSE g : Sums(f, S, g))[S]
BY Zenon DEF SumFunctionOnSet, FoldFunctionOnSet, MapThenFoldSet, Sums, SumsOn

\* The subsets of D with up to n elements.
UpTo(D, n) == {s \in SUBSET D : Cardinality(s) <= n}

\* Taking the chosen element away leaves a smaller set.
LEMMA SmallerSet ==
    ASSUME NEW D, IsFiniteSet(D), NEW s \in SUBSET D, s # {}, NEW x \in s
    PROVE  /\ s \ {x} \in SUBSET D /\ IsFiniteSet(s) /\ IsFiniteSet(s \ {x})
           /\ Cardinality(s) \in Nat \ {0} /\ Cardinality(s \ {x}) \in Nat
           /\ Cardinality(s \ {x}) = Cardinality(s) - 1 /\ Cardinality(s \ {x}) < Cardinality(s)
<1>1. IsFiniteSet(s)
  BY FS_Subset
<1>2. Cardinality(s) \in Nat /\ Cardinality(s) # 0
  BY <1>1, FS_CardinalityType, FS_EmptySet
<1>3. IsFiniteSet(s \ {x}) /\ Cardinality(s \ {x}) = Cardinality(s) - 1
  BY <1>1, FS_RemoveElement
<1> QED  BY <1>1, <1>2, <1>3

LEMMA ChosenIsIn ==
    ASSUME NEW s, s # {}
    PROVE  (CHOOSE x \in s : TRUE) \in s
OBVIOUS

\* There is such a function for the subsets of a finite set: the empty set, and sets of
\* one element more each time.
LEMMA SumsExist ==
    ASSUME NEW D, IsFiniteSet(D), NEW f
    PROVE  \E g : Sums(f, D, g)
<1> DEFINE missing == {n \in Nat : ~\E g : SumsOn(f, UpTo(D, n), g)}
<1>1. CASE missing = {}
  <2>1. Cardinality(D) \in Nat
    BY FS_CardinalityType
  <2>2. UpTo(D, Cardinality(D)) = SUBSET D
    <3>1. ASSUME NEW s \in SUBSET D  PROVE Cardinality(s) <= Cardinality(D)
      BY FS_Subset
    <3> QED  BY <3>1 DEF UpTo
  <2>3. Cardinality(D) \notin missing
    BY <1>1
  <2>4. \E g : SumsOn(f, UpTo(D, Cardinality(D)), g)
    BY <2>1, <2>3
  <2> QED  BY <2>2, <2>4 DEF Sums
<1>2. CASE missing # {}
  <2>1. PICK n \in missing : \A m \in missing : n <= m
    BY <1>2, LeastNumber
  <2>2. n \in Nat /\ ~\E g : SumsOn(f, UpTo(D, n), g)
    BY <2>1
  <2>3. CASE n = 0
    <3>1. \A s \in UpTo(D, 0) : s = {}
      <4> SUFFICES ASSUME NEW s \in SUBSET D, Cardinality(s) <= 0  PROVE s = {}
        BY DEF UpTo
      <4>1. IsFiniteSet(s)
        BY FS_Subset
      <4>2. Cardinality(s) = 0
        BY <4>1, FS_CardinalityType
      <4> QED  BY <4>1, <4>2, FS_EmptySet
    <3>2. SumsOn(f, UpTo(D, 0), [s \in UpTo(D, 0) |-> 0])
      BY <3>1 DEF Sums, SumsOn
    <3> QED  BY <2>2, <2>3, <3>2
  <2>4. CASE n # 0
    <3>1. n - 1 \in Nat /\ n - 1 \notin missing
      BY <2>1, <2>2, <2>4
    <3>2. PICK g : SumsOn(f, UpTo(D, n - 1), g)
      BY <3>1
    <3> DEFINE c(s) == CHOOSE x \in s : TRUE
               h == [s \in UpTo(D, n) |-> IF s = {} THEN 0 ELSE f[c(s)] + g[s \ {c(s)}]]
    <3>3. ASSUME NEW s \in UpTo(D, n - 1)
          PROVE  h[s] = g[s]
      <4>1. s \in UpTo(D, n)
        <5>1. s \in SUBSET D /\ Cardinality(s) <= n - 1
          BY DEF UpTo
        <5>2. Cardinality(s) \in Nat
          BY <5>1, FS_Subset, FS_CardinalityType
        <5> QED  BY <2>2, <5>1, <5>2 DEF UpTo
      <4>2. g[s] = IF s = {} THEN 0 ELSE f[c(s)] + g[s \ {c(s)}]
        BY <3>2 DEF Sums, SumsOn
      <4> QED  BY <4>1, <4>2
    <3>4. ASSUME NEW s \in UpTo(D, n), s # {}
          PROVE  s \ {c(s)} \in UpTo(D, n - 1)
      <4>1. c(s) \in s /\ s \in SUBSET D /\ Cardinality(s) <= n
        BY <3>4, ChosenIsIn DEF UpTo
      <4> HIDE DEF c
      <4>2. s \ {c(s)} \in SUBSET D /\ Cardinality(s) \in Nat
            /\ Cardinality(s \ {c(s)}) = Cardinality(s) - 1
        BY <3>4, <4>1, SmallerSet
      <4> QED  BY <2>2, <4>1, <4>2 DEF UpTo
    <3>5. \A s \in UpTo(D, n) : h[s] = IF s = {} THEN 0 ELSE f[c(s)] + h[s \ {c(s)}]
      BY <3>3, <3>4
    <3>6. h = [s \in UpTo(D, n) |-> IF s = {} THEN 0 ELSE f[c(s)] + h[s \ {c(s)}]]
      <4>1. h = [s \in UpTo(D, n) |-> h[s]]
        OBVIOUS
      <4> HIDE DEF h
      <4> QED  BY <3>5, <4>1
    <3>7. SumsOn(f, UpTo(D, n), h)
      BY <3>6 DEF Sums, SumsOn
    <3> QED  BY <2>2, <3>7
  <2> QED  BY <2>3, <2>4
<1> QED  BY <1>1, <1>2

Agree(f, h, S) == \A x \in S : f[x] = h[x]

\* Sums of functions that agree are the same, whatever else these are functions of.
LEMMA SumsAgree ==
    ASSUME NEW S, IsFiniteSet(S), NEW D, S \in SUBSET D, NEW f, NEW h, Agree(f, h, S),
           NEW g, Sums(f, S, g), NEW k, Sums(h, D, k)
    PROVE  g[S] = k[S]
<1> DEFINE differ == {n \in Nat : \E s \in SUBSET S : Cardinality(s) = n /\ g[s] # k[s]}
<1>1. CASE differ = {}
  <2>1. Cardinality(S) \in Nat /\ S \in SUBSET S
    BY FS_CardinalityType
  <2> QED  BY <1>1, <2>1
<1>2. CASE differ # {}
  <2>1. PICK n \in differ : \A m \in differ : n <= m
    BY <1>2, LeastNumber
  <2>2. PICK s \in SUBSET S : Cardinality(s) = n /\ g[s] # k[s]
    BY <2>1
  <2>3. /\ g[s] = IF s = {} THEN 0 ELSE f[CHOOSE x \in s : TRUE] + g[s \ {CHOOSE x \in s : TRUE}]
        /\ k[s] = IF s = {} THEN 0 ELSE h[CHOOSE x \in s : TRUE] + k[s \ {CHOOSE x \in s : TRUE}]
    <3>1. s \in SUBSET D
      OBVIOUS
    <3> QED  BY <3>1 DEF Sums, SumsOn
  <2>4. s # {}
    BY <2>2, <2>3
  <2>5. PICK c \in s : c = CHOOSE x \in s : TRUE
    BY <2>4, ChosenIsIn
  <2>6. g[s] = f[c] + g[s \ {c}] /\ k[s] = h[c] + k[s \ {c}] /\ f[c] = h[c]
    BY <2>3, <2>4, <2>5 DEF Agree
  <2>7. s \ {c} \in SUBSET S /\ Cardinality(s \ {c}) \in Nat /\ Cardinality(s \ {c}) < n
    <3>1. s \in SUBSET S /\ s # {} /\ c \in s /\ IsFiniteSet(S)
      BY <2>4
    <3>2. /\ s \ {c} \in SUBSET S /\ Cardinality(s \ {c}) \in Nat
          /\ Cardinality(s \ {c}) < Cardinality(s)
      BY <3>1, SmallerSet
    <3> QED  BY <2>2, <3>2
  <2>8. g[s \ {c}] = k[s \ {c}]
    BY <2>1, <2>7
  <2> QED  BY <2>2, <2>6, <2>8
<1> QED  BY <1>1, <1>2

Sum(f, S) == SumFunctionOnSet(f, S)

LEMMA SumsFunction ==
    ASSUME NEW f, NEW S, IsFiniteSet(S)
    PROVE  \E g : Sums(f, S, g) /\ Sum(f, S) = g[S]
BY SumsExist, SumUnfolds DEF Sum

LEMMA SumSame ==
    ASSUME NEW f, NEW h, NEW S, IsFiniteSet(S), \A x \in S : f[x] = h[x]
    PROVE  Sum(f, S) = Sum(h, S)
<1>1. PICK g : Sums(f, S, g) /\ Sum(f, S) = g[S]
  BY SumsFunction
<1>2. PICK k : Sums(h, S, k) /\ Sum(h, S) = k[S]
  BY SumsFunction
<1>3. S \in SUBSET S /\ Agree(f, h, S)
  BY DEF Agree
<1>4. g[S] = k[S]
  BY <1>1, <1>2, <1>3, SumsAgree
<1> QED  BY <1>1, <1>2, <1>4

\* A sum by the element that is chosen first.
LEMMA SumChosen ==
    ASSUME NEW f, NEW S, IsFiniteSet(S)
    PROVE  /\ S = {} => Sum(f, S) = 0
           /\ S # {} => \E c \in S : Sum(f, S) = f[c] + Sum(f, S \ {c})
<1>1. PICK g : Sums(f, S, g) /\ Sum(f, S) = g[S]
  BY SumsFunction
<1>2. g[S] = IF S = {} THEN 0 ELSE f[CHOOSE x \in S : TRUE] + g[S \ {CHOOSE x \in S : TRUE}]
  <2>1. S \in SUBSET S
    OBVIOUS
  <2> QED  BY <1>1, <2>1 DEF Sums, SumsOn
<1>3. CASE S # {}
  <2>1. PICK c \in S : c = CHOOSE x \in S : TRUE
    BY <1>3, ChosenIsIn
  <2>2. g[S] = f[c] + g[S \ {c}]
    BY <1>2, <1>3, <2>1
  <2>3. PICK rest : rest = S \ {c}
    OBVIOUS
  <2>4. IsFiniteSet(rest) /\ rest \in SUBSET S /\ Agree(f, f, rest)
    BY <2>3, FS_RemoveElement DEF Agree
  <2>5. PICK k : Sums(f, rest, k) /\ Sum(f, rest) = k[rest]
    BY <2>4, SumsFunction
  <2>6. k[rest] = g[rest]
    BY <1>1, <2>4, <2>5, SumsAgree
  <2> QED  BY <1>1, <2>2, <2>3, <2>5, <2>6
<1> QED  BY <1>1, <1>2, <1>3

\* A sum of naturals is a natural number, and any element may be taken out first.
LEMMA SumTakes ==
    ASSUME NEW f, NEW D, IsFiniteSet(D), \A x \in D : f[x] \in Nat
    PROVE  /\ Sum(f, D) \in Nat
           /\ \A x \in D : Sum(f, D) = f[x] + Sum(f, D \ {x})
<1> DEFINE Fine(s) == /\ Sum(f, s) \in Nat
                      /\ \A x \in s : Sum(f, s) = f[x] + Sum(f, s \ {x})
           bad == {n \in Nat : \E s \in SUBSET D : Cardinality(s) = n /\ ~Fine(s)}
<1>1. CASE bad = {}
  <2>1. Cardinality(D) \in Nat /\ D \in SUBSET D
    BY FS_CardinalityType
  <2>2. Fine(D)
    BY <1>1, <2>1
  <2> QED  BY <2>2
<1>2. CASE bad # {}
  <2> HIDE DEF Fine
  <2>1. PICK n \in bad : \A m \in bad : n <= m
    BY <1>2, LeastNumber
  <2>2. PICK s \in SUBSET D : Cardinality(s) = n /\ ~Fine(s)
    BY <2>1
  <2>3. ASSUME NEW t \in SUBSET D, Cardinality(t) \in Nat, Cardinality(t) < n
        PROVE  Fine(t)
    BY <2>1, <2>3
  <2>4. IsFiniteSet(s)
    BY FS_Subset
  <2>5. CASE s = {}
    BY <2>2, <2>4, <2>5, SumChosen DEF Fine
  <2>6. CASE s # {}
    <3>1. PICK c \in s : Sum(f, s) = f[c] + Sum(f, s \ {c})
      BY <2>4, <2>6, SumChosen
    <3>2. ASSUME NEW x \in s
          PROVE  Fine(s \ {x}) /\ f[x] \in Nat /\ s \ {x} \in SUBSET D
      <4>1. s \ {x} \in SUBSET D /\ Cardinality(s \ {x}) \in Nat /\ Cardinality(s \ {x}) < n
        BY <2>2, <2>6, SmallerSet
      <4> QED  BY <2>3, <4>1
    <3>3. Sum(f, s) \in Nat
      BY <3>1, <3>2 DEF Fine
    <3>4. ASSUME NEW x \in s, x # c
          PROVE  Sum(f, s) = f[x] + Sum(f, s \ {x})
      <4>1. Sum(f, s \ {c}) = f[x] + Sum(f, (s \ {c}) \ {x})
        BY <3>2, <3>4 DEF Fine
      <4>2. Sum(f, s \ {x}) = f[c] + Sum(f, (s \ {x}) \ {c})
        BY <3>2, <3>4 DEF Fine
      <4>3. (s \ {c}) \ {x} = (s \ {x}) \ {c}
        OBVIOUS
      <4>4. Sum(f, (s \ {c}) \ {x}) \in Nat
        <5> DEFINE t == (s \ {c}) \ {x}
        <5>1. s \ {c} \in SUBSET D /\ s \ {c} # {} /\ x \in s \ {c}
              /\ Cardinality(s \ {c}) < n /\ Cardinality(s \ {c}) \in Nat
          <6>1. s \ {c} \in SUBSET D /\ s \ {c} # {} /\ x \in s \ {c}
            BY <3>4
          <6>2. Cardinality(s \ {c}) \in Nat /\ Cardinality(s \ {c}) < Cardinality(s)
            BY <2>6, SmallerSet
          <6> QED  BY <2>2, <6>1, <6>2
        <5>2. t \in SUBSET D /\ Cardinality(t) \in Nat /\ Cardinality(t) < Cardinality(s \ {c})
          <6>1. PICK r : r = s \ {c}
            OBVIOUS
          <6>2. IsFiniteSet(r) /\ r \in SUBSET r /\ r \in SUBSET D /\ r # {} /\ x \in r
            BY <2>4, <5>1, <6>1, FS_RemoveElement
          <6>3. /\ r \ {x} \in SUBSET r /\ Cardinality(r \ {x}) \in Nat
                /\ Cardinality(r \ {x}) < Cardinality(r)
            BY <6>2, SmallerSet
          <6> QED  BY <6>1, <6>2, <6>3
        <5>3. Cardinality(t) < n
          <6>1. n \in Nat
            BY <2>1
          <6> QED  BY <5>1, <5>2, <6>1
        <5>4. Fine(t)
          BY <2>3, <5>2, <5>3
        <5> QED  BY <5>4 DEF Fine
      <4>5. f[x] \in Nat /\ f[c] \in Nat
        BY <3>2
      <4> DEFINE rest == Sum(f, (s \ {c}) \ {x})
      <4>6. /\ Sum(f, s) = f[c] + (f[x] + rest) /\ Sum(f, s \ {x}) = f[c] + rest
            /\ rest \in Nat
        BY <3>1, <4>1, <4>2, <4>3, <4>4
      <4> HIDE DEF rest
      <4> QED  BY <4>5, <4>6
    <3>5. Fine(s)
      BY <3>1, <3>3, <3>4 DEF Fine
    <3> QED  BY <2>2, <3>5
  <2> QED  BY <2>5, <2>6
<1> QED  BY <1>1, <1>2

LEMMA SumOfZeros ==
    ASSUME NEW f, NEW D, IsFiniteSet(D), \A x \in D : f[x] = 0
    PROVE  Sum(f, D) = 0
<1> DEFINE bad == {n \in Nat : \E s \in SUBSET D : Cardinality(s) = n /\ Sum(f, s) # 0}
<1>1. CASE bad = {}
  <2>1. Cardinality(D) \in Nat /\ D \in SUBSET D
    BY FS_CardinalityType
  <2> QED  BY <1>1, <2>1
<1>2. CASE bad # {}
  <2>1. PICK n \in bad : \A m \in bad : n <= m
    BY <1>2, LeastNumber
  <2>2. PICK s \in SUBSET D : Cardinality(s) = n /\ Sum(f, s) # 0
    BY <2>1
  <2>3. IsFiniteSet(s)
    BY FS_Subset
  <2>4. PICK c \in s : Sum(f, s) = f[c] + Sum(f, s \ {c})
    BY <2>2, <2>3, SumChosen
  <2>5. s \ {c} \in SUBSET D /\ Cardinality(s \ {c}) \in Nat /\ Cardinality(s \ {c}) < n
    BY <2>2, SmallerSet
  <2>6. Sum(f, s \ {c}) = 0
    BY <2>1, <2>5
  <2> QED  BY <2>2, <2>4, <2>6
<1> QED  BY <1>1, <1>2

\* A sum of ones counts.
LEMMA SumOfOnes ==
    ASSUME NEW f, NEW D, IsFiniteSet(D), \A x \in D : f[x] = 1
    PROVE  Sum(f, D) = Cardinality(D)
<1> DEFINE bad == {n \in Nat : \E s \in SUBSET D : Cardinality(s) = n /\ Sum(f, s) # n}
<1>1. CASE bad = {}
  <2>1. Cardinality(D) \in Nat /\ D \in SUBSET D
    BY FS_CardinalityType
  <2> QED  BY <1>1, <2>1
<1>2. CASE bad # {}
  <2>1. PICK n \in bad : \A m \in bad : n <= m
    BY <1>2, LeastNumber
  <2>2. PICK s \in SUBSET D : Cardinality(s) = n /\ Sum(f, s) # n
    BY <2>1
  <2>3. IsFiniteSet(s)
    BY FS_Subset
  <2>4. s # {}
    BY <2>2, <2>3, SumChosen, FS_EmptySet
  <2>5. PICK c \in s : Sum(f, s) = f[c] + Sum(f, s \ {c})
    BY <2>3, <2>4, SumChosen
  <2>6. /\ s \ {c} \in SUBSET D /\ Cardinality(s \ {c}) \in Nat
        /\ Cardinality(s \ {c}) = Cardinality(s) - 1 /\ Cardinality(s) \in Nat
    BY <2>4, SmallerSet
  <2>7. Sum(f, s \ {c}) = n - 1
    BY <2>1, <2>2, <2>6
  <2> QED  BY <2>2, <2>5, <2>6, <2>7
<1> QED  BY <1>1, <1>2

---------------------------------------------------------------------------
(* The reported revenue *)

\* The tables and what sessions have read of them are finite.
FiniteInv == IsFiniteSet(subs) /\ \A r \in Requests : IsFiniteSet(seen[r].subs)

\* Rows marked inactive are as many as before, at most.
LEMMA CancelledFinite ==
    ASSUME NEW C, IsFiniteSet(C)
    PROVE  IsFiniteSet({[s EXCEPT !.active = FALSE] : s \in C})
<1> DEFINE T == {[s EXCEPT !.active = FALSE] : s \in C}
           f == [s \in C |-> [s EXCEPT !.active = FALSE]]
<1>1. f \in Surjection(C, T)
  BY DEF Surjection
<1> QED  BY <1>1, FS_Surjection

LEMMA WrittenFinite ==
    ASSUME SubscriptionsInv, FiniteInv, NEW r \in Requests, pc[r] = "ending"
    PROVE  IsFiniteSet(Written(r))
<1>1. Sound(r, staged[r])
  BY DEF SubscriptionsInv, SessionInv
<1>2. IsFiniteSet(staged[r].cancel)
  BY <1>1, FS_Subset DEF Sound, FiniteInv
<1>3. IsFiniteSet({[by |-> r, n |-> commits[r], plan |-> p, active |-> TRUE] : p \in staged[r].insert})
  <2>1. CASE staged[r].insert = {}
    BY <2>1, FS_EmptySet
  <2>2. CASE staged[r].insert # {}
    <3>1. PICK p \in staged[r].insert : TRUE
      BY <2>2
    <3>2. staged[r].insert = {p}
      BY <1>1, <3>1 DEF Sound
    <3>3. {[by |-> r, n |-> commits[r], plan |-> q, active |-> TRUE] : q \in staged[r].insert}
          = {[by |-> r, n |-> commits[r], plan |-> p, active |-> TRUE]}
      BY <3>2
    <3> QED  BY <3>3, FS_Singleton
  <2> QED  BY <2>1, <2>2
<1>4. IsFiniteSet({[s EXCEPT !.active = FALSE] : s \in staged[r].cancel})
  BY <1>2, CancelledFinite
<1>5. IsFiniteSet(subs \ staged[r].cancel)
  BY FS_Subset DEF FiniteInv
<1> DEFINE left == subs \ staged[r].cancel
           gone == {[s EXCEPT !.active = FALSE] : s \in staged[r].cancel}
           new == {[by |-> r, n |-> commits[r], plan |-> p, active |-> TRUE] : p \in staged[r].insert}
<1>6. Written(r) = (left \cup gone) \cup new
  BY DEF Written
<1> HIDE DEF left, gone, new
<1>7. IsFiniteSet(left) /\ IsFiniteSet(gone) /\ IsFiniteSet(new)
  BY <1>3, <1>4, <1>5 DEF left, gone, new
<1>8. IsFiniteSet(left \cup gone)
  BY <1>7, FS_Union
<1>9. IsFiniteSet((left \cup gone) \cup new)
  BY <1>7, <1>8, FS_Union
<1> QED  BY <1>6, <1>9

LEMMA FiniteStep ==
    ASSUME SubscriptionsInv, FiniteInv, [Next]_vars
    PROVE  FiniteInv'
<1>1. TypeOK /\ IsFiniteSet({})
  BY FS_EmptySet DEF SubscriptionsInv
<1>2. ASSUME NEW r \in Requests, Commit(r)
      PROVE  FiniteInv'
  <2>1. IsFiniteSet(subs')
    BY <1>2, WrittenFinite DEF Commit, Apply
  <2>2. seen' = [seen EXCEPT ![r] = [subs |-> {}, side |-> "none"]]
    BY <1>2 DEF Commit, Over
  <2> QED  BY <1>1, <2>1, <2>2 DEF FiniteInv, TypeOK
<1>3. ASSUME NEW r \in Requests, Look(r)
      PROVE  FiniteInv'
  <2>1. Active(UserOf[r]) \subseteq subs
    BY DEF Active
  <2>2. IsFiniteSet(Active(UserOf[r]))
    BY <2>1, FS_Subset DEF FiniteInv
  <2> QED  BY <1>1, <1>3, <2>2 DEF Look, FiniteInv, TypeOK, tables
<1>4. CASE UNCHANGED <<subs, seen>>
  BY <1>4 DEF FiniteInv
<1>5. ASSUME NEW r \in Requests, CommitFails(r) \/ Rollback(r)
      PROVE  FiniteInv'
  <2>1. seen' = [seen EXCEPT ![r] = [subs |-> {}, side |-> "none"]] /\ subs' = subs
    BY <1>5 DEF CommitFails, Rollback, Over, tables
  <2> QED  BY <1>1, <2>1 DEF FiniteInv, TypeOK
<1>6. CASE Crash
  BY <1>1, <1>6 DEF Crash, FiniteInv, tables
<1>7. ASSUME NEW r \in Requests,
             GetMe(r) \/ AdminSubscribe(r) \/ StripeWebhook(r) \/ Handle(r)
      PROVE  UNCHANGED <<subs, seen>>
  BY <1>7 DEF GetMe, AdminSubscribe, StripeWebhook, Handle, HandleEvent, Stage, Raise, tables
<1>8. CASE Quiet \/ UNCHANGED vars
  BY <1>4, <1>8 DEF Quiet, vars, tables, session
<1> QED  BY <1>2, <1>3, <1>4, <1>5, <1>6, <1>7, <1>8 DEF Next, Progress, Begin, Deliver

\* The statistics of a set of rows, and who these are about.
OfPlan(A, p) == {s \in A : s.plan = p}
OfUser(A, u) == {s \in A : UserOf[s.by] = u}
UsersOf(A)   == {UserOf[s.by] : s \in A}
ByPlan(A, w) == [p \in Plans |-> w[p] * Cardinality(OfPlan(A, p))]
ByUser(A, w) == [u \in UsersOf(A) |-> w[(CHOOSE s \in OfUser(A, u) : TRUE).plan]]

Chosen(S) == CHOOSE s \in S : TRUE

\* One row of each user.
OneEach(A) == A \subseteq Row /\ IsFiniteSet(A) /\ \A s, t \in A : UserOf[s.by] = UserOf[t.by] => s = t

LEMMA UsersFinite ==
    ASSUME NEW A, IsFiniteSet(A)
    PROVE  IsFiniteSet(UsersOf(A))
<1> DEFINE f == [s \in A |-> UserOf[s.by]]
<1>1. f \in Surjection(A, UsersOf(A))
  BY DEF Surjection, UsersOf
<1> QED  BY <1>1, FS_Surjection

\* The row of a user that is alone in having one.
LEMMA RowOfUser ==
    ASSUME NEW A, OneEach(A), NEW s \in A, NEW w
    PROVE  /\ OfUser(A, UserOf[s.by]) = {s} /\ UserOf[s.by] \in UsersOf(A)
           /\ ByUser(A, w)[UserOf[s.by]] = w[s.plan]
<1>1. OfUser(A, UserOf[s.by]) = {s} /\ UserOf[s.by] \in UsersOf(A)
  BY DEF OfUser, UsersOf, OneEach
<1>2. (CHOOSE t \in {s} : TRUE) = s
  OBVIOUS
<1> QED  BY <1>1, <1>2 DEF ByUser

\* Weighing by plan or by user comes to the same: take away one row at a time.
LEMMA CountedTwoWays ==
    ASSUME NEW A, OneEach(A), NEW w \in [Plans -> Nat]
    PROVE  Sum(ByPlan(A, w), Plans) = Sum(ByUser(A, w), UsersOf(A))
<1> DEFINE Same(B) == Sum(ByPlan(B, w), Plans) = Sum(ByUser(B, w), UsersOf(B))
           bad == {n \in Nat : \E B : OneEach(B) /\ Cardinality(B) = n /\ ~Same(B)}
<1>1. IsFiniteSet(Plans)
  BY SubscriptionsAssumption
<1>2. ASSUME NEW B, OneEach(B)
      PROVE  /\ Cardinality(B) \in Nat
             /\ \A p \in Plans : /\ IsFiniteSet(OfPlan(B, p))
                                 /\ Cardinality(OfPlan(B, p)) \in Nat
             /\ \A p \in Plans : ByPlan(B, w)[p] \in Nat
             /\ IsFiniteSet(UsersOf(B))
             /\ \A u \in UsersOf(B) : ByUser(B, w)[u] \in Nat
  <2>1. IsFiniteSet(B)
    BY <1>2 DEF OneEach
  <2>2. ASSUME NEW p \in Plans
        PROVE  IsFiniteSet(OfPlan(B, p)) /\ Cardinality(OfPlan(B, p)) \in Nat
    <3>1. OfPlan(B, p) \in SUBSET B
      BY DEF OfPlan
    <3> QED  BY <2>1, <3>1, FS_Subset, FS_CardinalityType
  <2>3. ASSUME NEW p \in Plans
        PROVE  ByPlan(B, w)[p] \in Nat
    <3>1. w[p] \in Nat /\ Cardinality(OfPlan(B, p)) \in Nat
      BY <2>2
    <3> QED  BY <3>1 DEF ByPlan
  <2>4. ASSUME NEW u \in UsersOf(B)
        PROVE  ByUser(B, w)[u] \in Nat
    <3>1. PICK s \in B : u = UserOf[s.by]
      BY DEF UsersOf
    <3>2. s.plan \in Plans
      BY <1>2 DEF OneEach, Row
    <3> QED  BY <1>2, <3>1, <3>2, RowOfUser
  <2> QED  BY <2>1, <2>2, <2>3, <2>4, UsersFinite, FS_CardinalityType
<1>3. CASE bad = {}
  <2>1. Cardinality(A) \in Nat
    BY <1>2
  <2>2. Same(A)
    BY <1>3, <2>1
  <2> QED  BY <2>2
<1>4. CASE bad # {}
  <2> HIDE DEF Same
  <2>1. PICK n \in bad : \A m \in bad : n <= m
    BY <1>4, LeastNumber
  <2>2. PICK B : OneEach(B) /\ Cardinality(B) = n /\ ~Same(B)
    BY <2>1
  <2>3. CASE B = {}
    <3>1. \A p \in Plans : ByPlan(B, w)[p] = 0
      <4> SUFFICES ASSUME NEW p \in Plans  PROVE ByPlan(B, w)[p] = 0
        OBVIOUS
      <4>1. OfPlan(B, p) = {} /\ Cardinality({}) = 0
        BY <2>3, FS_EmptySet DEF OfPlan
      <4>2. w[p] \in Nat
        OBVIOUS
      <4> QED  BY <4>1, <4>2 DEF ByPlan
    <3>2. Sum(ByPlan(B, w), Plans) = 0
      BY <1>1, <3>1, SumOfZeros
    <3>3. UsersOf(B) = {} /\ IsFiniteSet({})
      BY <2>3, FS_EmptySet DEF UsersOf
    <3>4. Sum(ByUser(B, w), {}) = 0
      BY <3>3, SumChosen
    <3> QED  BY <2>2, <3>2, <3>3, <3>4 DEF Same
  <2>4. CASE B # {}
    <3>1. PICK s : s \in B
      BY <2>4
    <3>2. PICK C : C = B \ {s}
      OBVIOUS
    <3>3. OneEach(C) /\ Cardinality(C) = Cardinality(B) - 1
      <4>1. IsFiniteSet(B)
        BY <2>2 DEF OneEach
      <4>2. IsFiniteSet(C) /\ Cardinality(C) = Cardinality(B) - 1
        BY <3>1, <3>2, <4>1, FS_RemoveElement
      <4> QED  BY <2>2, <3>2, <4>2 DEF OneEach
    <3>4. Same(C)
      <4>1. Cardinality(C) \in Nat /\ Cardinality(C) < n
        BY <1>2, <2>2, <3>3
      <4> QED  BY <2>1, <3>3, <4>1
    <3> DEFINE p == s.plan
               u == UserOf[s.by]
               f == ByPlan(B, w)
               g == ByPlan(C, w)
               h == ByUser(B, w)
               k == ByUser(C, w)
    <3>5. p \in Plans
      BY <2>2, <3>1 DEF OneEach, Row
    <3>6. f[p] = g[p] + w[p] /\ \A q \in Plans \ {p} : f[q] = g[q]
      <4>1. OfPlan(B, p) = OfPlan(C, p) \cup {s} /\ s \notin OfPlan(C, p)
        BY <3>1, <3>2 DEF OfPlan
      <4>2. IsFiniteSet(OfPlan(C, p)) /\ Cardinality(OfPlan(C, p)) \in Nat
        BY <1>2, <3>3, <3>5
      <4>3. Cardinality(OfPlan(B, p)) = Cardinality(OfPlan(C, p)) + 1
        BY <4>1, <4>2, FS_AddElement
      <4>4. w[p] \in Nat
        BY <3>5
      <4>5. f[p] = w[p] * Cardinality(OfPlan(B, p)) /\ g[p] = w[p] * Cardinality(OfPlan(C, p))
        BY <3>5 DEF ByPlan
      <4>6. \A a, b \in Nat : a * (b + 1) = a * b + a
        OBVIOUS
      <4>7. f[p] = g[p] + w[p]
        BY <4>2, <4>3, <4>4, <4>5, <4>6
      <4>8. ASSUME NEW q \in Plans \ {p}
            PROVE  f[q] = g[q]
        <5>1. OfPlan(B, q) = OfPlan(C, q)
          BY <3>1, <3>2 DEF OfPlan
        <5> QED  BY <5>1 DEF ByPlan
      <4> QED  BY <4>7, <4>8
    <3>7. u \in UsersOf(B) /\ UsersOf(C) = UsersOf(B) \ {u} /\ h[u] = w[p]
      <4>1. h[u] = w[p] /\ u \in UsersOf(B)
        BY <2>2, <3>1, RowOfUser
      <4>2. UsersOf(C) = UsersOf(B) \ {u}
        BY <2>2, <3>1, <3>2 DEF UsersOf, OneEach
      <4> QED  BY <4>1, <4>2
    <3>8. \A v \in UsersOf(C) : h[v] = k[v]
      <4> SUFFICES ASSUME NEW v \in UsersOf(C)  PROVE h[v] = k[v]
        OBVIOUS
      <4>1. PICK t \in C : v = UserOf[t.by]
        BY DEF UsersOf
      <4>2. t \in B
        BY <3>2
      <4> QED  BY <2>2, <3>3, <4>1, <4>2, RowOfUser
    <3>9. PICK P : P = Plans \ {p}
      OBVIOUS
    <3>10. /\ Sum(f, Plans) = f[p] + Sum(f, P) /\ Sum(g, Plans) = g[p] + Sum(g, P)
           /\ Sum(g, Plans) \in Nat /\ IsFiniteSet(P)
      <4>1. \A q \in Plans : f[q] \in Nat /\ g[q] \in Nat
        BY <1>2, <2>2, <3>3
      <4> HIDE DEF f, g, p
      <4>2. \A q \in Plans : Sum(f, Plans) = f[q] + Sum(f, Plans \ {q})
        <5>1. \A q \in Plans : f[q] \in Nat
          BY <4>1
        <5> QED  BY <1>1, <5>1, SumTakes
      <4>3. /\ Sum(g, Plans) \in Nat
            /\ \A q \in Plans : Sum(g, Plans) = g[q] + Sum(g, Plans \ {q})
        <5>1. \A q \in Plans : g[q] \in Nat
          BY <4>1
        <5> QED  BY <1>1, <5>1, SumTakes
      <4>4. IsFiniteSet(Plans \ {p})
        BY <1>1, FS_RemoveElement
      <4> QED  BY <3>5, <3>9, <4>2, <4>3, <4>4
    <3>11. Sum(f, P) = Sum(g, P) /\ Sum(g, P) \in Nat
      BY <1>2, <3>3, <3>6, <3>9, <3>10, SumSame, SumTakes
    <3>12. Sum(h, UsersOf(B)) = h[u] + Sum(h, UsersOf(C))
      BY <1>2, <2>2, <3>7, SumTakes
    <3>13. Sum(h, UsersOf(C)) = Sum(k, UsersOf(C))
      BY <1>2, <3>3, <3>8, SumSame
    <3>14. g[p] \in Nat /\ w[p] \in Nat
      BY <1>2, <3>3, <3>5
    <3>15. Sum(g, Plans) = Sum(k, UsersOf(C))
      BY <3>4 DEF Same
    <3> HIDE DEF f, g, h, k, p, u
    <3>16. Sum(f, Plans) = Sum(h, UsersOf(B))
      BY <3>6, <3>7, <3>10, <3>11, <3>12, <3>13, <3>14, <3>15
    <3> QED  BY <2>2, <3>16 DEF Same, f, h
  <2> QED  BY <2>3, <2>4
<1> QED  BY <1>3, <1>4

\* The reported revenue counts each subscriber once, at the price of his plan, for any
\* catalogue, users and requests, as long as no two requests about one user overlapped.
THEOREM RevenueIsCounted == Spec => []RevenueCountsEachOnce
<1>1. SubscriptionsInv /\ FiniteInv => RevenueCountsEachOnce
  <2> SUFFICES ASSUME SubscriptionsInv, FiniteInv, overlapped = {}
               PROVE  /\ TotalSubs = Cardinality(Subscribed)
                      /\ TotalRevenue = SumFunction(
                            [u \in Subscribed |-> Price[(CHOOSE s \in Active(u) : TRUE).plan]])
    BY DEF RevenueCountsEachOnce
  <2> DEFINE A == {s \in subs : s.active}
             one == [p \in Plans |-> 1]
  <2>1. OneEach(A)
    <3>1. subs \subseteq Row /\ A \in SUBSET subs
      BY DEF SubscriptionsInv, TypeOK
    <3>2. IsFiniteSet(A)
      BY <3>1, FS_Subset DEF FiniteInv
    <3>3. ASSUME NEW s \in A, NEW t \in A, UserOf[s.by] = UserOf[t.by]
          PROVE  s = t
      <4>1. UserOf[s.by] \in Users
        BY <3>1, SubscriptionsAssumption DEF Row
      <4>2. s \in Active(UserOf[s.by]) /\ t \in Active(UserOf[s.by])
        BY <3>3 DEF Active
      <4> QED  BY <4>1, <4>2 DEF SubscriptionsInv, OneUnlessOverlapped
    <3> QED  BY <3>1, <3>2, <3>3 DEF OneEach
  <2>2. \A u : OfUser(A, u) = Active(u)
    BY DEF OfUser, Active
  <2>3. UsersOf(A) = Subscribed
    <3>1. \A s \in A : UserOf[s.by] \in Users
      BY SubscriptionsAssumption DEF Row, SubscriptionsInv, TypeOK
    <3> QED  BY <3>1 DEF UsersOf, Subscribed, Active
  <2>4. \A p : Cardinality(OfPlan(A, p)) = Distribution(p)
    <3>1. \A p : OfPlan(A, p) = {s \in subs : s.plan = p /\ s.active}
      BY DEF OfPlan
    <3> QED  BY <3>1 DEF Distribution
  <2>5. \A f, D : DOMAIN f = D => SumFunction(f) = Sum(f, D)
    BY DEF SumFunction, Sum
  <2>6. IsFiniteSet(Plans) /\ Price \in [Plans -> Nat] /\ one \in [Plans -> Nat]
    BY SubscriptionsAssumption
  <2> HIDE DEF A, one
  <2>7. TotalSubs = Cardinality(Subscribed)
    <3>1. Sum(ByPlan(A, one), Plans) = Sum(ByUser(A, one), UsersOf(A))
      BY <2>1, <2>6, CountedTwoWays
    <3>2. \A p \in Plans : ByPlan(A, one)[p] = [q \in Plans |-> Distribution(q)][p]
      <4> SUFFICES ASSUME NEW p \in Plans  PROVE ByPlan(A, one)[p] = Distribution(p)
        OBVIOUS
      <4>1. ByPlan(A, one)[p] = 1 * Distribution(p)
        BY <2>4 DEF ByPlan, one
      <4>2. Distribution(p) \in Nat
        <5>1. OfPlan(A, p) \in SUBSET A /\ IsFiniteSet(A)
          BY <2>1 DEF OfPlan, OneEach
        <5> QED  BY <2>4, <5>1, FS_Subset, FS_CardinalityType
      <4> QED  BY <4>1, <4>2
    <3>3. \A u \in UsersOf(A) : ByUser(A, one)[u] = 1
      <4> SUFFICES ASSUME NEW u \in UsersOf(A)  PROVE ByUser(A, one)[u] = 1
        OBVIOUS
      <4>1. PICK s \in A : u = UserOf[s.by]
        BY DEF UsersOf
      <4>2. s.plan \in Plans
        BY <2>1 DEF OneEach, Row
      <4> QED  BY <2>1, <4>1, <4>2, RowOfUser DEF one
    <3>4. IsFiniteSet(UsersOf(A))
      BY <2>1, UsersFinite DEF OneEach
    <3>5. Sum(ByUser(A, one), UsersOf(A)) = Cardinality(Subscribed)
      BY <2>3, <3>3, <3>4, SumOfOnes
    <3>6. Sum([q \in Plans |-> Distribution(q)], Plans) = Sum(ByPlan(A, one), Plans)
      BY <2>6, <3>2, SumSame
    <3>7. TotalSubs = Sum([q \in Plans |-> Distribution(q)], Plans)
      BY <2>5 DEF TotalSubs
    <3> QED  BY <3>1, <3>5, <3>6, <3>7
  <2>8. TotalRevenue = SumFunction(
            [u \in Subscribed |-> Price[(CHOOSE s \in Active(u) : TRUE).plan]])
    <3>1. Sum(ByPlan(A, Price), Plans) = Sum(ByUser(A, Price), UsersOf(A))
      BY <2>1, <2>6, CountedTwoWays
    <3>2. ByPlan(A, Price) = [p \in Plans |-> Price[p] * Distribution(p)]
      BY <2>4 DEF ByPlan
    <3> DEFINE value == [u \in Subscribed |-> Price[(CHOOSE s \in Active(u) : TRUE).plan]]
    <3>3. \A u \in UsersOf(A) : ByUser(A, Price)[u] = value[u]
      <4> SUFFICES ASSUME NEW u \in UsersOf(A)  PROVE ByUser(A, Price)[u] = value[u]
        OBVIOUS
      <4>1. ByUser(A, Price)[u] = Price[Chosen(OfUser(A, u)).plan]
        BY DEF ByUser, Chosen
      <4>2. value[u] = Price[Chosen(Active(u)).plan]
        BY <2>3 DEF Chosen
      <4>3. OfUser(A, u) = Active(u)
        BY <2>2
      <4> HIDE DEF value
      <4> QED  BY <4>1, <4>2, <4>3
    <3>4. DOMAIN ByPlan(A, Price) = Plans /\ DOMAIN value = UsersOf(A)
      BY <2>3 DEF ByPlan
    <3> HIDE DEF value
    <3>5. Sum(ByUser(A, Price), UsersOf(A)) = Sum(value, UsersOf(A))
      BY <2>1, <3>3, UsersFinite, SumSame DEF OneEach
    <3>6. SumFunction(ByPlan(A, Price)) = SumFunction(value)
      BY <2>5, <3>1, <3>4, <3>5
    <3> QED  BY <3>2, <3>6 DEF TotalRevenue, value
  <2> QED  BY <2>7, <2>8
<1>2. Init => FiniteInv
  <2> SUFFICES ASSUME Init  PROVE FiniteInv
    OBVIOUS
  <2>1. subs = {} /\ \A r \in Requests : seen[r].subs = {}
    BY DEF Init
  <2> QED  BY <2>1, FS_EmptySet DEF FiniteInv
<1>3. SubscriptionsInv /\ FiniteInv /\ [Next]_vars => SubscriptionsInv' /\ FiniteInv'
  BY SubscriptionsStep, FiniteStep
<1>4. Spec => [](SubscriptionsInv /\ FiniteInv)
  BY <1>2, <1>3, SubscriptionsInit, PTL DEF Spec
<1> QED  BY <1>1, <1>4, PTL
============================================================================
