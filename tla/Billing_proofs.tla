---------------------------- MODULE Billing_proofs ----------------------------
(***************************************************************************)
(* Proofs about Billing: that the plan a workspace is on is the one the    *)
(* provider is paid for, whatever order the webhooks came in, for any      *)
(* number of subscriptions and handlers.                                   *)
(***************************************************************************)
EXTENDS Billing, TLAPS

-----------------------------------------------------------------------------
(* Types.                                                                  *)

Plans == {"free", "pro", "team", "enterprise"}
Snapshot == [at: Nat, plan: Plans, paying: BOOLEAN, seats: Nat]
Message == [sub: Sub, at: Nat, copy: Snapshot]
Subscription ==
  [status: {"none", "open", "paying", "lapsed"}, at: Nat, bought: Plans, plan: Plans,
   seats: Nat, pending: Nat]
Work ==
  [step: {"idle", "save", "current", "paid", "set", "row", "count", "look", "change"},
   todo: SUBSET Message, msg: Nat, known: Plans, paid: Plans, addOnly: BOOLEAN,
   members: Nat, sub: SUBSET Sub,
   change: {"none", "add-now", "reduce-at-renewal", "drop-pending"}]

\* Something is asked of the provider only when there is something to ask.
Working == {w \in Work : w.step = "change" => w.change # "none"}

TypeInv ==
  /\ theirs \in [Sub -> Subscription] /\ ours \in [Sub -> Snapshot]
  /\ plan \in Plans /\ members \in Nat /\ wire \subseteq Message
  /\ work \in [Handler -> Working] /\ now \in Nat

\* What is copied of a subscription.
LEMMA CopyIs ==
  ASSUME NEW sub \in Subscription
  PROVE  /\ Copy(sub) \in Snapshot /\ Copy(sub).at = sub.at
         /\ Copy(sub).plan = sub.plan /\ (Copy(sub).paying <=> sub.status = "paying")
  BY DEF Copy, Snapshot, Subscription

\* What is paid for is a plan, whatever the copies say.
LEMMA PaidPlanTyped ==
  ASSUME NEW subs \in [Sub -> Snapshot]
  PROVE  PaidPlan(subs) \in Plans
<1>1. PICK paid : paid = {subs[s].plan : s \in {x \in Sub : subs[x].paying}}
  OBVIOUS
<1>2. paid \subseteq Plans
  BY <1>1 DEF Snapshot
<1>3. CASE paid = {}
  BY <1>1, <1>3 DEF PaidPlan, Plans
<1>4. CASE paid # {}
  <2>1. \E p \in paid : \A q \in paid : Rank(p) >= Rank(q)
    <3>1. CASE "enterprise" \in paid
      BY <1>2, <3>1 DEF Rank, Plans
    <3>2. CASE "enterprise" \notin paid /\ "team" \in paid
      BY <1>2, <3>2 DEF Rank, Plans
    <3>3. CASE "enterprise" \notin paid /\ "team" \notin paid /\ "pro" \in paid
      BY <1>2, <3>3 DEF Rank, Plans
    <3>4. CASE paid = {"free"}
      BY <3>4 DEF Rank
    <3> QED
      BY <1>2, <1>4, <3>1, <3>2, <3>3, <3>4 DEF Plans
  <2>2. Largest(paid) \in paid
    BY <2>1 DEF Largest
  <2>3. PaidPlan(subs) = Largest(paid)
    BY <1>1, <1>4 DEF PaidPlan
  <2> QED
    BY <1>2, <2>2, <2>3
<1> QED
  BY <1>3, <1>4

\* A handler that is idle is one.
LEMMA IdleTyped == Idle \in Working /\ Idle.msg = 0 /\ Idle.todo = {} /\ Idle.step = "idle"
  BY DEF Idle, Working, Work, Plans

\* A change of a subscription, and the webhook it sends.
LEMMA BecomesIs ==
  ASSUME TypeInv, NEW s \in Sub, NEW sub \in Subscription, Becomes(s, sub)
  PROVE  \E new \in Subscription :
           /\ new.at = now + 1 /\ new.status = sub.status
           /\ new = [sub EXCEPT !.at = now + 1]
           /\ now' = now + 1 /\ theirs' = [theirs EXCEPT ![s] = new]
           /\ wire' = wire \cup {[sub |-> s, at |-> now + 1, copy |-> Copy(new)]}
           /\ [sub |-> s, at |-> now + 1, copy |-> Copy(new)] \in Message
<1>1. PICK new : new = [sub EXCEPT !.at = now + 1]
  OBVIOUS
<1>2. new \in Subscription /\ new.at = now + 1 /\ new.status = sub.status
  BY <1>1 DEF Subscription, TypeInv
<1>3. [sub |-> s, at |-> now + 1, copy |-> Copy(new)] \in Message
  BY <1>2, CopyIs DEF Message, TypeInv
<1> QED
  BY <1>1, <1>2, <1>3 DEF Becomes

\* What is still to be done is one step of a handler's work.
LEMMA GotoTyped ==
  ASSUME TypeInv, NEW h \in Handler, NEW w \in Working, Goto(h, w)
  PROVE  work' \in [Handler -> Working] /\ work'[h] = w
         /\ \A k \in Handler \ {h} : work'[k] = work[k]
  BY DEF Goto, TypeInv

\* Everything starts free, and nothing is under way.
LEMMA InitTyped == Init => TypeInv
<1> SUFFICES ASSUME Init PROVE TypeInv
  OBVIOUS
<1>1. Never \in Subscription /\ None \in Snapshot
  BY DEF Never, None, Subscription, Snapshot, Plans
<1>2. theirs \in [Sub -> Subscription] /\ ours \in [Sub -> Snapshot]
  BY <1>1 DEF Init
<1>3. work \in [Handler -> Working]
  BY IdleTyped DEF Init
<1>4. plan \in Plans /\ members \in Nat /\ wire \subseteq Message /\ now \in Nat
  BY BoundsAssumption DEF Init, Plans
<1> QED
  BY <1>2, <1>3, <1>4 DEF TypeInv

\* The provider's steps on a subscription, and the one it then is.
ProviderStep(s) ==
  \/ \E p \in {"pro", "team"} : StartCheckout(s, p)
  \/ Pay(s) \/ SwitchPlan(s) \/ Lapse(s) \/ Recover(s) \/ Renew(s)

\* A checkout sends nothing; every other change is a change of the
\* subscription, paying or lapsed from then on.
LEMMA ProviderIs ==
  ASSUME TypeInv, NEW s \in Sub, ProviderStep(s)
  PROVE  /\ UNCHANGED <<ours, plan, members, work, sole>>
         /\ \/ \E sub \in Subscription :
                 sub.status \in {"paying", "lapsed"} /\ Becomes(s, sub)
            \/ /\ UNCHANGED <<wire, now>> /\ theirs[s].at = 0
               /\ \E sub \in Subscription :
                    /\ sub.at = 0 /\ sub.status = "open"
                    /\ theirs' = [theirs EXCEPT ![s] = sub]
<1>T. theirs[s] \in Subscription /\ members \in Nat
  BY DEF TypeInv
<1>1. ASSUME NEW p \in {"pro", "team"}, StartCheckout(s, p)
      PROVE  /\ UNCHANGED <<wire, now>> /\ theirs[s].at = 0
             /\ UNCHANGED <<ours, plan, members, work, sole>>
             /\ \E sub \in Subscription :
                  /\ sub.at = 0 /\ sub.status = "open"
                  /\ theirs' = [theirs EXCEPT ![s] = sub]
  <2>1. PICK sub : sub = [status |-> "open", at |-> 0, bought |-> p, plan |-> p,
                          seats |-> IF p = "team" THEN members ELSE 0, pending |-> 0]
    OBVIOUS
  <2>2. sub \in Subscription /\ sub.at = 0 /\ sub.status = "open"
    BY <1>T, <2>1 DEF Subscription, Plans
  <2>3. theirs' = [theirs EXCEPT ![s] = sub]
    BY <1>1, <2>1 DEF StartCheckout
  <2>4. theirs[s].at = 0
    BY <1>1 DEF StartCheckout, Never
  <2> QED
    BY <1>1, <2>2, <2>3, <2>4 DEF StartCheckout
<1>2. CASE Pay(s)
  <2>1. [theirs[s] EXCEPT !.status = "paying"] \in Subscription
    BY <1>T DEF Subscription
  <2>2. [theirs[s] EXCEPT !.status = "paying"].status = "paying"
    BY <1>T DEF Subscription
  <2> QED
    BY <1>2, <2>1, <2>2 DEF Pay
<1>3. CASE SwitchPlan(s)
  <2>1. PICK sub : sub = IF theirs[s].plan = "pro"
                           THEN [theirs[s] EXCEPT !.plan = "team", !.seats = 1]
                           ELSE [theirs[s] EXCEPT !.plan = "pro", !.seats = 0, !.pending = 0]
    OBVIOUS
  <2>2. sub \in Subscription /\ sub.status = "paying"
    BY <1>3, <1>T, <2>1 DEF SwitchPlan, Subscription, Plans
  <2> QED
    BY <1>3, <2>1, <2>2 DEF SwitchPlan
<1>4. CASE Lapse(s)
  <2>1. [theirs[s] EXCEPT !.status = "lapsed"] \in Subscription
    BY <1>T DEF Subscription
  <2>2. [theirs[s] EXCEPT !.status = "lapsed"].status = "lapsed"
    BY <1>T DEF Subscription
  <2> QED
    BY <1>4, <2>1, <2>2 DEF Lapse
<1>5. CASE Recover(s)
  <2>1. [theirs[s] EXCEPT !.status = "paying"] \in Subscription
    BY <1>T DEF Subscription
  <2>2. [theirs[s] EXCEPT !.status = "paying"].status = "paying"
    BY <1>T DEF Subscription
  <2> QED
    BY <1>5, <2>1, <2>2 DEF Recover
<1>6. CASE Renew(s)
  <2>1. PICK sub : sub = [theirs[s] EXCEPT !.seats = theirs[s].pending, !.pending = 0]
    OBVIOUS
  <2>2. sub \in Subscription /\ sub.status = "paying"
    BY <1>6, <1>T, <2>1 DEF Renew, Subscription
  <2> QED
    BY <1>6, <2>1, <2>2 DEF Renew
<1> QED
  BY <1>1, <1>2, <1>3, <1>4, <1>5, <1>6 DEF ProviderStep

\* A webhook is a message.
LEMMA WebhookTyped ==
  ASSUME TypeInv, NEW s \in Sub
  PROVE  /\ Webhook(s) \in Message /\ Webhook(s).sub = s
         /\ Webhook(s).at = theirs[s].at /\ Webhook(s).copy = Copy(theirs[s])
<1>1. theirs[s] \in Subscription
  BY DEF TypeInv
<1>2. Copy(theirs[s]) \in Snapshot /\ theirs[s].at \in Nat
  BY <1>1, CopyIs DEF Subscription
<1> QED
  BY <1>2 DEF Webhook, Message

\* What a handler takes on, when it starts to apply what the provider says.
Takes(h) == (\E m \in wire : Receive(h, m) \/ Redeliver(h, m)) \/ Reconcile(h)

\* It is the webhook it answers, or every subscription as it then is.
LEMMA TakesIs ==
  ASSUME TypeInv, NEW h \in Handler, Takes(h)
  PROVE  /\ UNCHANGED <<theirs, ours, plan, members, wire, now>> /\ sole' = Alone(h)
         /\ \E new \in Working :
              /\ Goto(h, new) /\ new.step = "save"
              /\ \/ \E m \in wire : new.todo = {m} /\ new.msg = m.at
                 \/ /\ new.msg = 0
                    /\ \A m \in new.todo : \E s \in Sub : m = Webhook(s) /\ theirs[s].at # 0
<1>1. ASSUME NEW m \in wire, Receive(h, m) \/ Redeliver(h, m)
      PROVE  \E new \in Working :
               Goto(h, new) /\ new.step = "save" /\ new.todo = {m} /\ new.msg = m.at
  <2>1. PICK new : new = [Idle EXCEPT !.step = "save", !.todo = {m}, !.msg = m.at]
    OBVIOUS
  <2>2. new \in Working /\ new.step = "save" /\ new.todo = {m} /\ new.msg = m.at
    <3>1. m \in Message /\ m.at \in Nat
      BY DEF TypeInv, Message
    <3> QED
      BY <2>1, <3>1, IdleTyped DEF Working, Work
  <2>3. Goto(h, new)
    BY <1>1, <2>1 DEF Receive, Redeliver
  <2> QED
    BY <2>2, <2>3
<1>2. ASSUME Reconcile(h)
      PROVE  \E new \in Working :
               /\ Goto(h, new) /\ new.step = "save" /\ new.msg = 0
               /\ \A m \in new.todo : \E s \in Sub : m = Webhook(s) /\ theirs[s].at # 0
  <2>1. PICK todo : todo = {Webhook(s) : s \in {z \in Sub : theirs[z].at # 0}}
    OBVIOUS
  <2>2. PICK new : new = [Idle EXCEPT !.step = "save", !.todo = todo]
    OBVIOUS
  <2>3. todo \in SUBSET Message
    BY <2>1, WebhookTyped
  <2>4. new \in Working /\ new.step = "save" /\ new.todo = todo /\ new.msg = 0
    BY <2>2, <2>3, IdleTyped DEF Working, Work
  <2>5. Goto(h, new)
    BY <1>2, <2>1, <2>2 DEF Reconcile
  <2>6. \A m \in todo : \E s \in Sub : m = Webhook(s) /\ theirs[s].at # 0
    BY <2>1
  <2> QED
    BY <2>4, <2>5, <2>6
<1>3. UNCHANGED <<theirs, ours, plan, members, wire, now>> /\ sole' = Alone(h)
  BY DEF Takes, Receive, Redeliver, Reconcile
<1> QED
  BY <1>1, <1>2, <1>3 DEF Takes

\* A snapshot saved: the newer of it and the copy is kept.
LEMMA SaveIs ==
  ASSUME TypeInv, NEW h \in Handler, SaveSnapshot(h)
  PROVE  /\ work[h].step = "save" /\ UNCHANGED <<theirs, plan, members, wire, now, sole>>
         /\ \E m \in work[h].todo, new \in Working :
              /\ m \in Message /\ m \in work[h].todo /\ Goto(h, new)
              /\ new.step = "current" /\ new.todo = work[h].todo \ {m}
              /\ new.msg = work[h].msg
              /\ ours' = IF ours[m.sub].at <= m.at THEN [ours EXCEPT ![m.sub] = m.copy] ELSE ours
<1>1. PICK m \in work[h].todo :
        /\ ours' = IF Newer(m) THEN [ours EXCEPT ![m.sub] = m.copy] ELSE ours
        /\ Goto(h, [work[h] EXCEPT !.step = "current", !.todo = @ \ {m},
                                   !.addOnly = m.copy.plan = "team"])
  BY DEF SaveSnapshot
<1>2. PICK b, new :
        /\ b = (m.copy.plan = "team")
        /\ new = [work[h] EXCEPT !.step = "current", !.todo = work[h].todo \ {m},
                                 !.addOnly = b]
  OBVIOUS
<1>3. work[h] \in Working /\ work[h].todo \in SUBSET Message
  BY DEF TypeInv, Working, Work
<1>4. b \in BOOLEAN
  BY <1>2
<1>5. new \in Working /\ new.step = "current" /\ new.todo = work[h].todo \ {m}
      /\ new.msg = work[h].msg
  BY <1>2, <1>3, <1>4 DEF Working, Work
<1>6. Goto(h, new)
  BY <1>1, <1>2
<1>7. m \in Message
  BY <1>3
<1> QED
  BY <1>1, <1>5, <1>6, <1>7 DEF SaveSnapshot, Newer

\* Where a handler goes once it has answered.
Answer == {w \in Working : w.step \in {"idle", "row"} /\ w.msg = 0 /\ w.todo = {}}

\* Answering leaves nothing to save.
LEMMA AnsweredIs ==
  ASSUME NEW h, NEW w
  PROVE  Answered(h, w) \in Answer /\ Idle \in Answer
<1>1. Idle \in Answer
  BY IdleTyped DEF Answer
<1>2. [Idle EXCEPT !.step = "row", !.addOnly = TRUE] \in Answer
  BY IdleTyped DEF Answer, Working, Work
<1> QED
  BY <1>1, <1>2 DEF Answered

\* A snapshot applied: the next one is saved, or the webhook is off the wire.
LEMMA AppliedIs ==
  ASSUME TypeInv, NEW h \in Handler, NEW next \in Answer, Applied(h, next)
  PROVE  \E new \in Working :
           /\ Goto(h, new)
           /\ \/ /\ work[h].todo # {} /\ new.step = "save" /\ new.todo = work[h].todo
                 /\ new.msg = work[h].msg /\ wire' = wire /\ sole' = sole
              \/ /\ work[h].todo = {} /\ new \in Answer
                 /\ wire' = {m \in wire : m.at # work[h].msg} /\ Settles(h)
<1>T. work[h] \in Working
  BY DEF TypeInv
<1>1. CASE work[h].todo # {}
  <2>1. PICK new : new = [work[h] EXCEPT !.step = "save", !.known = "free", !.paid = "free"]
    OBVIOUS
  <2>2. new \in Working /\ new.step = "save" /\ new.todo = work[h].todo /\ new.msg = work[h].msg
    BY <1>T, <2>1 DEF Working, Work, Plans
  <2> QED
    BY <1>1, <2>1, <2>2 DEF Applied
<1>2. CASE work[h].todo = {}
  BY <1>2 DEF Applied, Answer
<1> QED
  BY <1>1, <1>2

\* What comes of reading the plan, reading what is paid for and setting it: the
\* handler reads on, or the snapshot has been applied.
Judges(h) == ReadPlan(h) \/ ReadPaid(h) \/ SetPlan(h)

\* A handler that judges changes nothing but the plan, what is on the wire and
\* its own work.
LEMMA JudgesIs ==
  ASSUME TypeInv, NEW h \in Handler, Judges(h)
  PROVE  /\ UNCHANGED <<theirs, ours, members, now>>
         /\ work[h].step \in {"current", "paid", "set"}
         /\ \/ /\ UNCHANGED <<wire, sole, plan>>
               /\ \E new \in Working :
                    /\ Goto(h, new) /\ new.todo = work[h].todo /\ new.msg = work[h].msg
                    /\ \/ new.step = "paid" /\ new.known = plan
                       \/ /\ work[h].step = "paid" /\ new.step = "set"
                          /\ new.paid = PaidPlan(ours)
            \/ /\ \E next \in Answer : Applied(h, next)
               /\ \/ plan' = plan /\ work[h].step = "current" /\ plan = "enterprise"
                  \/ plan' = plan /\ work[h].step = "paid" /\ PaidPlan(ours) = work[h].known
                  \/ plan' = work[h].paid /\ work[h].step = "set"
<1>T. work[h] \in Working /\ plan \in Plans /\ PaidPlan(ours) \in Plans
  BY PaidPlanTyped DEF TypeInv
<1>A. Answered(h, work[h]) \in Answer /\ Idle \in Answer
  BY AnsweredIs
<1>1. CASE ReadPlan(h) /\ plan = "enterprise"
  BY <1>1, <1>A DEF ReadPlan
<1>2. CASE ReadPlan(h) /\ plan # "enterprise"
  <2>1. PICK new : new = [work[h] EXCEPT !.step = "paid", !.known = plan]
    OBVIOUS
  <2>2. /\ new \in Working /\ new.todo = work[h].todo /\ new.msg = work[h].msg
        /\ new.step = "paid" /\ new.known = plan
    BY <1>T, <2>1 DEF Working, Work
  <2>3. Goto(h, new) /\ UNCHANGED <<wire, sole, plan>>
    BY <1>2, <2>1 DEF ReadPlan
  <2> QED
    BY <1>2, <2>2, <2>3 DEF ReadPlan
<1>3. CASE ReadPaid(h) /\ PaidPlan(ours) = work[h].known
  BY <1>3, <1>A DEF ReadPaid
<1>4. CASE ReadPaid(h) /\ PaidPlan(ours) # work[h].known
  <2>1. PICK new : new = [work[h] EXCEPT !.step = "set", !.paid = PaidPlan(ours)]
    OBVIOUS
  <2>2. /\ new \in Working /\ new.todo = work[h].todo /\ new.msg = work[h].msg
        /\ new.step = "set" /\ new.paid = PaidPlan(ours)
    BY <1>T, <2>1 DEF Working, Work
  <2>3. Goto(h, new) /\ UNCHANGED <<wire, sole, plan>>
    BY <1>4, <2>1 DEF ReadPaid
  <2> QED
    BY <1>4, <2>2, <2>3 DEF ReadPaid
<1>5. CASE SetPlan(h)
  BY <1>5, <1>A DEF SetPlan
<1> QED
  BY <1>1, <1>2, <1>3, <1>4, <1>5 DEF Judges

\* What the seats take: everything but asking the provider for a change.
Counts(h) ==
  (\E n \in 1..MaxMembers : MembersChange(h, n)) \/ ReadRow(h) \/ CountMembers(h) \/ LookAtSeats(h)

\* Counting seats moves nothing but the handler that counts.
LEMMA CountsIs ==
  ASSUME TypeInv, NEW h \in Handler, Counts(h)
  PROVE  /\ UNCHANGED <<theirs, ours, plan, wire, now, sole>> /\ members' \in Nat
         /\ work[h].step \in {"idle", "row", "count", "look"}
         /\ \E new \in Working :
              /\ Goto(h, new) /\ new.step \in {"idle", "row", "count", "look", "change"}
              /\ new \in Answer \/ (new.msg = work[h].msg /\ new.todo = work[h].todo)
<1>T. work[h] \in Working /\ members \in Nat
  BY DEF TypeInv
<1>I. Idle \in Answer /\ Idle \in Working /\ Idle.step = "idle"
  BY AnsweredIs, IdleTyped
<1>1. ASSUME NEW n \in 1..MaxMembers, MembersChange(h, n)
      PROVE  \E new \in Answer : Goto(h, new)
  <2>1. [Idle EXCEPT !.step = "row"] \in Answer
    BY IdleTyped DEF Answer, Working, Work
  <2> QED
    BY <1>1, <2>1 DEF MembersChange
<1>2. ASSUME ReadRow(h)
      PROVE  \E new \in Working :
               /\ Goto(h, new) /\ new.step \in {"idle", "count"}
               /\ new \in Answer \/ (new.msg = work[h].msg /\ new.todo = work[h].todo)
  <2>1. PICK subs : subs = {s \in PayingSubscription : ours[s].plan = "team"}
    OBVIOUS
  <2>2. subs \subseteq Sub
    BY <2>1 DEF PayingSubscription, Paying
  <2>3. PICK new : new = [work[h] EXCEPT !.step = "count", !.sub = subs]
    OBVIOUS
  <2>4. new \in Working /\ new.step = "count" /\ new.msg = work[h].msg /\ new.todo = work[h].todo
    BY <1>T, <2>2, <2>3 DEF Working, Work
  <2>5. Goto(h, Idle) \/ Goto(h, new)
    BY <1>2, <2>1, <2>3 DEF ReadRow
  <2> QED
    BY <1>I, <2>4, <2>5
<1>3. ASSUME CountMembers(h)
      PROVE  \E new \in Working :
               /\ Goto(h, new) /\ new.step = "look"
               /\ new.msg = work[h].msg /\ new.todo = work[h].todo
  <2>1. PICK new : new = [work[h] EXCEPT !.step = "look", !.members = members]
    OBVIOUS
  <2>2. new \in Working /\ new.step = "look" /\ new.msg = work[h].msg /\ new.todo = work[h].todo
    BY <1>T, <2>1 DEF Working, Work
  <2> QED
    BY <1>3, <2>1, <2>2 DEF CountMembers
<1>4. ASSUME LookAtSeats(h)
      PROVE  \E new \in Working :
               /\ Goto(h, new) /\ new.step \in {"idle", "change"}
               /\ new \in Answer \/ (new.msg = work[h].msg /\ new.todo = work[h].todo)
  <2>1. PICK s \in work[h].sub :
          \/ Goto(h, Idle)
          \/ /\ SeatChange(work[h].members, theirs[s].seats, theirs[s].pending) # "none"
             /\ Goto(h, [work[h] EXCEPT !.step = "change", !.change =
                  SeatChange(work[h].members, theirs[s].seats, theirs[s].pending)])
    BY <1>4 DEF LookAtSeats
  <2>2. PICK change : change = SeatChange(work[h].members, theirs[s].seats, theirs[s].pending)
    OBVIOUS
  <2>3. change \in {"none", "add-now", "reduce-at-renewal", "drop-pending"}
    <3>1. s \in Sub /\ work[h].members \in Nat
      BY <1>T DEF Working, Work
    <3>2. theirs[s].seats \in Nat /\ theirs[s].pending \in Nat
      BY <3>1 DEF TypeInv, Subscription
    <3> QED
      BY <2>2, <3>1, <3>2 DEF SeatChange
  <2>4. PICK new : new = [work[h] EXCEPT !.step = "change", !.change = change]
    OBVIOUS
  <2>5. CASE change # "none"
    <3>1. new \in Working /\ new.step = "change" /\ new.msg = work[h].msg /\ new.todo = work[h].todo
      BY <1>T, <2>3, <2>4, <2>5 DEF Working, Work
    <3>2. Goto(h, Idle) \/ Goto(h, new)
      BY <2>1, <2>2, <2>4
    <3> QED
      BY <1>I, <3>1, <3>2
  <2>6. CASE change = "none"
    BY <1>I, <2>1, <2>2, <2>6
  <2> QED
    BY <2>5, <2>6
<1>5. /\ UNCHANGED <<theirs, ours, plan, wire, now, sole>> /\ members' \in Nat
      /\ work[h].step \in {"idle", "row", "count", "look"}
  <2>1. CASE \E n \in 1..MaxMembers : MembersChange(h, n)
    BY <2>1, IdleTyped, BoundsAssumption DEF MembersChange
  <2>2. CASE ReadRow(h) \/ CountMembers(h) \/ LookAtSeats(h)
    BY <1>T, <2>2 DEF ReadRow, CountMembers, LookAtSeats
  <2> QED
    BY <2>1, <2>2 DEF Counts
<1> QED
  BY <1>1, <1>2, <1>3, <1>4, <1>5 DEF Counts, Answer

\* A change of seats changes the subscription as any other change does, and its
\* answer is applied as a webhook is.
LEMMA ChangeSeatsIs ==
  ASSUME TypeInv, NEW h \in Handler, ChangeSeats(h)
  PROVE  /\ UNCHANGED <<ours, plan, members>> /\ work[h].step = "change"
         /\ \/ UNCHANGED <<theirs, wire, now, sole>> /\ Goto(h, Idle)
            \/ /\ sole' = Alone(h)
               /\ \E s \in Sub, sub \in Subscription, new \in Working :
                    /\ sub.status = "paying" /\ Becomes(s, sub)
                    /\ Goto(h, new) /\ new.step = "save" /\ new.msg = 0
                    /\ new.todo = {[sub |-> s, at |-> now + 1,
                                    copy |-> Copy([sub EXCEPT !.at = now + 1])]}
<1>T. work[h] \in Working /\ now \in Nat
  BY DEF TypeInv
<1>C. UNCHANGED <<ours, plan, members>> /\ work[h].step = "change"
  BY DEF ChangeSeats
<1>0. PICK s \in work[h].sub :
        IF theirs[s].status # "paying" \/ theirs[s].plan # "team"
        THEN Goto(h, Idle) /\ UNCHANGED <<theirs, wire, now, sole>>
        ELSE LET n == work[h].members
                 asked == CASE work[h].change = "add-now" ->
                                 [theirs[s] EXCEPT !.seats = n]
                            [] work[h].change = "reduce-at-renewal" ->
                                 [theirs[s] EXCEPT !.pending = n]
                            [] work[h].change = "drop-pending" ->
                                 [theirs[s] EXCEPT !.pending = 0]
             IN /\ Becomes(s, asked)
                /\ Goto(h, [Idle EXCEPT !.step = "save", !.todo =
                     {[sub |-> s, at |-> now + 1, copy |-> Copy([asked EXCEPT !.at = now + 1])]}])
                /\ sole' = Alone(h)
  BY DEF ChangeSeats
<1>1. CASE theirs[s].status # "paying" \/ theirs[s].plan # "team"
  BY <1>0, <1>1, <1>C
<1>2. CASE ~(theirs[s].status # "paying" \/ theirs[s].plan # "team")
  <2>1. PICK sub : sub = CASE work[h].change = "add-now" ->
                                [theirs[s] EXCEPT !.seats = work[h].members]
                           [] work[h].change = "reduce-at-renewal" ->
                                [theirs[s] EXCEPT !.pending = work[h].members]
                           [] work[h].change = "drop-pending" ->
                                [theirs[s] EXCEPT !.pending = 0]
    OBVIOUS
  <2>2. s \in Sub /\ theirs[s] \in Subscription /\ work[h].members \in Nat
        /\ work[h].change \in {"add-now", "reduce-at-renewal", "drop-pending"}
    BY <1>T, <1>C DEF TypeInv, Working, Work
  <2>3. sub \in Subscription /\ sub.status = "paying"
    BY <1>2, <2>1, <2>2 DEF Subscription
  <2>4. PICK msg : msg = [sub |-> s, at |-> now + 1, copy |-> Copy([sub EXCEPT !.at = now + 1])]
    OBVIOUS
  <2>5. msg \in Message
    <3>1. [sub EXCEPT !.at = now + 1] \in Subscription
      BY <1>T, <2>3 DEF Subscription
    <3>2. Copy([sub EXCEPT !.at = now + 1]) \in Snapshot
      BY <3>1, CopyIs
    <3> QED
      BY <1>T, <2>2, <2>4, <3>2 DEF Message
  <2>6. PICK new : new = [Idle EXCEPT !.step = "save", !.todo = {msg}]
    OBVIOUS
  <2>7. new \in Working /\ new.step = "save" /\ new.msg = 0 /\ new.todo = {msg}
    BY <2>5, <2>6, IdleTyped DEF Working, Work
  <2>8. Becomes(s, sub) /\ Goto(h, new) /\ sole' = Alone(h)
    BY <1>0, <1>2, <2>1, <2>4, <2>6
  <2> QED
    BY <1>C, <2>2, <2>3, <2>4, <2>7, <2>8
<1> QED
  BY <1>1, <1>2


\* A failure leaves the handler idle.
LEMMA FailIs ==
  ASSUME TypeInv, NEW h \in Handler, Fail(h)
  PROVE  /\ UNCHANGED <<theirs, ours, plan, members, wire, now>> /\ Goto(h, Idle)
         /\ sole' = IF Applying(h) THEN "mixed" ELSE sole
  BY DEF Fail

\* Every step is one of these.
LEMMA StepsAre ==
  ASSUME [Next]_vars
  PROVE  \/ UNCHANGED vars
         \/ \E s \in Sub : ProviderStep(s)
         \/ \E p \in {"enterprise", "free"} : SetPlanByHand(p)
         \/ \E h \in Handler :
              Takes(h) \/ SaveSnapshot(h) \/ Judges(h) \/ Counts(h) \/ ChangeSeats(h) \/ Fail(h)
  BY DEF Next, Step, ProviderStep, Takes, Judges, Counts

\* Every step keeps every type.
LEMMA StepTyped == TypeInv /\ [Next]_vars => TypeInv'
<1> SUFFICES ASSUME TypeInv, [Next]_vars PROVE TypeInv'
  OBVIOUS
<1>1. CASE UNCHANGED vars
  BY <1>1 DEF vars, TypeInv
<1>2. ASSUME NEW s \in Sub, NEW sub \in Subscription, Becomes(s, sub)
      PROVE  theirs' \in [Sub -> Subscription] /\ wire' \subseteq Message /\ now' \in Nat
  <2>1. PICK new \in Subscription :
          /\ now' = now + 1 /\ theirs' = [theirs EXCEPT ![s] = new]
          /\ wire' = wire \cup {[sub |-> s, at |-> now + 1, copy |-> Copy(new)]}
          /\ [sub |-> s, at |-> now + 1, copy |-> Copy(new)] \in Message
    BY <1>2, BecomesIs
  <2> QED
    BY <2>1 DEF TypeInv
<1>3. ASSUME NEW s \in Sub, ProviderStep(s) PROVE TypeInv'
  <2>1. UNCHANGED <<ours, plan, members, work>>
    BY <1>3, ProviderIs
  <2>2. CASE \E sub \in Subscription : Becomes(s, sub)
    BY <1>2, <2>1, <2>2 DEF TypeInv
  <2>3. CASE /\ UNCHANGED <<wire, now>>
             /\ \E sub \in Subscription : theirs' = [theirs EXCEPT ![s] = sub]
    BY <2>1, <2>3 DEF TypeInv
  <2> QED
    BY <1>3, <2>2, <2>3, ProviderIs
<1>4. ASSUME NEW p \in {"enterprise", "free"}, SetPlanByHand(p) PROVE TypeInv'
  BY <1>4 DEF SetPlanByHand, TypeInv, Plans
<1>5. ASSUME NEW h \in Handler, Takes(h) PROVE TypeInv'
  BY <1>5, TakesIs, GotoTyped DEF TypeInv
<1>6. ASSUME NEW h \in Handler, SaveSnapshot(h) PROVE TypeInv'
  <2>1. PICK m \in Message, new \in Working :
          /\ Goto(h, new)
          /\ ours' = IF ours[m.sub].at <= m.at THEN [ours EXCEPT ![m.sub] = m.copy] ELSE ours
    BY <1>6, SaveIs
  <2>2. m.sub \in Sub /\ m.copy \in Snapshot
    BY DEF Message
  <2>3. ours' \in [Sub -> Snapshot]
    BY <2>1, <2>2 DEF TypeInv
  <2> QED
    BY <1>6, <2>1, <2>3, SaveIs, GotoTyped DEF TypeInv
<1>7. ASSUME NEW h \in Handler, Judges(h) PROVE TypeInv'
  <2>1. work' \in [Handler -> Working] /\ wire' \subseteq Message
    <3>1. CASE wire' = wire /\ \E new \in Working : Goto(h, new)
      BY <3>1, GotoTyped DEF TypeInv
    <3>2. CASE \E next \in Answer : Applied(h, next)
      <4>1. PICK new \in Working :
              Goto(h, new) /\ (wire' = wire \/ wire' = {m \in wire : m.at # work[h].msg})
        BY <3>2, AppliedIs
      <4> QED
        BY <4>1, GotoTyped DEF TypeInv
    <3> QED
      BY <1>7, <3>1, <3>2, JudgesIs
  <2>2. plan' \in Plans
    <3>1. work[h].paid \in Plans
      BY DEF TypeInv, Working, Work
    <3> QED
      BY <1>7, <3>1, JudgesIs DEF TypeInv
  <2> QED
    BY <1>7, <2>1, <2>2, JudgesIs DEF TypeInv
<1>8. ASSUME NEW h \in Handler, Counts(h) PROVE TypeInv'
  BY <1>8, CountsIs, GotoTyped DEF TypeInv
<1>9. ASSUME NEW h \in Handler, ChangeSeats(h) PROVE TypeInv'
  <2>1. work' \in [Handler -> Working]
    BY <1>9, ChangeSeatsIs, GotoTyped, IdleTyped
  <2>2. UNCHANGED <<theirs, wire, now>> \/ \E s \in Sub, sub \in Subscription : Becomes(s, sub)
    BY <1>9, ChangeSeatsIs
  <2> QED
    BY <1>2, <1>9, <2>1, <2>2, ChangeSeatsIs DEF TypeInv
<1>10. ASSUME NEW h \in Handler, Fail(h) PROVE TypeInv'
  BY <1>10, FailIs, GotoTyped, IdleTyped DEF TypeInv
<1> QED
  BY <1>1, <1>3, <1>4, <1>5, <1>6, <1>7, <1>8, <1>9, <1>10, StepsAre

-----------------------------------------------------------------------------
(***************************************************************************)
(* Data.  No change of a subscription is lost: what is kept of it is the   *)
(* last one, or the webhook that tells of it is still on the wire.         *)
(***************************************************************************)

\* A subscription is paid only after a first change, and changes in the past.
Standing(s) == theirs[s].at <= now /\ (theirs[s].at = 0 => theirs[s].status # "paying")

\* A message tells of a change that was, and of the last one as it is.
Genuine(m) ==
  /\ m.at \in 1..now /\ m.copy.at = m.at /\ m.at <= theirs[m.sub].at
  /\ m.at = theirs[m.sub].at => m.copy = Copy(theirs[m.sub])

\* A copy is of a change that was, and of the last one as it is.
Kept(s) ==
  \/ ours[s] = None
  \/ /\ 1 <= ours[s].at /\ ours[s].at <= theirs[s].at
     /\ ours[s].at = theirs[s].at => ours[s] = Copy(theirs[s])

NotLost(s) ==
  theirs[s].at # 0 =>
    ours[s].at = theirs[s].at \/ \E m \in wire : m.sub = s /\ m.at = theirs[s].at

\* A webhook is answered only after what it tells of, or something newer, is kept.
Handled(w) ==
  w.msg # 0 =>
    /\ w.msg <= now
    /\ \/ /\ w.step = "save"
          /\ \E m \in w.todo :
               w.todo = {m} /\ m.at = w.msg /\ \A n \in wire : n.at = m.at => n = m
       \/ /\ w.step \in {"current", "paid", "set"} /\ w.todo = {}
          /\ \A n \in wire : n.at = w.msg => n.at <= ours[n.sub].at

OneEach == \A m, n \in wire : m.at = n.at => m = n

DataInv ==
  /\ \A s \in Sub : Standing(s) /\ Kept(s) /\ NotLost(s)
  /\ \A m \in wire : Genuine(m)
  /\ OneEach
  /\ \A h \in Handler : Handled(work[h]) /\ \A m \in work[h].todo : Genuine(m)

\* Nothing has been bought at first.
LEMMA InitData == Init => DataInv
<1> SUFFICES ASSUME Init PROVE DataInv
  OBVIOUS
<1>1. wire = {} /\ now = 0 /\ \A h \in Handler : work[h].msg = 0 /\ work[h].todo = {}
  BY IdleTyped DEF Init
<1>2. \A s \in Sub : theirs[s].at = 0 /\ theirs[s].status = "none" /\ ours[s] = None
  BY DEF Init, Never
<1> QED
  BY <1>1, <1>2 DEF DataInv, Standing, Kept, NotLost, OneEach, Handled

\* A handler that goes on keeps the data sound if what it holds is.
LEMMA WorkData ==
  ASSUME TypeInv, DataInv, NEW h \in Handler, NEW new \in Working, Goto(h, new),
         UNCHANGED <<theirs, ours, wire, now>>,
         Handled(new), \A m \in new.todo : Genuine(m)
  PROVE  DataInv'
<1>1. \A s \in Sub : Standing(s)' /\ Kept(s)' /\ NotLost(s)'
  BY DEF DataInv, Standing, Kept, NotLost
<1>2. (\A m \in wire' : Genuine(m)') /\ OneEach'
  BY DEF DataInv, Genuine, OneEach
<1>3. ASSUME NEW k \in Handler
      PROVE  Handled(work[k])' /\ \A m \in work'[k].todo : Genuine(m)'
  <2>1. work'[k] = new \/ work'[k] = work[k]
    BY GotoTyped
  <2>2. Handled(work[k])'
    BY <2>1 DEF DataInv, Handled
  <2>3. \A m \in work'[k].todo : Genuine(m)'
    BY <2>1 DEF DataInv, Genuine
  <2> QED
    BY <2>2, <2>3
<1> QED
  BY <1>1, <1>2, <1>3 DEF DataInv

\* A change of a subscription is newer than all that is known of any.
LEMMA BecomesData ==
  ASSUME TypeInv, DataInv, NEW s \in Sub, NEW sub \in Subscription,
         Becomes(s, sub), ours' = ours,
         \A k \in Handler :
           \/ work'[k] = work[k]
           \/ /\ work'[k].msg = 0
              /\ \A m \in work'[k].todo :
                   m = [sub |-> s, at |-> now + 1, copy |-> Copy([sub EXCEPT !.at = now + 1])]
  PROVE  DataInv'
<1>1. PICK new \in Subscription :
        /\ new.at = now + 1
        /\ new = [sub EXCEPT !.at = now + 1]
        /\ now' = now + 1 /\ theirs' = [theirs EXCEPT ![s] = new]
        /\ wire' = wire \cup {[sub |-> s, at |-> now + 1, copy |-> Copy(new)]}
  BY BecomesIs
<1>2. PICK msg : msg = [sub |-> s, at |-> now + 1, copy |-> Copy(new)]
  OBVIOUS
<1>3. msg.sub = s /\ msg.at = now + 1 /\ msg.copy = Copy(new) /\ wire' = wire \cup {msg}
  BY <1>1, <1>2
<1>4. Copy(new).at = now + 1 /\ now \in Nat
  BY <1>1, CopyIs DEF TypeInv
<1>5. theirs'[s] = new /\ \A z \in Sub \ {s} : theirs'[z] = theirs[z]
  BY <1>1 DEF TypeInv
<1>6. \A z \in Sub : theirs[z].at \in Nat /\ theirs[z].at <= now
  BY DEF TypeInv, Subscription, DataInv, Standing
<1>G. ASSUME NEW m \in Message, Genuine(m) PROVE Genuine(m)'
  <2>1. m.sub \in Sub /\ m.at \in Nat
    BY DEF Message
  <2>2. m.at \in 1..now' /\ m.at < now + 1
    BY <1>1, <1>4, <1>G DEF Genuine
  <2>3. CASE m.sub = s
    <3>1. theirs'[m.sub].at = now + 1
      BY <1>1, <1>5, <2>3
    <3> QED
      BY <1>4, <1>G, <2>1, <2>2, <3>1 DEF Genuine
  <2>4. CASE m.sub # s
    <3>1. theirs'[m.sub] = theirs[m.sub]
      BY <1>5, <2>1, <2>4
    <3> QED
      BY <1>G, <2>2, <3>1 DEF Genuine, Copy
  <2> QED
    BY <2>3, <2>4
<1>N. Genuine(msg)'
  <2>1. theirs'[msg.sub] = new /\ msg.at \in 1..now'
    BY <1>1, <1>3, <1>4, <1>5
  <2>2. Copy(theirs[msg.sub])' = Copy(new)
    BY <2>1 DEF Copy
  <2>3. msg.copy.at = msg.at /\ msg.copy = Copy(new) /\ msg.at <= new.at
    BY <1>1, <1>3, <1>4
  <2> QED
    BY <2>1, <2>2, <2>3 DEF Genuine
<1>7. ASSUME NEW z \in Sub PROVE Standing(z)' /\ Kept(z)' /\ NotLost(z)'
  <2>T. ours[z].at \in Nat
    BY DEF TypeInv, Snapshot
  <2>1. CASE z = s
    <3>1. theirs'[z] = new /\ theirs'[z].at = now + 1
      BY <1>1, <1>5, <2>1
    <3>2. Standing(z)'
      BY <1>1, <1>4, <3>1 DEF Standing
    <3>3. Kept(z)'
      <4>1. ours[z] = None \/ (1 <= ours[z].at /\ ours[z].at <= theirs[z].at)
        BY DEF DataInv, Kept
      <4> QED
        BY <1>4, <1>6, <2>T, <3>1, <4>1 DEF Kept
    <3>4. NotLost(z)'
      BY <1>3, <2>1, <3>1 DEF NotLost
    <3> QED
      BY <3>2, <3>3, <3>4
  <2>2. CASE z # s
    <3>1. theirs'[z] = theirs[z]
      BY <1>5, <2>2
    <3>2. Standing(z)'
      BY <1>1, <1>4, <1>6, <3>1 DEF Standing, DataInv
    <3>3. Kept(z)'
      BY <3>1 DEF Kept, DataInv, Copy
    <3>4. NotLost(z)'
      BY <1>3, <3>1 DEF NotLost, DataInv
    <3> QED
      BY <3>2, <3>3, <3>4
  <2> QED
    BY <2>1, <2>2
<1>8. \A m \in wire' : Genuine(m)'
  BY <1>3, <1>G, <1>N DEF DataInv, TypeInv
<1>M. \A m \in wire : m.at \in Nat /\ m.at <= now
  BY <1>4 DEF DataInv, Genuine
<1>9. OneEach'
  <2> SUFFICES ASSUME NEW m \in wire', NEW n \in wire', m.at = n.at PROVE m = n
    BY DEF OneEach
  <2>1. (m \in wire \/ m = msg) /\ (n \in wire \/ n = msg)
    BY <1>3
  <2>2. m \in wire => m.at # now + 1
    BY <1>4, <1>M
  <2>3. n \in wire => n.at # now + 1
    BY <1>4, <1>M
  <2> QED
    BY <1>3, <2>1, <2>2, <2>3 DEF DataInv, OneEach
<1>10. ASSUME NEW k \in Handler
       PROVE  Handled(work[k])' /\ \A m \in work'[k].todo : Genuine(m)'
  <2>1. CASE work'[k] = work[k]
    <3>1. Handled(work[k])'
      <4> SUFFICES ASSUME work[k].msg # 0 PROVE Handled(work[k])'
        BY <2>1 DEF Handled
      <4>1. Handled(work[k]) /\ work[k].msg \in Nat
        BY DEF DataInv, TypeInv, Working, Work
      <4>2. work[k].msg <= now /\ work[k].msg <= now' /\ work[k].msg # now + 1
        BY <1>1, <1>4, <4>1 DEF Handled
      <4>3. \A n \in wire' : n.at = work[k].msg => n \in wire
        BY <1>3, <4>2
      <4>4. CASE work[k].step = "save"
        <5>1. PICK m \in work[k].todo :
                work[k].todo = {m} /\ m.at = work[k].msg /\ \A n \in wire : n.at = m.at => n = m
          BY <4>1, <4>4 DEF Handled
        <5>2. \A n \in wire' : n.at = m.at => n = m
          BY <4>3, <5>1
        <5> QED
          BY <2>1, <4>2, <4>4, <5>1, <5>2 DEF Handled
      <4>5. CASE work[k].step # "save"
        <5>1. /\ work[k].step \in {"current", "paid", "set"} /\ work[k].todo = {}
              /\ \A n \in wire : n.at = work[k].msg => n.at <= ours[n.sub].at
          BY <4>1, <4>5 DEF Handled
        <5>2. \A n \in wire' : n.at = work[k].msg => n.at <= ours'[n.sub].at
          BY <4>3, <5>1
        <5> QED
          BY <2>1, <4>2, <5>1, <5>2 DEF Handled
      <4> QED
        BY <4>4, <4>5
    <3>2. \A m \in work'[k].todo : Genuine(m)'
      <4>1. work[k].todo \subseteq Message /\ \A m \in work[k].todo : Genuine(m)
        BY DEF TypeInv, Working, Work, DataInv
      <4> QED
        BY <1>G, <2>1, <4>1
    <3> QED
      BY <3>1, <3>2
  <2>2. CASE work'[k] # work[k]
    <3>1. work'[k].msg = 0 /\ \A m \in work'[k].todo : m = msg
      BY <1>1, <1>2, <2>2
    <3> QED
      BY <1>N, <3>1 DEF Handled
  <2> QED
    BY <2>1, <2>2
<1> QED
  BY <1>7, <1>8, <1>9, <1>10 DEF DataInv

\* Saving a snapshot keeps the newest of what was said.
LEMMA SaveData ==
  ASSUME TypeInv, DataInv, NEW h \in Handler, SaveSnapshot(h)
  PROVE  DataInv'
<1>0. work[h].step = "save" /\ UNCHANGED <<theirs, plan, members, wire, now, sole>>
  BY SaveIs
<1>1. PICK m \in work[h].todo, new \in Working :
        /\ m \in Message /\ Goto(h, new)
        /\ new.step = "current" /\ new.todo = work[h].todo \ {m} /\ new.msg = work[h].msg
        /\ ours' = IF ours[m.sub].at <= m.at THEN [ours EXCEPT ![m.sub] = m.copy] ELSE ours
  BY SaveIs
<1>2. Genuine(m) /\ m.sub \in Sub /\ m.at \in Nat /\ m.copy.at = m.at
  <2>1. Genuine(m)
    BY DEF DataInv
  <2> QED
    BY <1>1, <2>1 DEF Message, Genuine
<1>3. \A s \in Sub : ours[s].at \in Nat /\ theirs[s].at \in Nat
  BY DEF TypeInv, Snapshot, Subscription
<1>4. ASSUME NEW s \in Sub
      PROVE  /\ ours'[s] = ours[s] \/ (s = m.sub /\ ours[s].at <= m.at /\ ours'[s] = m.copy)
             /\ ours[s].at <= ours'[s].at /\ (s = m.sub => m.at <= ours'[s].at)
             /\ ours'[s].at \in Nat
  <2>1. CASE ours[m.sub].at <= m.at
    <3>1. ours' = [ours EXCEPT ![m.sub] = m.copy]
      BY <1>1, <2>1
    <3>2. CASE s = m.sub
      <4>1. ours'[s] = m.copy
        BY <3>1, <3>2 DEF TypeInv
      <4> QED
        BY <1>2, <2>1, <3>2, <4>1
    <3>3. CASE s # m.sub
      <4>1. ours'[s] = ours[s]
        BY <3>1, <3>3 DEF TypeInv
      <4> QED
        BY <1>3, <3>3, <4>1
    <3> QED
      BY <3>2, <3>3
  <2>2. CASE ~(ours[m.sub].at <= m.at)
    <3>1. ours' = ours
      BY <1>1, <2>2
    <3> QED
      BY <1>2, <1>3, <2>2, <3>1
  <2> QED
    BY <2>1, <2>2
<1>5. ASSUME NEW s \in Sub PROVE Standing(s)' /\ Kept(s)' /\ NotLost(s)'
  <2>1. Standing(s)'
    BY <1>0 DEF DataInv, Standing
  <2>2. Kept(s)'
    <3>1. CASE ours'[s] = ours[s]
      BY <1>0, <3>1 DEF DataInv, Kept, Copy
    <3>2. CASE s = m.sub /\ ours'[s] = m.copy
      <4>1. /\ 1 <= m.copy.at /\ m.copy.at <= theirs[s].at
            /\ m.copy.at = theirs[s].at => m.copy = Copy(theirs[s])
        BY <1>2, <3>2 DEF Genuine
      <4> QED
        BY <1>0, <3>2, <4>1 DEF Kept, Copy
    <3> QED
      BY <1>4, <3>1, <3>2
  <2>3. NotLost(s)'
    <3> SUFFICES ASSUME theirs[s].at # 0, ours[s].at = theirs[s].at
                 PROVE  ours'[s].at = theirs[s].at
      BY <1>0 DEF DataInv, NotLost
    <3>1. ours'[s].at = ours[s].at \/ ours'[s].at = m.at
      BY <1>2, <1>4
    <3>2. s = m.sub => m.at <= theirs[s].at
      BY <1>2 DEF Genuine
    <3> QED
      BY <1>2, <1>3, <1>4, <3>1, <3>2
  <2> QED
    BY <2>1, <2>2, <2>3
<1>6. (\A n \in wire' : Genuine(n)') /\ OneEach'
  BY <1>0 DEF DataInv, Genuine, OneEach, Copy
<1>7. ASSUME NEW k \in Handler
      PROVE  Handled(work[k])' /\ \A n \in work'[k].todo : Genuine(n)'
  <2>W. \A n \in wire : n.sub \in Sub /\ n.at \in Nat
    BY DEF TypeInv, Message
  <2>1. CASE k = h
    <3>1. work'[k] = new
      BY <1>1, <2>1, GotoTyped
    <3>2. \A n \in new.todo : Genuine(n)'
      BY <1>0, <1>1 DEF DataInv, Genuine, Copy
    <3>3. Handled(work[k])'
      <4> SUFFICES ASSUME new.msg # 0 PROVE Handled(work[k])'
        BY <3>1 DEF Handled
      <4>1. work[h].todo = {m} /\ m.at = work[h].msg /\ work[h].msg <= now
            /\ \A n \in wire : n.at = m.at => n = m
        BY <1>0, <1>1 DEF DataInv, Handled
      <4>2. \A n \in wire : n.at = new.msg => n.at <= ours'[n.sub].at
        BY <1>1, <1>2, <1>4, <4>1
      <4>3. new.todo = {}
        BY <1>1, <4>1
      <4> QED
        BY <1>0, <1>1, <3>1, <4>1, <4>2, <4>3 DEF Handled
    <3> QED
      BY <3>1, <3>2, <3>3
  <2>2. CASE k # h
    <3>1. work'[k] = work[k]
      BY <1>1, <2>2, GotoTyped
    <3>2. \A n \in work[k].todo : Genuine(n)'
      BY <1>0 DEF DataInv, Genuine, Copy
    <3>3. \A n \in wire : n.at <= ours[n.sub].at => n.at <= ours'[n.sub].at
      <4> SUFFICES ASSUME NEW n \in wire, n.at <= ours[n.sub].at
                   PROVE  n.at <= ours'[n.sub].at
        OBVIOUS
      <4>1. n.sub \in Sub /\ n.at \in Nat
        BY <2>W
      <4>2. ours[n.sub].at <= ours'[n.sub].at /\ ours[n.sub].at \in Nat /\ ours'[n.sub].at \in Nat
        BY <1>3, <1>4, <4>1
      <4> QED
        BY <4>1, <4>2
    <3>4. Handled(work[k])'
      BY <1>0, <3>1, <3>3 DEF DataInv, Handled
    <3> QED
      BY <3>1, <3>2, <3>4
  <2> QED
    BY <2>1, <2>2
<1> QED
  BY <1>5, <1>6, <1>7 DEF DataInv

\* A webhook off the wire has been dealt with.
LEMMA AppliedData ==
  ASSUME TypeInv, DataInv, NEW h \in Handler, work[h].step \in {"current", "paid", "set"},
         UNCHANGED <<theirs, ours, now>>, NEW next \in Answer, Applied(h, next)
  PROVE  DataInv'
<1>T. work[h] \in Working /\ work[h].msg \in Nat
  BY DEF TypeInv, Working, Work
<1>1. PICK new \in Working :
        /\ Goto(h, new)
        /\ \/ /\ work[h].todo # {} /\ new.step = "save" /\ new.todo = work[h].todo
              /\ new.msg = work[h].msg /\ wire' = wire
           \/ /\ work[h].todo = {} /\ new \in Answer
              /\ wire' = {m \in wire : m.at # work[h].msg}
  BY AppliedIs
<1>2. CASE work[h].todo # {} /\ wire' = wire /\ new.todo = work[h].todo /\ new.msg = work[h].msg
  <2>1. work[h].msg = 0
    BY <1>2 DEF DataInv, Handled
  <2>2. Handled(new) /\ \A m \in new.todo : Genuine(m)
    BY <1>2, <2>1 DEF Handled, DataInv
  <2> QED
    BY <1>1, <1>2, <2>2, WorkData
<1>3. CASE work[h].todo = {} /\ new \in Answer /\ wire' = {m \in wire : m.at # work[h].msg}
  <2>1. \A n \in wire : n.at = work[h].msg => n.at <= ours[n.sub].at
    <3> SUFFICES ASSUME NEW n \in wire, n.at = work[h].msg PROVE n.at <= ours[n.sub].at
      OBVIOUS
    <3>1. n.at # 0
      BY DEF DataInv, Genuine
    <3> QED
      BY <1>3, <3>1 DEF DataInv, Handled
  <2>2. ASSUME NEW s \in Sub PROVE Standing(s)' /\ Kept(s)' /\ NotLost(s)'
    <3>1. Standing(s)' /\ Kept(s)'
      BY DEF DataInv, Standing, Kept, Copy
    <3>2. NotLost(s)'
      <4> SUFFICES ASSUME theirs[s].at # 0, ours[s].at # theirs[s].at
                   PROVE  \E m \in wire' : m.sub = s /\ m.at = theirs[s].at
        BY DEF NotLost
      <4>1. PICK m \in wire : m.sub = s /\ m.at = theirs[s].at
        BY DEF DataInv, NotLost
      <4>2. ASSUME m.at = work[h].msg PROVE FALSE
        <5>1. theirs[s].at <= ours[s].at
          BY <2>1, <4>1, <4>2
        <5>2. ours[s].at <= theirs[s].at \/ ours[s].at = 0
          BY DEF DataInv, Kept, None
        <5>3. ours[s].at \in Nat /\ theirs[s].at \in Nat
          BY DEF TypeInv, Snapshot, Subscription
        <5> QED
          BY <5>1, <5>2, <5>3
      <4> QED
        BY <1>3, <4>1, <4>2
    <3> QED
      BY <3>1, <3>2
  <2>3. (\A m \in wire' : Genuine(m)') /\ OneEach'
    BY <1>3 DEF DataInv, Genuine, OneEach, Copy
  <2>4. ASSUME NEW k \in Handler
        PROVE  Handled(work[k])' /\ \A m \in work'[k].todo : Genuine(m)'
    <3>1. CASE k = h
      <4>1. work'[k] = new /\ new.msg = 0 /\ new.todo = {}
        BY <1>1, <1>3, <3>1, GotoTyped DEF Answer
      <4> QED
        BY <4>1 DEF Handled
    <3>2. CASE k # h
      <4>1. work'[k] = work[k] /\ wire' \subseteq wire
        BY <1>1, <1>3, <3>2, GotoTyped
      <4>2. Handled(work[k])'
        BY <4>1 DEF DataInv, Handled
      <4>3. \A m \in work'[k].todo : Genuine(m)'
        BY <4>1 DEF DataInv, Genuine, Copy
      <4> QED
        BY <4>2, <4>3
    <3> QED
      BY <3>1, <3>2
  <2> QED
    BY <2>2, <2>3, <2>4 DEF DataInv
<1> QED
  BY <1>1, <1>2, <1>3

\* Every step keeps the data sound.
LEMMA DataStep ==
  ASSUME TypeInv, DataInv, [Next]_vars
  PROVE  DataInv'
<1>I. Idle \in Working /\ Handled(Idle) /\ \A m \in Idle.todo : Genuine(m)
  BY IdleTyped DEF Handled
<1>1. CASE UNCHANGED <<theirs, ours, wire, now, work>>
  BY <1>1 DEF DataInv, Standing, Kept, NotLost, Genuine, OneEach, Handled, Copy
<1>2. ASSUME NEW s \in Sub, ProviderStep(s) PROVE DataInv'
  <2>1. UNCHANGED <<ours, work>>
    BY <1>2, ProviderIs
  <2>2. ASSUME NEW sub \in Subscription, Becomes(s, sub) PROVE DataInv'
    BY <2>1, <2>2, BecomesData
  <2>3. ASSUME UNCHANGED <<wire, now>>, theirs[s].at = 0, NEW sub \in Subscription,
               sub.at = 0, sub.status = "open", theirs' = [theirs EXCEPT ![s] = sub]
        PROVE  DataInv'
    <3>1. theirs'[s] = sub /\ \A z \in Sub \ {s} : theirs'[z] = theirs[z]
      BY <2>3 DEF TypeInv
    <3>2. now \in Nat /\ ours[s].at \in Nat
      BY DEF TypeInv, Snapshot
    <3>3. ASSUME NEW z \in Sub PROVE Standing(z)' /\ Kept(z)' /\ NotLost(z)'
      <4>1. CASE z = s
        <5>1. ours[z] = None
          BY <2>3, <3>2, <4>1 DEF DataInv, Kept
        <5> QED
          BY <2>1, <2>3, <3>1, <3>2, <4>1, <5>1 DEF Standing, Kept, NotLost
      <4>2. CASE z # s
        BY <2>1, <2>3, <3>1, <4>2 DEF DataInv, Standing, Kept, NotLost, Copy
      <4> QED
        BY <4>1, <4>2
    <3>4. ASSUME NEW m \in Message, Genuine(m) PROVE Genuine(m)'
      <4>1. m.sub \in Sub /\ m.at \in Nat
        BY DEF Message
      <4>2. m.sub # s
        BY <2>3, <3>4, <4>1 DEF Genuine
      <4>3. theirs'[m.sub] = theirs[m.sub]
        BY <3>1, <4>1, <4>2
      <4> QED
        BY <2>3, <3>4, <4>3 DEF Genuine, Copy
    <3>5. (\A m \in wire' : Genuine(m)') /\ OneEach'
      BY <2>3, <3>4 DEF DataInv, TypeInv, OneEach
    <3>6. ASSUME NEW k \in Handler
          PROVE  Handled(work[k])' /\ \A m \in work'[k].todo : Genuine(m)'
      <4>1. Handled(work[k])'
        BY <2>1, <2>3 DEF DataInv, Handled
      <4>2. work[k].todo \subseteq Message
        BY DEF TypeInv, Working, Work
      <4> QED
        BY <2>1, <3>4, <4>1, <4>2 DEF DataInv
    <3> QED
      BY <3>3, <3>5, <3>6 DEF DataInv
  <2> QED
    BY <1>2, <2>2, <2>3, ProviderIs
<1>3. ASSUME NEW p \in {"enterprise", "free"}, SetPlanByHand(p) PROVE DataInv'
  BY <1>1, <1>3 DEF SetPlanByHand
<1>4. ASSUME NEW h \in Handler, Takes(h) PROVE DataInv'
  <2>1. PICK new \in Working :
          /\ Goto(h, new) /\ new.step = "save"
          /\ \/ \E m \in wire : new.todo = {m} /\ new.msg = m.at
             \/ /\ new.msg = 0
                /\ \A m \in new.todo : \E s \in Sub : m = Webhook(s) /\ theirs[s].at # 0
    BY <1>4, TakesIs
  <2>2. ASSUME NEW m \in wire, new.todo = {m}, new.msg = m.at
        PROVE  Handled(new) /\ \A n \in new.todo : Genuine(n)
    <3>1. Genuine(m) /\ m.at <= now /\ \A n \in wire : n.at = m.at => n = m
      BY DEF DataInv, OneEach, Genuine
    <3> QED
      BY <2>1, <2>2, <3>1 DEF Handled
  <2>3. ASSUME NEW s \in Sub, theirs[s].at # 0 PROVE Genuine(Webhook(s))
    <3>1. theirs[s] \in Subscription /\ theirs[s].at \in Nat /\ theirs[s].at <= now /\ now \in Nat
      BY DEF TypeInv, Subscription, DataInv, Standing
    <3> QED
      BY <2>3, <3>1, WebhookTyped, CopyIs DEF Genuine
  <2>4. Handled(new) /\ \A m \in new.todo : Genuine(m)
    <3>1. CASE new.msg = 0 /\ \A m \in new.todo : \E s \in Sub : m = Webhook(s) /\ theirs[s].at # 0
      BY <2>3, <3>1 DEF Handled
    <3> QED
      BY <2>1, <2>2, <3>1
  <2> QED
    BY <1>4, <2>1, <2>4, TakesIs, WorkData
<1>5. ASSUME NEW h \in Handler, SaveSnapshot(h) PROVE DataInv'
  BY <1>5, SaveData
<1>6. ASSUME NEW h \in Handler, Judges(h) PROVE DataInv'
  <2>1. UNCHANGED <<theirs, ours, now>> /\ work[h].step \in {"current", "paid", "set"}
    BY <1>6, JudgesIs
  <2>2. ASSUME NEW next \in Answer, Applied(h, next) PROVE DataInv'
    BY <2>1, <2>2, AppliedData
  <2>3. ASSUME wire' = wire, NEW new \in Working, Goto(h, new), new.todo = work[h].todo,
               new.msg = work[h].msg, new.step \in {"paid", "set"}
        PROVE  DataInv'
    <3>1. Handled(new)
      BY <2>1, <2>3 DEF DataInv, Handled
    <3>2. \A m \in new.todo : Genuine(m)
      BY <2>3 DEF DataInv
    <3> QED
      BY <2>1, <2>3, <3>1, <3>2, WorkData
  <2> QED
    BY <1>6, <2>2, <2>3, JudgesIs
<1>7. ASSUME NEW h \in Handler, Counts(h) PROVE DataInv'
  <2>1. PICK new \in Working :
          /\ Goto(h, new)
          /\ new \in Answer \/ (new.msg = work[h].msg /\ new.todo = work[h].todo)
    BY <1>7, CountsIs
  <2>2. work[h].msg = 0
    BY <1>7, CountsIs DEF DataInv, Handled
  <2>3. Handled(new) /\ \A m \in new.todo : Genuine(m)
    BY <2>1, <2>2 DEF Answer, Handled, DataInv
  <2> QED
    BY <1>7, <2>1, <2>3, CountsIs, WorkData
<1>8. ASSUME NEW h \in Handler, ChangeSeats(h) PROVE DataInv'
  <2>1. CASE UNCHANGED <<theirs, wire, now, sole>> /\ Goto(h, Idle)
    BY <1>8, <1>I, <2>1, ChangeSeatsIs, WorkData
  <2>2. ASSUME NEW s \in Sub, NEW sub \in Subscription, NEW new \in Working,
               Becomes(s, sub), Goto(h, new), new.msg = 0,
               new.todo = {[sub |-> s, at |-> now + 1,
                            copy |-> Copy([sub EXCEPT !.at = now + 1])]}
        PROVE  DataInv'
    <3>1. work'[h] = new /\ \A k \in Handler \ {h} : work'[k] = work[k]
      BY <2>2, GotoTyped
    <3>2. ours' = ours
      BY <1>8, ChangeSeatsIs
    <3> QED
      BY <2>2, <3>1, <3>2, BecomesData
  <2> QED
    BY <1>8, <2>1, <2>2, ChangeSeatsIs
<1>9. ASSUME NEW h \in Handler, Fail(h) PROVE DataInv'
  BY <1>9, <1>I, FailIs, WorkData
<1>10. CASE UNCHANGED vars
  BY <1>1, <1>10 DEF vars
<1> QED
  BY <1>2, <1>3, <1>4, <1>5, <1>6, <1>7, <1>8, <1>9, <1>10, StepsAre

-----------------------------------------------------------------------------
(***************************************************************************)
(* Turns.  While one handler applies snapshots alone, nobody moves the     *)
(* plan or the copies under it; what it read stands when it writes.        *)
(***************************************************************************)
Knows(w) ==
  /\ w.step = "paid" => w.known = plan
  /\ w.step = "set" => w.paid = PaidPlan(ours)

TurnInv ==
  /\ sole \in Handler \cup {"settled", "mixed", "byHand"}
  /\ sole = "settled" =>
       (\A h \in Handler : ~Applying(h)) /\ (plan = "enterprise" \/ plan = PaidPlan(ours))
  /\ \A h \in Handler :
       sole = h => Knows(work[h]) /\ \A k \in Handler \ {h} : ~Applying(k)

\* A workspace starts free and without copies.
LEMMA InitTurn == Init => TurnInv
<1> SUFFICES ASSUME Init PROVE TurnInv
  OBVIOUS
<1>1. \A h \in Handler : ~Applying(h)
  BY DEF Init, Applying, Idle
<1>2. {ours[s].plan : s \in {x \in Sub : ours[x].paying}} = {}
  BY DEF Init, None
<1>3. plan = PaidPlan(ours)
  BY <1>2 DEF Init, PaidPlan
<1>4. sole = "settled" /\ \A h \in Handler : sole # h
  BY HandlerAssumption DEF Init
<1> QED
  BY <1>1, <1>3, <1>4 DEF TurnInv

\* The name of a handler is no other word for how snapshots were applied.
LEMMA HandlersAre ==
  ASSUME NEW h \in Handler
  PROVE  h # "settled" /\ h # "mixed" /\ h # "byHand"
  BY HandlerAssumption

\* A handler that begins to apply is alone, or nobody is.
LEMMA AloneTurn ==
  ASSUME TypeInv, TurnInv, NEW h \in Handler, NEW new \in Working, Goto(h, new),
         new.step = "save", sole' = Alone(h), UNCHANGED <<ours, plan>>
  PROVE  TurnInv'
<1>1. work'[h] = new /\ \A k \in Handler \ {h} : work'[k] = work[k]
  BY GotoTyped
<1>2. CASE \E k \in Handler \ {h} : Applying(k)
  <2>1. sole' = "mixed"
    BY <1>2 DEF Alone
  <2> QED
    BY <2>1, HandlersAre DEF TurnInv
<1>3. CASE ~\E k \in Handler \ {h} : Applying(k)
  <2>1. sole' = h
    BY <1>3 DEF Alone
  <2>2. \A k \in Handler \ {h} : ~Applying(k)'
    BY <1>1, <1>3 DEF Applying
  <2>3. Knows(work[h])'
    BY <1>1 DEF Knows
  <2> QED
    BY <2>1, <2>2, <2>3, HandlersAre DEF TurnInv
<1> QED
  BY <1>2, <1>3

\* What does not apply, or only reads on, takes no turn.
LEMMA AsideTurn ==
  ASSUME TypeInv, TurnInv, UNCHANGED <<ours, plan, sole>>,
         \A k \in Handler :
           \/ work'[k] = work[k]
           \/ /\ work'[k].step \notin {"paid", "set"}
              /\ Applying(k)' => Applying(k)
  PROVE  TurnInv'
<1>1. \A k \in Handler : Applying(k)' => Applying(k)
  BY DEF Applying
<1>2. \A k \in Handler : Knows(work[k]) => Knows(work[k])'
  BY DEF Knows
<1> QED
  BY <1>1, <1>2 DEF TurnInv

\* Saving a snapshot is a turn of the one who applies.
LEMMA SaveTurn ==
  ASSUME TypeInv, TurnInv, NEW h \in Handler, SaveSnapshot(h)
  PROVE  TurnInv'
<1>1. PICK new \in Working : Goto(h, new) /\ new.step = "current"
  BY SaveIs
<1>2. work'[h] = new /\ \A k \in Handler \ {h} : work'[k] = work[k]
  BY <1>1, GotoTyped
<1>3. sole' = sole /\ plan' = plan /\ Applying(h)
  BY SaveIs DEF Applying
<1>4. sole # "settled" /\ \A k \in Handler \ {h} : sole # k
  BY <1>3 DEF TurnInv
<1>5. sole = h => \A k \in Handler \ {h} : ~Applying(k)'
  BY <1>2 DEF TurnInv, Applying
<1>6. Knows(work[h])'
  BY <1>1, <1>2 DEF Knows
<1> QED
  BY <1>3, <1>4, <1>5, <1>6 DEF TurnInv

\* And so is judging the plan: it ends where nobody else was applying with the
\* plan that is paid for.
LEMMA JudgeTurn ==
  ASSUME TypeInv, TurnInv, NEW h \in Handler, Judges(h)
  PROVE  TurnInv'
<1>0. ours' = ours /\ work[h].step \in {"current", "paid", "set"} /\ Applying(h)
  BY JudgesIs DEF Applying
<1>1. sole # "settled" /\ \A k \in Handler \ {h} : sole # k
  BY <1>0 DEF TurnInv
<1>2. sole = h => Knows(work[h]) /\ \A k \in Handler \ {h} : ~Applying(k)
  BY DEF TurnInv
<1>3. ASSUME UNCHANGED <<wire, sole, plan>>, NEW new \in Working, Goto(h, new),
             \/ new.step = "paid" /\ new.known = plan
             \/ new.step = "set" /\ new.paid = PaidPlan(ours)
      PROVE  TurnInv'
  <2>1. work'[h] = new /\ \A k \in Handler \ {h} : work'[k] = work[k]
    BY <1>3, GotoTyped
  <2>2. Knows(work[h])'
    BY <1>0, <1>3, <2>1 DEF Knows
  <2>3. sole = h => \A k \in Handler \ {h} : ~Applying(k)'
    BY <1>2, <2>1 DEF Applying
  <2> QED
    BY <1>1, <1>3, <2>2, <2>3 DEF TurnInv
<1>4. ASSUME NEW next \in Answer, Applied(h, next),
             \/ plan' = plan /\ work[h].step = "current" /\ plan = "enterprise"
             \/ plan' = plan /\ work[h].step = "paid" /\ PaidPlan(ours) = work[h].known
             \/ plan' = work[h].paid /\ work[h].step = "set"
      PROVE  TurnInv'
  <2>1. PICK new \in Working :
          /\ Goto(h, new)
          /\ \/ new.step = "save" /\ sole' = sole
             \/ new \in Answer /\ Settles(h)
    BY <1>4, AppliedIs
  <2>2. work'[h] = new /\ \A k \in Handler \ {h} : work'[k] = work[k]
    BY <2>1, GotoTyped
  <2>3. sole = h => \A k \in Handler \ {h} : ~Applying(k)'
    BY <1>2, <2>2 DEF Applying
  <2>4. Knows(work[h])'
    BY <2>1, <2>2 DEF Knows, Answer
  <2>5. CASE new.step = "save" /\ sole' = sole
    BY <1>1, <2>3, <2>4, <2>5 DEF TurnInv
  <2>6. CASE new \in Answer /\ Settles(h) /\ sole # h
    <3>1. sole' = sole /\ sole \in {"mixed", "byHand"}
      BY <1>1, <2>6 DEF Settles, TurnInv
    <3> QED
      BY <3>1, HandlersAre DEF TurnInv
  <2>7. CASE new \in Answer /\ Settles(h) /\ sole = h
    <3>1. sole' = "settled"
      BY <2>7 DEF Settles
    <3>2. \A k \in Handler : ~Applying(k)'
      BY <2>2, <2>3, <2>7 DEF Applying, Answer
    <3>3. plan' = "enterprise" \/ plan' = PaidPlan(ours)
      BY <1>2, <1>4, <2>7 DEF Knows
    <3>4. PaidPlan(ours') = PaidPlan(ours)
      BY <1>0
    <3> QED
      BY <3>1, <3>2, <3>3, <3>4, HandlersAre DEF TurnInv
  <2> QED
    BY <2>1, <2>5, <2>6, <2>7
<1> QED
  BY <1>3, <1>4, JudgesIs

\* Every step keeps the turns.
LEMMA TurnStep ==
  ASSUME TypeInv, TurnInv, [Next]_vars
  PROVE  TurnInv'
<1>1. ASSUME NEW s \in Sub, ProviderStep(s) PROVE TurnInv'
  <2>1. UNCHANGED <<ours, plan, work, sole>>
    BY <1>1, ProviderIs
  <2> QED
    BY <2>1, AsideTurn
<1>2. ASSUME NEW p \in {"enterprise", "free"}, SetPlanByHand(p) PROVE TurnInv'
  BY <1>2, HandlersAre DEF SetPlanByHand, TurnInv
<1>3. ASSUME NEW h \in Handler, Takes(h) PROVE TurnInv'
  BY <1>3, TakesIs, AloneTurn
<1>4. ASSUME NEW h \in Handler, SaveSnapshot(h) \/ Judges(h) PROVE TurnInv'
  BY <1>4, SaveTurn, JudgeTurn
<1>5. ASSUME NEW h \in Handler, NEW new \in Working, Goto(h, new),
             new.step \in {"idle", "row", "count", "look", "change"},
             UNCHANGED <<ours, plan, sole>>
      PROVE  TurnInv'
  <2>1. work'[h] = new /\ \A k \in Handler \ {h} : work'[k] = work[k]
    BY <1>5, GotoTyped
  <2>2. work'[h].step \notin {"paid", "set"} /\ ~Applying(h)'
    BY <1>5, <2>1 DEF Applying
  <2> QED
    BY <1>5, <2>1, <2>2, AsideTurn
<1>6. ASSUME NEW h \in Handler, Counts(h) PROVE TurnInv'
  BY <1>5, <1>6, CountsIs
<1>7. ASSUME NEW h \in Handler, ChangeSeats(h) PROVE TurnInv'
  <2>1. UNCHANGED <<ours, plan>>
    BY <1>7, ChangeSeatsIs
  <2>2. CASE sole' = sole /\ Goto(h, Idle)
    BY <1>5, <2>1, <2>2, IdleTyped
  <2>3. CASE sole' = Alone(h) /\ \E new \in Working : Goto(h, new) /\ new.step = "save"
    BY <2>1, <2>3, AloneTurn
  <2> QED
    BY <1>7, <2>2, <2>3, ChangeSeatsIs
<1>8. ASSUME NEW h \in Handler, Fail(h) PROVE TurnInv'
  <2>1. UNCHANGED <<ours, plan>> /\ Goto(h, Idle)
    BY <1>8, FailIs
  <2>2. CASE sole' = "mixed"
    BY <2>2, HandlersAre DEF TurnInv
  <2>3. CASE sole' = sole
    BY <1>5, <2>1, <2>3, IdleTyped
  <2> QED
    BY <1>8, <2>2, <2>3, FailIs
<1>9. CASE UNCHANGED vars
  BY <1>9, AsideTurn DEF vars
<1> QED
  BY <1>1, <1>2, <1>3, <1>4, <1>6, <1>7, <1>8, <1>9, StepsAre

-----------------------------------------------------------------------------
IInv == TypeInv /\ DataInv /\ TurnInv

\* The invariant of every state: no change of a subscription is lost, and what
\* a handler that applies alone has read stands.
THEOREM Invariance == Spec => []IInv
<1>1. Init => IInv
  BY InitTyped, InitData, InitTurn DEF IInv
<1>2. IInv /\ [Next]_vars => IInv'
  BY StepTyped, DataStep, TurnStep DEF IInv
<1> QED
  BY <1>1, <1>2, PTL DEF Spec

\* With no webhook left to answer, the copies are what the provider has.
LEMMA NothingOnTheWire ==
  ASSUME TypeInv, DataInv, wire = {}
  PROVE  PaidPlan(ours) = PaidPlan([s \in Sub |-> Copy(theirs[s])])
<1>1. PICK copies : copies = [s \in Sub |-> Copy(theirs[s])]
  OBVIOUS
<1>2. ASSUME NEW s \in Sub
      PROVE  ours[s].paying = copies[s].paying /\ (ours[s].paying => ours[s].plan = copies[s].plan)
  <2>1. theirs[s] \in Subscription /\ copies[s] = Copy(theirs[s])
    BY <1>1 DEF TypeInv
  <2>2. CASE theirs[s].at = 0
    <3>1. ours[s].at \in Nat
      BY DEF TypeInv, Snapshot
    <3>2. ours[s] = None
      BY <2>2, <3>1 DEF DataInv, Kept
    <3>3. theirs[s].status # "paying"
      BY <2>2 DEF DataInv, Standing
    <3>4. ours[s].paying = FALSE
      BY <3>2 DEF None
    <3>5. copies[s].paying = (theirs[s].status = "paying")
      BY <2>1 DEF Copy
    <3>6. copies[s].paying = FALSE
      BY <3>3, <3>5
    <3> QED
      BY <3>4, <3>6
  <2>3. CASE theirs[s].at # 0
    <3>1. ours[s].at = theirs[s].at
      BY <2>3 DEF DataInv, NotLost
    <3>2. ours[s] = Copy(theirs[s])
      BY <2>3, <3>1 DEF DataInv, Kept, None
    <3> QED
      BY <2>1, <3>2
  <2> QED
    BY <2>2, <2>3
<1>3. {ours[s].plan : s \in {x \in Sub : ours[x].paying}}
        = {copies[s].plan : s \in {x \in Sub : copies[x].paying}}
  BY <1>2
<1> QED
  BY <1>1, <1>3 DEF PaidPlan

\* Once every webhook is answered, the workspace is on the plan the provider is
\* paid for, whatever order they came in, for any number of subscriptions and
\* handlers, if the last to apply one was alone and no operator moved it.
THEOREM PlanIsPaidFor == Spec => []PlanIsWhatIsPaid
<1>1. IInv => PlanIsWhatIsPaid
  <2> SUFFICES ASSUME IInv, wire = {}, sole = "settled", plan # "enterprise"
               PROVE  plan = PaidPlan([s \in Sub |-> Copy(theirs[s])])
    BY DEF PlanIsWhatIsPaid
  <2>1. plan = PaidPlan(ours)
    BY DEF IInv, TurnInv
  <2> QED
    BY <2>1, NothingOnTheWire DEF IInv
<1> QED
  BY <1>1, Invariance, PTL

=============================================================================
