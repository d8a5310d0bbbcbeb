-------------------------------- MODULE Billing --------------------------------
(***************************************************************************)
(* What one workspace pays for: its subscriptions as the payment provider  *)
(* has them, as the database copies them, the plan worked out from the     *)
(* copies, and the seats of a Team plan kept in step with its members.     *)
(*                                                                         *)
(* The provider is external: it changes subscriptions, sends a webhook     *)
(* with the snapshot for each change, in any order, and again while one    *)
(* goes unanswered.  The gateway runs handlers; each saves a snapshot,     *)
(* reads the plan, reads what is paid for and sets the plan, with nothing  *)
(* held in between.                                                        *)
(***************************************************************************)
EXTENDS Integers, FiniteSets

CONSTANTS
  Sub,        \* subscriptions, each bought by a checkout
  Handler,    \* requests the gateway works on together
  MaxMembers, \* bound: the people in the workspace
  MaxActs,    \* bound: portal changes, members' and operators' acts
  MaxFaults   \* bound: failures, and webhooks delivered once more

ASSUME BoundsAssumption ==
  MaxMembers \in Nat \ {0} /\ MaxActs \in Nat /\ MaxFaults \in Nat
\* `sole` says by these names that no handler applies alone.
ASSUME HandlerAssumption == Handler \cap {"settled", "mixed", "byHand"} = {}

VARIABLES
  theirs,   \* the provider's subscriptions
  ours,     \* workspace_subscriptions: the newest snapshot of each
  plan,     \* workspaces.plan
  members,  \* how many are in the workspace
  wire,     \* webhooks sent and not answered
  work,     \* handlers
  now,      \* the provider's clock, a tick per change
  acts, faults,
  sole,     \* history: who applies alone, or how the last to apply did
  missed    \* history: a seat count that was due failed, or was not made on Enterprise

vars == <<theirs, ours, plan, members, wire, work, now, acts, faults, sole, missed>>

Rank(p) == CASE p = "free" -> 0 [] p = "pro" -> 1 [] p = "team" -> 2 [] p = "enterprise" -> 3

\* What of a subscription is copied; pending seats stay with the provider.
None == [at |-> 0, plan |-> "free", paying |-> FALSE, seats |-> 0]
Never == [status |-> "none", at |-> 0, bought |-> "free", plan |-> "free", seats |-> 0,
          pending |-> 0]
Copy(sub) == [at |-> sub.at, plan |-> sub.plan, paying |-> sub.status = "paying",
              seats |-> sub.seats]

Idle == [step |-> "idle", todo |-> {}, msg |-> 0, known |-> "free", paid |-> "free",
         addOnly |-> FALSE, members |-> 0, sub |-> {}, change |-> "none"]

Init ==
  /\ theirs = [s \in Sub |-> Never]
  /\ ours = [s \in Sub |-> None]
  /\ plan = "free" /\ members \in 1..MaxMembers
  /\ wire = {} /\ work = [h \in Handler |-> Idle]
  /\ now = 0 /\ acts = 0 /\ faults = 0
  /\ sole = "settled" /\ missed = FALSE

Act == acts < MaxActs /\ acts' = acts + 1
Fault == faults < MaxFaults /\ faults' = faults + 1

-----------------------------------------------------------------------------
(* What is paid for.                                                       *)

Largest(plans) == CHOOSE p \in plans : \A q \in plans : Rank(p) >= Rank(q)

\* The largest plan the copies still pay for, or Free.
PaidPlan(subs) ==
  LET paid == {subs[s].plan : s \in {x \in Sub : subs[x].paying}} IN
  IF paid = {} THEN "free" ELSE Largest(paid)

\* The subscription paying now: the one changed last.
Paying == {s \in Sub : ours[s].paying}
PayingSubscription ==
  {s \in Paying : \A x \in Paying : ours[x].at <= ours[s].at}

-----------------------------------------------------------------------------
(* The provider.                                                           *)

Webhook(s) == [sub |-> s, at |-> theirs[s].at, copy |-> Copy(theirs[s])]

\* A subscription changes: a webhook goes out.
Becomes(s, sub) ==
  LET new == [sub EXCEPT !.at = now + 1] IN
  /\ now' = now + 1
  /\ theirs' = [theirs EXCEPT ![s] = new]
  /\ wire' = wire \cup {[sub |-> s, at |-> now + 1, copy |-> Copy(new)]}

\* The owner opens a checkout, which is refused while a plan is paid for.  A
\* Team plan is sold with a seat for everyone in the workspace by then.
StartCheckout(s, p) ==
  /\ theirs[s] = Never /\ p \in {"pro", "team"}
  /\ plan # "enterprise" /\ PaidPlan(ours) = "free"
  /\ theirs' = [theirs EXCEPT ![s] = [status |-> "open", at |-> 0, bought |-> p,
                  plan |-> p, seats |-> IF p = "team" THEN members ELSE 0, pending |-> 0]]
  /\ UNCHANGED <<ours, plan, members, wire, work, now, acts, faults, sole, missed>>

Pay(s) ==
  /\ theirs[s].status = "open"
  /\ Becomes(s, [theirs[s] EXCEPT !.status = "paying"])
  /\ UNCHANGED <<ours, plan, members, work, acts, faults, sole, missed>>

\* In the portal: another plan, which for Team is sold with one seat.
SwitchPlan(s) ==
  /\ theirs[s].status = "paying" /\ Act
  /\ Becomes(s, IF theirs[s].plan = "pro"
                  THEN [theirs[s] EXCEPT !.plan = "team", !.seats = 1]
                  ELSE [theirs[s] EXCEPT !.plan = "pro", !.seats = 0, !.pending = 0])
  /\ UNCHANGED <<ours, plan, members, work, faults, sole, missed>>

\* The card fails for good or the plan ends; or it is paid after all.
Lapse(s) ==
  /\ theirs[s].status = "paying" /\ Act
  /\ Becomes(s, [theirs[s] EXCEPT !.status = "lapsed"])
  /\ UNCHANGED <<ours, plan, members, work, faults, sole, missed>>
Recover(s) ==
  /\ theirs[s].status = "lapsed" /\ Act
  /\ Becomes(s, [theirs[s] EXCEPT !.status = "paying"])
  /\ UNCHANGED <<ours, plan, members, work, faults, sole, missed>>

\* Seats given up come off as the plan renews.
Renew(s) ==
  /\ theirs[s].status = "paying" /\ theirs[s].pending # 0
  /\ Becomes(s, [theirs[s] EXCEPT !.seats = theirs[s].pending, !.pending = 0])
  /\ UNCHANGED <<ours, plan, members, work, acts, faults, sole, missed>>

\* An operator moves the workspace by hand.
SetPlanByHand(p) ==
  /\ p \in {"enterprise", "free"} /\ p # plan /\ Act
  /\ plan' = p /\ sole' = "byHand"
  /\ UNCHANGED <<theirs, ours, members, wire, work, now, faults, missed>>

-----------------------------------------------------------------------------
(* Applying snapshots.                                                     *)

Goto(h, state) == work' = [work EXCEPT ![h] = state]
Applying(h) == work[h].step \in {"save", "current", "paid", "set"}

Alone(h) == IF \E k \in Handler \ {h} : Applying(k) THEN "mixed" ELSE h
Settles(h) == sole' = IF sole = h THEN "settled" ELSE sole

\* Mutant of Receive: a webhook is answered before it is applied.
AnswerFirst(h, m) ==
  /\ work[h] = Idle /\ m \in wire
  /\ Goto(h, [Idle EXCEPT !.step = "save", !.todo = {m}, !.msg = m.at])
  /\ wire' = wire \ {m}
  /\ sole' = Alone(h)
  /\ UNCHANGED <<theirs, ours, plan, members, now, acts, faults, missed>>

\* Applied first, then answered.
Receive(h, m) ==
  /\ work[h] = Idle /\ m \in wire
  /\ \A k \in Handler : work[k].msg # m.at
  /\ Goto(h, [Idle EXCEPT !.step = "save", !.todo = {m}, !.msg = m.at])
  /\ sole' = Alone(h)
  /\ UNCHANGED <<theirs, ours, plan, members, wire, now, acts, faults, missed>>

\* The provider gave up waiting and sends it again.
Redeliver(h, m) ==
  /\ work[h] = Idle /\ m \in wire /\ Fault
  /\ \E k \in Handler : work[k].msg = m.at
  /\ Goto(h, [Idle EXCEPT !.step = "save", !.todo = {m}, !.msg = m.at])
  /\ sole' = Alone(h)
  /\ UNCHANGED <<theirs, ours, plan, members, wire, now, acts, missed>>

\* A page that still shows Free, or not the plan its checkout bought, asks the
\* provider.
Reconcile(h) ==
  LET listed == {s \in Sub : theirs[s].at # 0} IN
  /\ work[h] = Idle /\ listed # {} /\ Act
  /\ plan = "free" \/ \E s \in Sub : theirs[s].status # "none" /\ theirs[s].bought # plan
  /\ Goto(h, [Idle EXCEPT !.step = "save", !.todo = {Webhook(s) : s \in listed}])
  /\ sole' = Alone(h)
  /\ UNCHANGED <<theirs, ours, plan, members, wire, now, faults, missed>>

\* Mutant of Newer: whatever comes replaces what is kept.
AnySnapshot(m) == TRUE

Newer(m) == ours[m.sub].at <= m.at

\* Every snapshot here names the workspace and sells a plan of the catalogue: one
\* that does not is logged and answered, and changes nothing.
SaveSnapshot(h) ==
  /\ work[h].step = "save"
  /\ \E m \in work[h].todo :
       /\ ours' = IF Newer(m) THEN [ours EXCEPT ![m.sub] = m.copy] ELSE ours
       /\ Goto(h, [work[h] EXCEPT !.step = "current", !.todo = @ \ {m},
                                  !.addOnly = m.copy.plan = "team"])
  /\ UNCHANGED <<theirs, plan, members, wire, now, acts, faults, sole, missed>>

\* Mutant of Answered: no seats are counted after the answer.
JustAnswered(h, state) == Idle

\* Once a webhook is answered, a Team plan's seats are counted.
Answered(h, state) ==
  IF state.msg # 0 /\ state.addOnly THEN [Idle EXCEPT !.step = "row", !.addOnly = TRUE]
  ELSE Idle

\* A snapshot has been applied: on to the next one, or answer the webhook.
Applied(h, next) ==
  IF work[h].todo # {}
  THEN /\ Goto(h, [work[h] EXCEPT !.step = "save", !.known = "free", !.paid = "free"])
       /\ UNCHANGED <<wire, sole>>
  ELSE /\ Goto(h, next)
       /\ wire' = {m \in wire : m.at # work[h].msg}
       /\ Settles(h)

\* Enterprise is arranged by hand: the snapshot is kept and nothing moves.
ReadPlan(h) ==
  /\ work[h].step = "current"
  /\ IF plan = "enterprise"
       THEN Applied(h, Idle) /\ missed' = (missed \/ work[h].addOnly)
       ELSE /\ Goto(h, [work[h] EXCEPT !.step = "paid", !.known = plan])
            /\ UNCHANGED <<wire, sole, missed>>
  /\ UNCHANGED <<theirs, ours, plan, members, now, acts, faults>>

ReadPaid(h) ==
  LET paid == PaidPlan(ours) IN
  /\ work[h].step = "paid"
  /\ IF paid = work[h].known THEN Applied(h, Answered(h, work[h]))
     ELSE /\ Goto(h, [work[h] EXCEPT !.step = "set", !.paid = paid])
          /\ UNCHANGED <<wire, sole>>
  /\ UNCHANGED <<theirs, ours, plan, members, now, acts, faults, missed>>

SetPlan(h) ==
  /\ work[h].step = "set"
  /\ plan' = work[h].paid
  /\ Applied(h, Answered(h, work[h]))
  /\ UNCHANGED <<theirs, ours, members, now, acts, faults, missed>>

-----------------------------------------------------------------------------
(* Keeping the seats in step.                                              *)

\* Somebody comes or goes, and the seats are counted behind the answer.
MembersChange(h, n) ==
  /\ work[h] = Idle /\ n \in 1..MaxMembers
  /\ n = members + 1 \/ n = members - 1
  /\ Act
  /\ members' = n
  /\ Goto(h, [Idle EXCEPT !.step = "row"])
  /\ UNCHANGED <<theirs, ours, plan, wire, now, faults, sole, missed>>

ReadRow(h) ==
  LET subs == {s \in PayingSubscription : ours[s].plan = "team"} IN
  /\ work[h].step = "row"
  /\ Goto(h, IF subs = {} THEN Idle
             ELSE [work[h] EXCEPT !.step = "count", !.sub = subs])
  /\ UNCHANGED <<theirs, ours, plan, members, wire, now, acts, faults, sole, missed>>

CountMembers(h) ==
  /\ work[h].step = "count"
  /\ Goto(h, [work[h] EXCEPT !.step = "look", !.members = members])
  /\ missed' = FALSE
  /\ UNCHANGED <<theirs, ours, plan, members, wire, now, acts, faults, sole>>

SeatChange(wanted, seats, pending) ==
  CASE wanted > seats -> "add-now"
    [] wanted < seats -> IF pending = wanted THEN "none" ELSE "reduce-at-renewal"
    [] wanted = seats -> IF pending \notin {0, seats} THEN "drop-pending" ELSE "none"

\* What seats the provider has, and what to ask of it.
LookAtSeats(h) ==
  /\ work[h].step = "look"
  /\ \E s \in work[h].sub :
       LET change == SeatChange(work[h].members, theirs[s].seats, theirs[s].pending) IN
       IF \/ theirs[s].plan # "team" \/ change = "none"
          \/ work[h].addOnly /\ change # "add-now"
       THEN Goto(h, Idle)
       ELSE Goto(h, [work[h] EXCEPT !.step = "change", !.change = change])
  /\ UNCHANGED <<theirs, ours, plan, members, wire, now, acts, faults, sole, missed>>

\* The provider does as it is asked, and its answer is applied too; it refuses
\* for a subscription that is no longer a paying Team plan.
ChangeSeats(h) ==
  /\ work[h].step = "change"
  /\ \E s \in work[h].sub :
       IF theirs[s].status # "paying" \/ theirs[s].plan # "team"
       THEN /\ Goto(h, Idle)
            /\ UNCHANGED <<theirs, wire, now, sole>>
       ELSE LET n == work[h].members
                asked == CASE work[h].change = "add-now" ->
                                [theirs[s] EXCEPT !.seats = n]
                           [] work[h].change = "reduce-at-renewal" ->
                                [theirs[s] EXCEPT !.pending = n]
                           [] work[h].change = "drop-pending" ->
                                [theirs[s] EXCEPT !.pending = 0]
            IN /\ Becomes(s, asked)
               /\ Goto(h, [Idle EXCEPT !.step = "save", !.todo =
                    {[sub |-> s, at |-> now + 1, copy |-> Copy([asked EXCEPT !.at = now + 1])]}])
               /\ sole' = Alone(h)
  /\ UNCHANGED <<ours, plan, members, acts, faults, missed>>

-----------------------------------------------------------------------------
\* A statement or a call to the provider fails.  A webhook goes unanswered and
\* comes again; a count of seats is logged and lost.
Fail(h) ==
  /\ work[h] # Idle /\ Fault
  /\ Goto(h, Idle)
  /\ sole' = IF Applying(h) THEN "mixed" ELSE sole
  /\ missed' = (missed \/ ~Applying(h))
  /\ UNCHANGED <<theirs, ours, plan, members, wire, now, acts>>

Step(h) ==
  \/ SaveSnapshot(h) \/ ReadPlan(h) \/ ReadPaid(h) \/ SetPlan(h)
  \/ ReadRow(h) \/ CountMembers(h) \/ LookAtSeats(h) \/ ChangeSeats(h)

Next ==
  \/ \E s \in Sub :
       \/ \E p \in {"pro", "team"} : StartCheckout(s, p)
       \/ Pay(s) \/ SwitchPlan(s) \/ Lapse(s) \/ Recover(s) \/ Renew(s)
  \/ \E p \in {"enterprise", "free"} : SetPlanByHand(p)
  \/ \E h \in Handler :
       \/ \E m \in wire : Receive(h, m) \/ Redeliver(h, m)
       \/ Reconcile(h) \/ Step(h) \/ Fail(h)
       \/ \E n \in 1..MaxMembers : MembersChange(h, n)

\* Handlers go on, and the provider keeps sending what is not answered.
Spec ==
  /\ Init /\ [][Next]_vars
  /\ \A h \in Handler : WF_vars(Step(h))
  /\ WF_vars(\E h \in Handler : \E m \in wire : Receive(h, m))

-----------------------------------------------------------------------------
\* Once every webhook is answered, the workspace is on the largest plan the
\* provider is paid for, whatever order they came in, however often, and with
\* failures between; provided the last of them did not overlap another, and no
\* operator moved the workspace since.
PlanIsWhatIsPaid ==
  wire = {} /\ sole = "settled" /\ plan # "enterprise" =>
    plan = PaidPlan([s \in Sub |-> Copy(theirs[s])])

\* What the provider last said is what is kept, once it stops changing.
KeepsTheLatest ==
  <>[](\A s \in Sub : theirs[s].at # 0 => ours[s] = Copy(theirs[s]))

\* Every member of a Team plan ends up with a seat, though counts overlap and
\* go stale, unless a count failed and nobody has come or gone since.
SeatsCatchUp ==
  <>[](\/ missed \/ plan = "enterprise"
       \/ \A s \in Sub : theirs[s].status = "paying" /\ theirs[s].plan = "team" =>
            theirs[s].seats >= members)

(* What the sources say, and the code does not keep.                       *)

\* billing.service.ts: the plan is worked out again from every subscription,
\* "so the order webhooks arrive in never matters".
OrderNeverMatters ==
  /\ wire = {} /\ \A h \in Handler : work[h] = Idle
  /\ plan # "enterprise" /\ sole # "byHand"
  => plan = PaidPlan([s \in Sub |-> Copy(theirs[s])])

=============================================================================
