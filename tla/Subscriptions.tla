--------------------------- MODULE Subscriptions ---------------------------
(***************************************************************************)
(* Who is subscribed to which plan.  GET /billing/me gives a new user the   *)
(* free plan, an admin gives plans with POST /billing/subscribe, and Stripe *)
(* reports payments to POST /billing/stripe/webhook until it is answered    *)
(* 200.  Each request has one session and one transaction: it reads, stages *)
(* its writes, and get_db commits or rolls back.  What the reads and writes *)
(* are is the saas library's; it is not in the repository, and is modelled  *)
(* from its calls, the schema of its tables and the tests of the endpoints. *)
(***************************************************************************)
EXTENDS Naturals, FiniteSets, Functions

CONSTANTS
    Users,
    Visits,         \* requests to GET /billing/me
    Grants,         \* requests to POST /billing/subscribe
    Events,         \* what Stripe sends, each until acknowledged; an event may be sent twice
    UserOf,         \* whom a request or event is about
    KindOf,         \* what an event says
    PlanOf,         \* the plan that a grant or a checkout names
    Offered,        \* the plans that the request schema lets through; others are 422
    Price,          \* price_usd_per_month of the plans that are in the catalogue
    Together,       \* the sets of requests that come in one behaviour
    MaxFailures     \* bound: failing commits, crashes, lost responses

Requests == Visits \cup Grants \cup Events
Plans    == DOMAIN Price
Kinds    == {"completed", "updated", "deleted", "unsupported", "forged"}

ASSUME SubscriptionsAssumption ==
    /\ Visits \cap Grants = {} /\ Visits \cap Events = {} /\ Grants \cap Events = {}
    /\ UserOf \in [Requests -> Users]
    /\ KindOf \in [Events -> Kinds]
    /\ Price \in [Plans -> Nat] /\ IsFiniteSet(Plans)
    /\ "free" \in Plans
    /\ \A r \in Grants : PlanOf[r] \in Offered
    /\ \A e \in Events : KindOf[e] = "completed" => PlanOf[e] \in Plans
    /\ Together \subseteq SUBSET Requests
    /\ MaxFailures \in Nat

VARIABLES
    enabled,        \* STRIPE_ENABLED, read once when the service starts
    subs,           \* billing_subscriptions, committed
    usage,          \* the users with a row for the month in billing_monthly_user_usage
    side,           \* stripe_status of the user's Stripe subscription, committed
    pc,             \* where each request is
    seen,           \* active subscriptions and Stripe status that its session read
    staged,         \* the writes of its session
    answer,         \* the status code its sender got
    commits,        \* how often it has committed
    overlapped,     \* users for whom a request committed during another one
    failures        \* how many failures there were

tables == <<subs, usage, side>>
session == <<pc, seen, staged, answer>>
vars == <<enabled, tables, session, commits, overlapped, failures>>

\* by and n are the key of a row: who made it, in which of its transactions.
Row == [by : Requests, n : Nat, plan : Plans, active : BOOLEAN]
Active(u) == {s \in subs : UserOf[s.by] = u /\ s.active}
Subscribed == {u \in Users : Active(u) # {}}

Nothing == [cancel |-> {}, insert |-> {}, month |-> FALSE, side |-> "keep"]

Init ==
    /\ enabled \in BOOLEAN
    /\ subs = {}
    /\ usage = {}
    /\ side = [u \in Users |-> "none"]
    /\ \E T \in Together : pc = [r \in Requests |-> IF r \in T THEN "idle" ELSE "absent"]
    /\ seen = [r \in Requests |-> [subs |-> {}, side |-> "none"]]
    /\ staged = [r \in Requests |-> Nothing]
    /\ answer = [r \in Requests |-> "none"]
    /\ commits = [r \in Requests |-> 0]
    /\ overlapped = {}
    /\ failures = 0

---------------------------------------------------------------------------
(* The library: what a session reads and stages *)

\* The first statement of a session: the user's active subscription.
Look(r) ==
    /\ pc' = [pc EXCEPT ![r] = "looked"]
    /\ seen' = [seen EXCEPT ![r] = [subs |-> Active(UserOf[r]), side |-> side[UserOf[r]]]]
    /\ UNCHANGED <<enabled, tables, staged, answer, commits, overlapped, failures>>

Stage(r, writes) ==
    /\ pc' = [pc EXCEPT ![r] = "ending"]
    /\ staged' = [staged EXCEPT ![r] = writes]
    /\ UNCHANGED <<enabled, tables, seen, answer, commits, overlapped, failures>>

\* The handler raises, perhaps with some of its writes made.
Raise(r, writes, status) ==
    /\ pc' = [pc EXCEPT ![r] = "raised"]
    /\ staged' = [staged EXCEPT ![r] = writes]
    /\ answer' = [answer EXCEPT ![r] = status]
    /\ UNCHANGED <<enabled, tables, seen, commits, overlapped, failures>>

\* switch_subscription cancels what was found active, or the one of several that it
\* found, and adds a row for the new plan.
Cancelled(r) == {c \in SUBSET seen[r].subs : seen[r].subs # {} => c # {}}
SwitchTo(plan, c, status) == [cancel |-> c, insert |-> {plan}, month |-> FALSE, side |-> status]

\* handle_event: a checkout switches the plan and makes the Stripe row active; an
\* update, an invoice, a refund writes the Stripe row; a deletion cancels it and switches
\* to the free plan; any other type is ignored.  Without the Stripe row the last two
\* may do nothing or raise.
HandleEvent(e) ==
    \/ /\ KindOf[e] = "completed"
       /\ \E c \in Cancelled(e) : Stage(e, SwitchTo(PlanOf[e], c, "active"))
    \/ /\ KindOf[e] = "updated" /\ seen[e].side # "none"
       /\ Stage(e, [Nothing EXCEPT !.side = "past_due"])
    \/ /\ KindOf[e] = "deleted" /\ seen[e].side # "none"
       /\ \E c \in Cancelled(e) : Stage(e, SwitchTo("free", c, "canceled"))
    \/ /\ KindOf[e] \in {"updated", "deleted"} /\ seen[e].side = "none"
       /\ Stage(e, Nothing) \/ Raise(e, Nothing, "500")
    \/ KindOf[e] = "unsupported" /\ Stage(e, Nothing)

---------------------------------------------------------------------------
(* The handlers *)

Begin(r) ==
    /\ r \in Visits \cup Grants
    /\ pc[r] = "idle"
    /\ Look(r)

\* get_me: a user without a subscription gets the free plan, one without a row for
\* the month gets one.
GetMe(r) ==
    /\ r \in Visits
    /\ pc[r] = "looked"
    /\ Stage(r, [Nothing EXCEPT
          !.insert = IF seen[r].subs = {} THEN {"free"} ELSE {},
          !.month = UserOf[r] \notin usage])

\* admin_subscribe: a plan of the schema that the catalogue has lost is answered 400,
\* whatever the library has done by then.
AdminSubscribe(r) ==
    /\ r \in Grants
    /\ pc[r] = "looked"
    /\ \E c \in Cancelled(r) :
        \/ PlanOf[r] \in Plans /\ Stage(r, SwitchTo(PlanOf[r], c, "keep"))
        \/ /\ PlanOf[r] \notin Plans
           /\ Raise(r, Nothing, "400") \/ Raise(r, [Nothing EXCEPT !.cancel = c], "400")

\* stripe_webhook: 503 when Stripe is off, 400 when the signature or the JSON is wrong;
\* both before anything is read, and Stripe may send the same again.
StripeWebhook(e) ==
    /\ e \in Events
    /\ pc[e] = "idle"
    /\ \/ ~enabled /\ answer' = [answer EXCEPT ![e] = "503"]
       \/ enabled /\ KindOf[e] = "forged" /\ answer' = [answer EXCEPT ![e] = "400"]
    /\ UNCHANGED <<enabled, tables, pc, seen, staged, commits, overlapped, failures>>

Deliver(e) ==
    /\ e \in Events
    /\ pc[e] = "idle"
    /\ enabled /\ KindOf[e] # "forged"
    /\ Look(e)

\* Mutant: a type that is not supported is refused.
HandleSupported(e) ==
    /\ e \in Events
    /\ pc[e] = "looked"
    /\ IF KindOf[e] = "unsupported" THEN Raise(e, Nothing, "500") ELSE HandleEvent(e)

Handle(e) ==
    /\ e \in Events
    /\ pc[e] = "looked"
    /\ HandleEvent(e)

---------------------------------------------------------------------------
(* The end of a session *)

\* Unique constraints: a user has one row for the month, a Stripe subscription one
\* row; an insert is refused if another transaction has added the row meanwhile.
MonthTaken(r) == staged[r].month /\ UserOf[r] \in usage

StripeTaken(r) ==
    /\ staged[r].side = "active" /\ seen[r].side = "none"
    /\ side[UserOf[r]] # "none"

Conflict(r) == MonthTaken(r) \/ StripeTaken(r)

Written(r) ==
    (subs \ staged[r].cancel)
    \cup {[s EXCEPT !.active = FALSE] : s \in staged[r].cancel}
    \cup {[by |-> r, n |-> commits[r], plan |-> p, active |-> TRUE] : p \in staged[r].insert}

Apply(r) ==
    /\ subs' = Written(r)
    /\ usage' = IF staged[r].month THEN usage \cup {UserOf[r]} ELSE usage
    /\ side' = IF staged[r].side = "keep" THEN side
               ELSE [side EXCEPT ![UserOf[r]] = staged[r].side]

\* Stripe sends again what was not answered 200; nobody repeats the others.
Over(r, status) ==
    /\ pc' = [pc EXCEPT ![r] = IF r \in Events /\ status # "200" THEN "idle" ELSE "done"]
    /\ answer' = [answer EXCEPT ![r] = status]
    /\ seen' = [seen EXCEPT ![r] = [subs |-> {}, side |-> "none"]]
    /\ staged' = [staged EXCEPT ![r] = Nothing]
    /\ UNCHANGED enabled

Open(r) == pc[r] \in {"looked", "ending", "raised"}

\* get_db commits; the response is sent afterwards and may be lost.
Commit(r) ==
    /\ pc[r] = "ending"
    /\ ~Conflict(r)
    /\ Apply(r)
    /\ \/ Over(r, "200") /\ UNCHANGED failures
       \/ /\ failures < MaxFailures
          /\ Over(r, "none")
          /\ failures' = failures + 1
    /\ commits' = [commits EXCEPT ![r] = @ + 1]
    /\ overlapped' = overlapped \cup
          {UserOf[q] : q \in {x \in Requests : x # r /\ Open(x) /\ UserOf[x] = UserOf[r]}}

\* Mutant: a commit that fails is answered like one that does not.
CommitFailsUnnoticed(r) ==
    /\ pc[r] = "ending"
    /\ \/ Conflict(r) /\ UNCHANGED failures
       \/ failures < MaxFailures /\ failures' = failures + 1
    /\ Over(r, "200")
    /\ UNCHANGED <<tables, commits, overlapped>>

\* A constraint or the database refuses the commit: 500.
CommitFails(r) ==
    /\ pc[r] = "ending"
    /\ \/ Conflict(r) /\ UNCHANGED failures
       \/ failures < MaxFailures /\ failures' = failures + 1
    /\ Over(r, "500")
    /\ UNCHANGED <<tables, commits, overlapped>>

\* Mutant: what was written before the exception is kept.
RollbackKeeping(r) ==
    /\ pc[r] = "raised"
    /\ Apply(r)
    /\ Over(r, answer[r])
    /\ UNCHANGED <<commits, overlapped, failures>>

\* get_db rolls back after an exception.
Rollback(r) ==
    /\ pc[r] = "raised"
    /\ Over(r, answer[r])
    /\ UNCHANGED <<tables, commits, overlapped, failures>>

\* The process dies; PostgreSQL rolls back what was open.
Crash ==
    /\ failures < MaxFailures
    /\ \E r \in Requests : Open(r)
    /\ failures' = failures + 1
    /\ pc' = [r \in Requests |-> IF ~Open(r) THEN pc[r]
                                 ELSE IF r \in Events THEN "idle" ELSE "done"]
    /\ seen' = [r \in Requests |-> [subs |-> {}, side |-> "none"]]
    /\ staged' = [r \in Requests |-> Nothing]
    /\ answer' = [r \in Requests |-> IF Open(r) THEN "none" ELSE answer[r]]
    /\ UNCHANGED <<enabled, tables, commits, overlapped>>

Quiet ==
    /\ \A r \in Requests : pc[r] \in {"absent", "done"}
    /\ UNCHANGED vars

Progress(r) ==
    \/ Begin(r) \/ GetMe(r) \/ AdminSubscribe(r)
    \/ StripeWebhook(r) \/ Deliver(r) \/ Handle(r)
    \/ Commit(r) \/ CommitFails(r) \/ Rollback(r)

Next == (\E r \in Requests : Progress(r)) \/ Crash \/ Quiet

Spec == Init /\ [][Next]_vars

\* Stripe delivers again and again, and the event loop goes on with its request.
FairSpec == Spec /\ \A e \in Events : WF_vars(Progress(e))

---------------------------------------------------------------------------
(* The statistics of an administrator *)

\* Mutant: the join forgets the status.
DistributionOfAll(p) == Cardinality({s \in subs : s.plan = p})

\* admin_stats: the active subscriptions of each plan, in one statement.
Distribution(p) == Cardinality({s \in subs : s.plan = p /\ s.active})

TotalSubs       == SumFunction([p \in Plans |-> Distribution(p)])
TotalRevenue    == SumFunction([p \in Plans |-> Price[p] * Distribution(p)])

---------------------------------------------------------------------------
\* Nothing takes a user's last subscription away: no switch is left half done, by
\* whichever failure or crash.
KeepsASubscription ==
    [][\A u \in Users : Active(u) # {} => Active(u)' # {}]_vars

\* The reported revenue counts each subscriber once, at the price of his plan, unless
\* two requests about one user overlapped: no constraint keeps them from both adding
\* an active subscription.
RevenueCountsEachOnce ==
    overlapped = {} =>
        /\ TotalSubs = Cardinality(Subscribed)
        /\ TotalRevenue = SumFunction(
              [u \in Subscribed |-> Price[(CHOOSE s \in Active(u) : TRUE).plan]])

\* Stripe never repeats an event that was answered 200, so the subscription that was
\* paid for is in the tables by then, with its Stripe row.
AcknowledgedIsKept ==
    \A e \in Events : KindOf[e] = "completed" /\ answer[e] = "200" =>
        /\ side[UserOf[e]] # "none"
        /\ \E s \in subs : s.by = e /\ s.plan = PlanOf[e]

\* Every event of Stripe is acknowledged in the end, whatever order they arrive in,
\* however often one of them failed, crashed or was applied with its answer lost.
EventsSettle ==
    \A e \in Events : enabled /\ pc[e] = "idle" /\ KindOf[e] # "forged" =>
        <>(answer[e] = "200")
============================================================================
