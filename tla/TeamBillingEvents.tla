-------------------------- MODULE TeamBillingEvents ------------------------
(***************************************************************************)
(* How verified Stripe events become the Subscription row of one Team:     *)
(* src/team-billing-convergence.ts, and the projection a client is given   *)
(* (safeTeamBillingProjection in src/team-billing-runtime.ts).  Stripe is  *)
(* external: it changes its Subscription, writes an event for each change  *)
(* with a clock of whole seconds, and delivers every event at least once   *)
(* and in any order.  The atomic fence applies one event at a time.        *)
(*                                                                         *)
(* One Subscription of a product billed by members, bought by a Checkout   *)
(* that is no longer pending; malformed events and other Customers are     *)
(* left out.                                                               *)
(***************************************************************************)
EXTENDS Naturals, Sequences

CONSTANTS
  MaxMembers,
  Minimum,         \* the product's floor (billableTeamMemberQuantity)
  OpQuantity,      \* the quantity the Checkout was started for
  MaxEvents,       \* bound on the events Stripe writes
  EarlyInvoices,   \* whether an invoice's event may overtake the first snapshot
  NoRow

Rank == [active |-> 20, cancelling |-> 30, past_due |-> 40, cancelled |-> 50]
Kinds == DOMAIN Rank
Living == Kinds \ {"cancelled"}
Quantities == Minimum..MaxMembers

Events ==
  [type : {"created", "updated", "deleted", "invoice"}, kind : Kinds,
   quantity : Quantities, period : Nat, at : Nat]
Rows ==
  [state : {"active", "past_due", "cancelled"}, kind : Kinds \union {"invoice_failed"},
   rank : {20, 30, 40, 50}, quantity : Quantities, period : Nat, at : Nat, latched : BOOLEAN]
Outcomes == {"none", "applied", "ignored", "quarantined"}
Observations == [outcome : Outcomes, team : BOOLEAN]
Unseen == [outcome |-> "none", team |-> FALSE]

ASSUME TeamBillingEventsAssumption ==
  /\ Minimum \in Nat \ {0} /\ MaxMembers \in Nat /\ OpQuantity \in Minimum..MaxMembers
  /\ MaxEvents \in Nat \ {0} /\ EarlyInvoices \in BOOLEAN
  /\ NoRow \notin Rows

VARIABLES
  stripe,     \* Stripe's Subscription: kind, quantity, period and Stripe's clock
  sent,       \* the events Stripe wrote, in its order
  observed,   \* sporades_team_billing_observations: observed[i] has its outcome
  row,        \* sporades_team_billing_subscriptions
  members     \* accepted members of the Team

vars == <<stripe, sent, observed, row, members>>

-----------------------------------------------------------------------------
(* The Subscription at Stripe *)

Emit(type, kind, quantity, period, at) ==
  /\ Len(sent) < MaxEvents
  /\ stripe' = [kind |-> IF stripe.kind = "cancelled" THEN "cancelled" ELSE kind,
                quantity |-> quantity, period |-> period, at |-> at]
  /\ sent' = Append(sent, [type |-> type, kind |-> kind, quantity |-> quantity,
                           period |-> period, at |-> at])
  /\ observed' = Append(observed, Unseen)
  /\ UNCHANGED <<row, members>>

StripeUpdates ==
  \E kind \in Living, quantity \in Quantities, at \in {stripe.at, stripe.at + 1} :
    /\ stripe.kind \in Living /\ <<kind, quantity>> # <<stripe.kind, stripe.quantity>>
    /\ Emit("updated", kind, quantity, stripe.period, at)

StripeRenews ==
  /\ stripe.kind \in Living
  /\ Emit("updated", stripe.kind, stripe.quantity, stripe.period + 1, stripe.at + 1)

\* Payment is tried again for an open invoice even after a deletion.
InvoiceFails ==
  \E at \in {stripe.at, stripe.at + 1} :
    Emit("invoice", "past_due", stripe.quantity, stripe.period, at)

StripeDeletes ==
  \E at \in {stripe.at, stripe.at + 1} :
    /\ stripe.kind \in Living
    /\ Emit("deleted", "cancelled", stripe.quantity, stripe.period, at)

-----------------------------------------------------------------------------
(* applyVerifiedTeamBillingObservation *)

Billable(count) == IF count < Minimum THEN Minimum ELSE count

\* Mutant: at equal times the first delivery wins.
WinsWithoutRank(e, rank) ==
  IF e.period # row.period THEN e.period > row.period ELSE e.at > row.at

WinsRatchet(e, rank) ==
  IF e.period # row.period THEN e.period > row.period
  ELSE e.at > row.at \/ (e.at = row.at /\ rank > row.rank)

Snapshot(e) ==
  [state |-> IF e.kind = "cancelling" THEN "active" ELSE e.kind, kind |-> e.kind,
   rank |-> Rank[e.kind], quantity |-> e.quantity, period |-> e.period, at |-> e.at,
   latched |-> e.type = "deleted"]

\* The first snapshot must agree with the Checkout and with the Team as it is now.
FitsCheckout(e) == e.quantity = OpQuantity /\ e.quantity = Billable(members)

ApplySubscription(e) ==
  IF row = NoRow /\ ~FitsCheckout(e) THEN <<"quarantined", row>>
  ELSE IF row # NoRow /\ (row.latched \/ (e.type # "deleted" /\ ~WinsRatchet(e, Rank[e.kind])))
  THEN <<"ignored", row>>
  ELSE <<"applied", Snapshot(e)>>

\* A failed payment is shown as such, and stands at the time it failed.
PastDue(e) ==
  [row EXCEPT !.state = "past_due", !.kind = "invoice_failed", !.rank = Rank["past_due"], !.at = e.at]

\* Mutant: a failed payment overrides a deletion.
InvoiceOverridesLatch(e) ==
  IF row = NoRow \/ <<e.quantity, e.period>> # <<row.quantity, row.period>> THEN <<"quarantined", row>>
  ELSE IF ~WinsRatchet(e, Rank["past_due"]) THEN <<"ignored", row>>
  ELSE <<"applied", PastDue(e)>>

ApplyInvoiceFailure(e) ==
  IF row = NoRow \/ <<e.quantity, e.period>> # <<row.quantity, row.period>> THEN <<"quarantined", row>>
  ELSE IF row.latched \/ ~WinsRatchet(e, Rank["past_due"]) THEN <<"ignored", row>>
  ELSE <<"applied", PastDue(e)>>

Verdict(e) == IF e.type = "invoice" THEN ApplyInvoiceFailure(e) ELSE ApplySubscription(e)

\* An observation names the Team when its metadata or the row does (inferTeamId);
\* an invoice carries no metadata of the Checkout.
NamesTeam(e) == e.type # "invoice" \/ row # NoRow

\* An event observed before is a duplicate and changes nothing.
Deliver(i) ==
  LET e == sent[i] IN
  /\ observed[i].outcome = "none"
  /\ EarlyInvoices \/ e.type # "invoice" \/ row # NoRow
  /\ observed' = [observed EXCEPT ![i] = [outcome |-> Verdict(e)[1], team |-> NamesTeam(e)]]
  /\ row' = Verdict(e)[2]
  /\ UNCHANGED <<stripe, sent, members>>

MembershipChanges ==
  /\ members' \in (1..MaxMembers) \ {members}
  /\ UNCHANGED <<stripe, sent, observed, row>>

-----------------------------------------------------------------------------
(* safeTeamBillingProjection *)

\* A Team's quarantined observation at least as current as the row.
Outranks(i) ==
  LET rank == IF sent[i].type = "invoice" THEN Rank["past_due"] ELSE Rank["cancelled"] IN
  /\ observed[i].outcome = "quarantined" /\ observed[i].team
  /\ row = NoRow \/ sent[i].at > row.at \/ (sent[i].at = row.at /\ rank >= row.rank)

Projection ==
  IF \E i \in DOMAIN sent : Outranks(i) THEN "attention_required"
  ELSE IF row = NoRow THEN "inactive"
  ELSE IF row.kind \notin Kinds \/ Rank[row.kind] # row.rank THEN "attention_required"
  ELSE row.kind

-----------------------------------------------------------------------------
Init ==
  /\ stripe = [kind |-> "active", quantity |-> OpQuantity, period |-> 1, at |-> 1]
  /\ sent = << [type |-> "created", kind |-> "active", quantity |-> OpQuantity, period |-> 1, at |-> 1] >>
  /\ observed = <<Unseen>>
  /\ row = NoRow
  /\ members = OpQuantity

Next ==
  \/ StripeUpdates \/ StripeRenews \/ InvoiceFails \/ StripeDeletes
  \/ \E i \in DOMAIN sent : Deliver(i)
  \/ MembershipChanges

Spec == Init /\ [][Next]_vars

-----------------------------------------------------------------------------
TypeOK ==
  /\ stripe \in [kind : Kinds, quantity : Quantities, period : Nat, at : Nat]
  /\ sent \in Seq(Events)
  /\ observed \in Seq(Observations) /\ Len(observed) = Len(sent)
  /\ row \in Rows \union {NoRow}
  /\ (row # NoRow /\ row.kind \in Kinds) =>
       /\ Rank[row.kind] = row.rank
       /\ row.latched <=> row.kind = "cancelled"
  /\ members \in 1..MaxMembers

Accepted == {i \in DOMAIN sent : observed[i].outcome \in {"applied", "ignored"}}

\* One event is at most as current as another: by period, then time, then rank.
NoNewer(e, f) ==
  \/ e.period < f.period
  \/ e.period = f.period /\ (e.at < f.at \/ (e.at = f.at /\ Rank[e.kind] <= Rank[f.kind]))

\* Whatever the order of delivery, the row stands where the most current event that was
\* not quarantined put it, at its period, time and rank; and once a deletion was among
\* them, at the deletion (applySubscription, applyInvoiceFailure, winsRatchet).
RowIsNewestAccepted ==
  /\ row = NoRow <=> Accepted = {}
  /\ row # NoRow =>
       /\ row.latched <=> \E i \in Accepted : sent[i].type = "deleted"
       /\ \E i \in Accepted :
            /\ <<row.period, row.at, row.rank>> = <<sent[i].period, sent[i].at, Rank[sent[i].kind]>>
            /\ IF row.latched THEN sent[i].type = "deleted"
               ELSE \A j \in Accepted : NoNewer(sent[j], sent[i])

\* Once every event was delivered, a Team is not shown a healthy Subscription while
\* Stripe's is past due or gone, however deliveries crossed and whichever of them were
\* quarantined: evidence that could not be applied shows as attention instead.
NeverOverstated ==
  (Unseen \notin {observed[i] : i \in DOMAIN observed} /\ stripe.kind \in {"past_due", "cancelled"})
    => Projection \notin {"active", "cancelling"}

\* A deleted Subscription stays deleted, and only a deletion takes the row back in time.
Advances ==
  row # NoRow =>
    IF row.latched THEN row' = row
    ELSE \/ row'.latched
         \/ row.period < row'.period
         \/ row.period = row'.period /\ row.at < row'.at
         \/ row.period = row'.period /\ row.at = row'.at /\ row.rank <= row'.rank

NeverBackwards == [][Advances]_vars
=============================================================================
