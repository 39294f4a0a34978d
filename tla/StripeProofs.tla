----------------------------- MODULE StripeProofs ----------------------------
(***************************************************************************)
(* Proofs about what MCStripe checks: TeamBillingEvents, for any product   *)
(* and Team size, any number of events and any order of their deliveries;  *)
(* and StripePayloadRetention, for any runtimes, Jobs, batch size and      *)
(* intervals, and any number of repairs, faults and restarts.              *)
(***************************************************************************)
EXTENDS MCStripe, SequenceTheorems, FiniteSetTheorems, WellFoundedInduction, TLAPS

-----------------------------------------------------------------------------
(* Stripe's events: the inductive invariant                                *)

\* What Stripe writes: an event's kind follows from its type, periods and times never fall,
\* and the last event shows the Subscription as it is, until it is deleted.
EventsAreOrdered ==
  /\ Len(sent) > 0
  /\ \A i \in DOMAIN sent :
       /\ sent[i].type = "deleted" <=> sent[i].kind = "cancelled"
       /\ sent[i].type = "invoice" => sent[i].kind = "past_due"
       /\ sent[i].period <= stripe.period /\ sent[i].at <= stripe.at
  /\ sent[Len(sent)].period = stripe.period /\ sent[Len(sent)].at = stripe.at
  /\ stripe.kind # "cancelled" => sent[Len(sent)].kind = stripe.kind
  /\ stripe.kind = "cancelled" <=> \E d \in DOMAIN sent : sent[d].type = "deleted"

\* After a deletion Stripe writes of failed payments only.
DeletionIsLast ==
  \A d, i \in DOMAIN sent : sent[d].type = "deleted" =>
    sent[i].type = "invoice" \/ sent[i].at <= sent[d].at

\* A row that no failed payment wrote is as old as some snapshot.
RowHasASnapshot ==
  row # NoRow /\ row.kind # "invoice_failed" =>
    \E i \in DOMAIN sent : sent[i].type # "invoice" /\ sent[i].at = row.at

Invariant ==
  /\ TypeOK /\ EventsAreOrdered /\ DeletionIsLast
  /\ RowIsNewestAccepted /\ RowHasASnapshot

\* Where no failed payment overtakes the first snapshot, every observation names its Team.
TeamsAreNamed ==
  \A i \in DOMAIN sent : observed[i].team <=> observed[i].outcome # "none"

-----------------------------------------------------------------------------
(* The constants of the ratchet                                            *)

LEMMA RankOf ==
  /\ Kinds = {"active", "cancelling", "past_due", "cancelled"}
  /\ Rank["active"] = 20 /\ Rank["cancelling"] = 30
  /\ Rank["past_due"] = 40 /\ Rank["cancelled"] = 50
  /\ \A k \in Kinds : Rank[k] \in {20, 30, 40, 50} /\ (k # "cancelled" => Rank[k] <= 40)
  /\ \A k \in Kinds : Rank[k] = 40 => k = "past_due"
BY DEF Kinds, Rank

LEMMA InvariantOf ==
  ASSUME Invariant
  PROVE  /\ sent \in Seq(Events) /\ Len(observed) = Len(sent) /\ DOMAIN sent = 1..Len(sent)
         /\ observed \in Seq(Observations) /\ DOMAIN observed = DOMAIN sent
         /\ \A i \in DOMAIN sent : /\ sent[i] \in Events
                                   /\ observed[i] \in Observations
         /\ Len(sent) \in Nat /\ Len(sent) > 0 /\ Len(sent) \in DOMAIN sent
         /\ stripe \in [kind : Kinds, quantity : Quantities, period : Nat, at : Nat]
         /\ row \in Rows \/ row = NoRow
<1>1. TypeOK /\ Len(sent) > 0
  BY DEF Invariant, EventsAreOrdered
<1>2. /\ sent \in Seq(Events) /\ Len(observed) = Len(sent)
      /\ observed \in Seq(Observations)
  BY <1>1 DEF TypeOK
<1>3. Len(sent) \in Nat /\ DOMAIN sent = 1..Len(sent) /\ DOMAIN observed = DOMAIN sent
  BY <1>2
<1>4. \A i \in DOMAIN sent : sent[i] \in Events /\ observed[i] \in Observations
  <2>1. \A i \in 1..Len(sent) : sent[i] \in Events
    BY <1>2
  <2>2. \A i \in 1..Len(observed) : observed[i] \in Observations
    BY <1>2
  <2> QED BY <1>2, <1>3, <2>1, <2>2
<1>5. Len(sent) \in DOMAIN sent
  BY <1>1, <1>3
<1> QED BY <1>1, <1>2, <1>3, <1>4, <1>5 DEF TypeOK

\* How the two appends of an event look from inside.
LEMMA Appended ==
  ASSUME Invariant, NEW e \in Events, sent' = Append(sent, e), observed' = Append(observed, Unseen)
  PROVE  /\ sent' \in Seq(Events) /\ observed' \in Seq(Observations)
         /\ Len(sent') = Len(sent) + 1 /\ Len(observed') = Len(sent')
         /\ DOMAIN sent' = DOMAIN sent \cup {Len(sent) + 1}
         /\ Len(sent) + 1 \notin DOMAIN sent
         /\ sent'[Len(sent) + 1] = e /\ observed'[Len(sent) + 1] = Unseen
         /\ \A i \in DOMAIN sent : sent'[i] = sent[i] /\ observed'[i] = observed[i]
<1>1. Unseen \in Observations
  BY DEF Unseen, Observations, Outcomes
<1> QED BY <1>1, InvariantOf

-----------------------------------------------------------------------------
(* Stripe's steps                                                          *)

\* What an event that Stripe writes adds to what it wrote before.
Fits(e, kind) ==
  /\ e \in Events
  /\ e.type = "deleted" <=> e.kind = "cancelled"
  /\ e.type = "invoice" => e.kind = "past_due"
  /\ e.period >= stripe.period /\ e.at >= stripe.at
  /\ stripe.kind = "cancelled" => e.type = "invoice"
  /\ stripe.kind # "cancelled" => e.kind = kind

LEMMA EmitKeeps ==
  ASSUME Invariant, NEW type, NEW kind \in Kinds, NEW quantity, NEW period, NEW at,
         Emit(type, kind, quantity, period, at),
         Fits([type |-> type, kind |-> kind, quantity |-> quantity, period |-> period, at |-> at], kind)
  PROVE  Invariant'
<1> DEFINE e == [type |-> type, kind |-> kind, quantity |-> quantity, period |-> period, at |-> at]
           n == Len(sent) + 1
<1>1. /\ sent' = Append(sent, e) /\ observed' = Append(observed, Unseen)
      /\ stripe'.kind = IF stripe.kind = "cancelled" THEN "cancelled" ELSE kind
      /\ stripe'.period = e.period /\ stripe'.at = e.at
      /\ UNCHANGED <<row, members>>
  BY DEF Emit
<1>2. e.kind = kind /\ Fits(e, kind)
  OBVIOUS
<1>3. stripe' \in [kind : Kinds, quantity : Quantities, period : Nat, at : Nat]
  <2>1. quantity \in Quantities /\ period \in Nat /\ at \in Nat
    BY DEF Fits, Events
  <2> QED BY <2>1, RankOf DEF Emit
<1> HIDE DEF e
<1>4. e \in Events
  BY <1>2 DEF Fits
<1>5. /\ sent' \in Seq(Events) /\ observed' \in Seq(Observations)
      /\ Len(sent') = n /\ Len(observed') = Len(sent')
      /\ DOMAIN sent' = DOMAIN sent \cup {n} /\ n \notin DOMAIN sent
      /\ sent'[n] = e /\ observed'[n] = Unseen
      /\ \A i \in DOMAIN sent : sent'[i] = sent[i] /\ observed'[i] = observed[i]
  BY <1>1, <1>4, Appended
<1> HIDE DEF n
<1>6. TypeOK'
  BY <1>1, <1>3, <1>5 DEF Invariant, TypeOK
<1>7. EventsAreOrdered'
  <2>1. EventsAreOrdered
    BY DEF Invariant
  <2>2. /\ e.period \in Nat /\ e.at \in Nat /\ stripe.period \in Nat /\ stripe.at \in Nat
        /\ \A i \in DOMAIN sent : sent[i].period \in Nat /\ sent[i].at \in Nat
    BY <1>4, InvariantOf DEF Events
  <2>3. \A i \in DOMAIN sent : sent[i].period <= e.period /\ sent[i].at <= e.at
    BY <1>2, <2>1, <2>2 DEF Fits, EventsAreOrdered
  <2>4. stripe'.kind = "cancelled" <=> \E d \in DOMAIN sent' : sent'[d].type = "deleted"
    BY <1>1, <1>2, <1>5, <2>1 DEF Fits, EventsAreOrdered
  <2>5. Len(sent') > 0
    BY <1>5, InvariantOf DEF n
  <2>6. stripe'.kind # "cancelled" => e.kind = stripe'.kind
    BY <1>1, <1>2
  <2>7. \A i \in DOMAIN sent' :
          /\ sent'[i].type = "deleted" <=> sent'[i].kind = "cancelled"
          /\ sent'[i].type = "invoice" => sent'[i].kind = "past_due"
          /\ sent'[i].period <= stripe'.period /\ sent'[i].at <= stripe'.at
    BY <1>1, <1>2, <1>5, <2>1, <2>2, <2>3 DEF Fits, EventsAreOrdered
  <2> QED BY <1>1, <1>5, <2>4, <2>5, <2>6, <2>7 DEF EventsAreOrdered
<1>8. DeletionIsLast'
  <2>1. \A d \in DOMAIN sent : sent[d].type = "deleted" => e.type = "invoice"
    BY <1>2 DEF Fits, Invariant, EventsAreOrdered
  <2>2. \A i \in DOMAIN sent : sent[i].at <= e.at
    BY <1>2, <1>4, InvariantOf DEF Fits, Events, Invariant, EventsAreOrdered
  <2>3. e.at <= e.at
    BY <1>4 DEF Events
  <2> QED BY <1>5, <2>1, <2>2, <2>3 DEF Invariant, DeletionIsLast
<1>9. Accepted' = Accepted
  BY <1>5 DEF Accepted, Unseen
<1>10. RowIsNewestAccepted'
  <2>1. \A i \in Accepted : sent'[i] = sent[i]
    BY <1>5 DEF Accepted
  <2>2. RowIsNewestAccepted
    BY DEF Invariant
  <2>3. row' = NoRow <=> Accepted' = {}
    BY <1>1, <1>9, <2>2 DEF RowIsNewestAccepted
  <2>4. row # NoRow => (row.latched <=> \E i \in Accepted' : sent'[i].type = "deleted")
    BY <1>9, <2>1, <2>2 DEF RowIsNewestAccepted
  <2>5. ASSUME row # NoRow
        PROVE  \E i \in Accepted' :
                 /\ <<row.period, row.at, row.rank>>
                      = <<sent'[i].period, sent'[i].at, Rank[sent'[i].kind]>>
                 /\ IF row.latched THEN sent'[i].type = "deleted"
                    ELSE \A j \in Accepted' : NoNewer(sent'[j], sent'[i])
    <3>1. PICK i \in Accepted :
            /\ <<row.period, row.at, row.rank>> = <<sent[i].period, sent[i].at, Rank[sent[i].kind]>>
            /\ IF row.latched THEN sent[i].type = "deleted"
               ELSE \A j \in Accepted : NoNewer(sent[j], sent[i])
      BY <2>2, <2>5 DEF RowIsNewestAccepted
    <3> QED BY <1>9, <2>1, <3>1
  <2> QED BY <1>1, <2>3, <2>4, <2>5 DEF RowIsNewestAccepted
<1>11. RowHasASnapshot'
  BY <1>1, <1>5 DEF Invariant, RowHasASnapshot
<1> QED BY <1>6, <1>7, <1>8, <1>10, <1>11 DEF Invariant

LEMMA StripeStepsKeep ==
  ASSUME Invariant, StripeUpdates \/ StripeRenews \/ InvoiceFails \/ StripeDeletes
  PROVE  Invariant'
<1>0. /\ stripe.kind \in Kinds /\ stripe.quantity \in Quantities
      /\ stripe.period \in Nat /\ stripe.at \in Nat
  BY InvariantOf
<1>1. ASSUME NEW kind \in Living, NEW quantity \in Quantities, NEW at \in {stripe.at, stripe.at + 1},
             stripe.kind \in Living, Emit("updated", kind, quantity, stripe.period, at)
      PROVE  Invariant'
  <2>1. kind \in Kinds /\ kind # "cancelled" /\ stripe.kind # "cancelled" /\ at \in Nat /\ at >= stripe.at
    BY <1>0, <1>1 DEF Living
  <2> QED BY <1>0, <1>1, <2>1, EmitKeeps DEF Fits, Events
<1>2. CASE StripeRenews
  <2>1. stripe.kind # "cancelled"
    BY <1>2 DEF StripeRenews, Living
  <2> QED BY <1>0, <1>2, <2>1, EmitKeeps DEF StripeRenews, Fits, Events
<1>3. ASSUME NEW at \in {stripe.at, stripe.at + 1},
             Emit("invoice", "past_due", stripe.quantity, stripe.period, at)
      PROVE  Invariant'
  <2>1. at \in Nat /\ at >= stripe.at /\ "past_due" \in Kinds
    BY <1>0, <1>3, RankOf
  <2> QED BY <1>0, <1>3, <2>1, EmitKeeps DEF Fits, Events
<1>4. ASSUME NEW at \in {stripe.at, stripe.at + 1}, stripe.kind \in Living,
             Emit("deleted", "cancelled", stripe.quantity, stripe.period, at)
      PROVE  Invariant'
  <2>1. at \in Nat /\ at >= stripe.at /\ "cancelled" \in Kinds /\ stripe.kind # "cancelled"
    BY <1>0, <1>4, RankOf DEF Living
  <2> QED BY <1>0, <1>4, <2>1, EmitKeeps DEF Fits, Events
<1> QED BY <1>1, <1>2, <1>3, <1>4 DEF StripeUpdates, InvoiceFails, StripeDeletes

-----------------------------------------------------------------------------
(* Deliveries                                                              *)

\* The four things that applying an event can come to.
Applies(e, outcome, new) ==
  \/ outcome = "quarantined" /\ new = row
  \/ /\ outcome = "ignored" /\ new = row /\ row # NoRow
     /\ row.latched \/ (e.type # "deleted" /\ ~WinsRatchet(e, Rank[e.kind]))
  \/ /\ outcome = "applied" /\ e.type # "invoice" /\ new = Snapshot(e)
     /\ row # NoRow => ~row.latched /\ (e.type = "deleted" \/ WinsRatchet(e, Rank[e.kind]))
  \/ /\ outcome = "applied" /\ e.type = "invoice" /\ row # NoRow /\ ~row.latched
     /\ WinsRatchet(e, Rank[e.kind]) /\ e.period = row.period
     /\ new = PastDue(e)

LEMMA VerdictApplies ==
  ASSUME row \in Rows \/ row = NoRow, NEW e \in Events, e.type = "invoice" => e.kind = "past_due"
  PROVE  Applies(e, Verdict(e)[1], Verdict(e)[2])
<1>1. CASE e.type = "invoice"
  <2>1. Verdict(e) = ApplyInvoiceFailure(e) /\ e.type # "deleted"
    BY <1>1 DEF Verdict
  <2>2. CASE row = NoRow \/ <<e.quantity, e.period>> # <<row.quantity, row.period>>
    <3>1. Verdict(e) = <<"quarantined", row>>
      BY <2>1, <2>2 DEF ApplyInvoiceFailure
    <3> QED BY <3>1 DEF Applies
  <2>3. CASE /\ row # NoRow /\ <<e.quantity, e.period>> = <<row.quantity, row.period>>
             /\ row.latched \/ ~WinsRatchet(e, Rank["past_due"])
    BY <1>1, <2>1, <2>3 DEF ApplyInvoiceFailure, Applies
  <2>4. CASE /\ row # NoRow /\ <<e.quantity, e.period>> = <<row.quantity, row.period>>
             /\ ~row.latched /\ WinsRatchet(e, Rank["past_due"])
    <3>1. e.period = row.period /\ e.kind = "past_due"
      BY <1>1, <2>4
    <3>2. Verdict(e) = <<"applied", PastDue(e)>>
      BY <2>1, <2>4 DEF ApplyInvoiceFailure
    <3> QED BY <1>1, <2>4, <3>1, <3>2 DEF Applies
  <2> QED BY <2>2, <2>3, <2>4
<1>2. CASE e.type # "invoice"
  <2>1. Verdict(e) = ApplySubscription(e)
    BY <1>2 DEF Verdict
  <2>2. CASE row = NoRow
    BY <1>2, <2>1, <2>2 DEF ApplySubscription, Applies
  <2>3. CASE row # NoRow /\ (row.latched \/ (e.type # "deleted" /\ ~WinsRatchet(e, Rank[e.kind])))
    BY <2>1, <2>3 DEF ApplySubscription, Applies
  <2>4. CASE row # NoRow /\ ~row.latched /\ (e.type = "deleted" \/ WinsRatchet(e, Rank[e.kind]))
    BY <1>2, <2>1, <2>4 DEF ApplySubscription, Applies
  <2> QED BY <2>2, <2>3, <2>4
<1> QED BY <1>1, <1>2

LEMMA SnapshotIsRow ==
  ASSUME NEW e \in Events, e.type = "deleted" <=> e.kind = "cancelled"
  PROVE  /\ Snapshot(e) \in Rows
         /\ Snapshot(e).kind = e.kind /\ Snapshot(e).rank = Rank[e.kind]
         /\ Snapshot(e).period = e.period /\ Snapshot(e).at = e.at
         /\ Snapshot(e).latched <=> e.type = "deleted"
<1>1. e.kind \in Kinds /\ Rank[e.kind] \in {20, 30, 40, 50}
      /\ (IF e.kind = "cancelling" THEN "active" ELSE e.kind) \in {"active", "past_due", "cancelled"}
  BY RankOf DEF Events
<1> QED BY <1>1 DEF Snapshot, Rows, Events

LEMMA PastDueIsRow ==
  ASSUME row \in Rows, NEW e \in Events
  PROVE  /\ PastDue(e) \in Rows
         /\ PastDue(e).kind = "invoice_failed" /\ PastDue(e).rank = Rank["past_due"]
         /\ PastDue(e).period = row.period /\ PastDue(e).at = e.at
         /\ PastDue(e).latched = row.latched
<1>1. Rank["past_due"] \in {20, 30, 40, 50} /\ e.at \in Nat
  BY RankOf DEF Events
<1> QED BY <1>1 DEF PastDue, Rows

\* Where the row stands: at its period, time and rank.
Stands(e) == row.period = e.period /\ row.at = e.at /\ row.rank = Rank[e.kind]

\* An event that loses the ratchet is no newer than the one the row stands at, and one that
\* wins it is newer than whatever was no newer than that.
LEMMA RatchetOrders ==
  ASSUME NEW e \in Events, NEW f \in Events, row \in Rows, Stands(f)
  PROVE  /\ ~WinsRatchet(e, Rank[e.kind]) => NoNewer(e, f)
         /\ WinsRatchet(e, Rank[e.kind]) =>
              \A g \in Events : NoNewer(g, f) => NoNewer(g, e)
<1>1. \A g \in Events : g.period \in Nat /\ g.at \in Nat /\ Rank[g.kind] \in Nat
  BY RankOf DEF Events
<1> QED BY <1>1 DEF WinsRatchet, NoNewer, Stands

\* What a delivery makes of the row, and of the events that were accepted before.
LEMMA DeliverMoves ==
  ASSUME Invariant, NEW i \in DOMAIN sent, Deliver(i)
  PROVE  /\ UNCHANGED <<stripe, sent, members>> /\ sent[i] \in Events
         /\ observed' \in Seq(Observations) /\ Len(observed') = Len(sent)
         /\ Applies(sent[i], observed'[i].outcome, row')
         /\ observed'[i].team = NamesTeam(sent[i])
         /\ observed'[i].outcome \in {"applied", "ignored", "quarantined"}
         /\ \A j \in DOMAIN sent : j # i => observed'[j] = observed[j]
         /\ i \notin Accepted
         /\ Accepted' = IF observed'[i].outcome = "quarantined" THEN Accepted ELSE Accepted \cup {i}
<1> DEFINE e == sent[i]
           o == [outcome |-> Verdict(e)[1], team |-> NamesTeam(e)]
<1>1. e \in Events /\ i \in DOMAIN observed /\ (e.type = "invoice" => e.kind = "past_due")
  BY InvariantOf DEF Invariant, EventsAreOrdered
<1>2. Applies(e, Verdict(e)[1], Verdict(e)[2])
  BY <1>1, InvariantOf, VerdictApplies
<1>3. Verdict(e)[1] \in {"applied", "ignored", "quarantined"}
  BY <1>2 DEF Applies
<1>4. o \in Observations /\ o.outcome = Verdict(e)[1] /\ o.team = NamesTeam(e)
  BY <1>3 DEF Observations, Outcomes, NamesTeam
<1>5. observed' = [observed EXCEPT ![i] = o] /\ row' = Verdict(e)[2]
      /\ UNCHANGED <<stripe, sent, members>> /\ observed[i].outcome = "none"
  BY DEF Deliver
<1> HIDE DEF o
<1>6. /\ observed' \in Seq(Observations) /\ Len(observed') = Len(sent)
      /\ observed'[i] = o /\ \A j \in DOMAIN sent : j # i => observed'[j] = observed[j]
  BY <1>1, <1>4, <1>5, InvariantOf
<1>7. Accepted' = IF o.outcome = "quarantined" THEN Accepted ELSE Accepted \cup {i}
  BY <1>3, <1>4, <1>5, <1>6 DEF Accepted
<1>8. i \notin Accepted
  BY <1>5 DEF Accepted
<1> QED BY <1>1, <1>2, <1>3, <1>4, <1>5, <1>6, <1>7, <1>8

LEMMA DeliverKeeps ==
  ASSUME Invariant, NEW i \in DOMAIN sent, Deliver(i)
  PROVE  Invariant' /\ Advances
<1> DEFINE e == sent[i]
           o == observed'[i].outcome
<1>1. /\ UNCHANGED <<stripe, sent, members>> /\ e \in Events
      /\ observed' \in Seq(Observations) /\ Len(observed') = Len(sent)
      /\ Applies(e, o, row')
      /\ o \in {"applied", "ignored", "quarantined"}
      /\ i \notin Accepted
      /\ Accepted' = IF o = "quarantined" THEN Accepted ELSE Accepted \cup {i}
  BY DeliverMoves
<1>2. /\ e.type = "deleted" <=> e.kind = "cancelled"
      /\ e.type = "invoice" => e.kind = "past_due"
  BY DEF Invariant, EventsAreOrdered
<1>3. EventsAreOrdered' /\ DeletionIsLast'
  BY <1>1 DEF Invariant, EventsAreOrdered, DeletionIsLast
<1>4. /\ Accepted \subseteq DOMAIN sent /\ \A j \in Accepted : sent[j] \in Events
      /\ \A f \in Events : NoNewer(f, f)
      /\ NoRow \notin Rows
  <2>1. Accepted \subseteq DOMAIN sent /\ \A j \in Accepted : sent[j] \in Events
    BY InvariantOf DEF Accepted
  <2>2. \A f \in Events : NoNewer(f, f)
    BY RankOf DEF NoNewer, Events
  <2>3. NoRow \notin Rows
    BY InvariantOf, TeamBillingEventsAssumption
  <2> QED BY <2>1, <2>2, <2>3
<1>5. RowIsNewestAccepted /\ (row \in Rows \/ row = NoRow)
  BY InvariantOf DEF Invariant
<1> HIDE DEF o
<1>6. CASE o = "quarantined"
  <2>1. row' = row /\ Accepted' = Accepted
    BY <1>1, <1>6 DEF Applies
  <2>2. TypeOK'
    BY <1>1, <2>1 DEF Invariant, TypeOK
  <2>3. RowIsNewestAccepted' /\ RowHasASnapshot'
    BY <1>1, <2>1 DEF Invariant, RowIsNewestAccepted, RowHasASnapshot, NoNewer
  <2>4. Advances
    BY <1>5, <2>1, RankOf DEF Advances, Rows
  <2> QED BY <1>3, <2>2, <2>3, <2>4 DEF Invariant
<1>7. CASE o = "ignored"
  <2>1. /\ row' = row /\ row # NoRow /\ Accepted' = Accepted \cup {i}
        /\ row.latched \/ (e.type # "deleted" /\ ~WinsRatchet(e, Rank[e.kind]))
    BY <1>1, <1>7 DEF Applies
  <2>2. TypeOK'
    BY <1>1, <2>1 DEF Invariant, TypeOK
  <2>3. PICK k \in Accepted :
          /\ Stands(sent[k])
          /\ IF row.latched THEN sent[k].type = "deleted"
             ELSE \A j \in Accepted : NoNewer(sent[j], sent[k])
    BY <1>5, <2>1 DEF RowIsNewestAccepted, Stands
  <2>4. ~row.latched => NoNewer(e, sent[k])
    BY <1>1, <1>4, <1>5, <2>1, <2>3, RatchetOrders
  <2>5. row.latched <=> \E j \in Accepted' : sent[j].type = "deleted"
    BY <1>5, <2>1, <2>3 DEF RowIsNewestAccepted
  <2>6. /\ <<row.period, row.at, row.rank>> = <<sent[k].period, sent[k].at, Rank[sent[k].kind]>>
        /\ IF row.latched THEN sent[k].type = "deleted"
           ELSE \A j \in Accepted' : NoNewer(sent[j], sent[k])
    BY <2>1, <2>3, <2>4 DEF Stands
  <2>7. RowIsNewestAccepted'
    BY <1>1, <2>1, <2>5, <2>6 DEF RowIsNewestAccepted, NoNewer
  <2>8. RowHasASnapshot' /\ Advances
    BY <1>1, <1>5, <2>1 DEF Invariant, RowHasASnapshot, Advances, Rows
  <2> QED BY <1>3, <2>2, <2>7, <2>8 DEF Invariant
<1>8. CASE o = "applied"
  <2>0. Accepted' = Accepted \cup {i}
    BY <1>1, <1>8
  <2>1. /\ row' \in Rows /\ row' # NoRow
        /\ row'.period = e.period /\ row'.at = e.at /\ row'.rank = Rank[e.kind]
        /\ row'.latched <=> e.type = "deleted"
        /\ \/ row'.kind = e.kind /\ e.type # "invoice"
           \/ row'.kind = "invoice_failed" /\ e.type = "invoice"
    <3>1. CASE e.type # "invoice"
      <4>1. row' = Snapshot(e)
        BY <1>1, <1>8, <3>1 DEF Applies
      <4> QED BY <1>1, <1>2, <1>4, <3>1, <4>1, SnapshotIsRow
    <3>2. CASE e.type = "invoice"
      <4>1. row' = PastDue(e) /\ row # NoRow /\ ~row.latched /\ e.period = row.period
        BY <1>1, <1>8, <3>2 DEF Applies
      <4> QED BY <1>1, <1>2, <1>4, <1>5, <3>2, <4>1, PastDueIsRow
    <3> QED BY <3>1, <3>2
  <2>2. row # NoRow => ~row.latched /\ (e.type = "deleted" \/ WinsRatchet(e, Rank[e.kind]))
    BY <1>1, <1>8 DEF Applies
  <2>3. TypeOK'
    <3>1. row'.kind \in Kinds => Rank[row'.kind] = row'.rank /\ (row'.latched <=> row'.kind = "cancelled")
      BY <1>2, <2>1, RankOf
    <3> QED BY <1>1, <2>1, <3>1 DEF Invariant, TypeOK
  <2>4. \A j \in Accepted : sent[j].type # "deleted"
    BY <1>5, <2>2 DEF RowIsNewestAccepted
  <2>5. row'.latched <=> \E j \in Accepted' : sent[j].type = "deleted"
    BY <2>0, <2>1, <2>4
  <2>6. ~row'.latched => \A j \in Accepted : NoNewer(sent[j], e)
    <3>1. CASE row = NoRow
      BY <1>5, <3>1 DEF RowIsNewestAccepted
    <3>2. CASE row # NoRow
      <4>1. PICK k \in Accepted : Stands(sent[k]) /\ \A j \in Accepted : NoNewer(sent[j], sent[k])
        BY <1>5, <2>2, <3>2 DEF RowIsNewestAccepted, Stands
      <4> QED BY <1>1, <1>4, <1>5, <2>1, <2>2, <3>2, <4>1, RatchetOrders
    <3> QED BY <3>1, <3>2
  <2>7. /\ i \in Accepted'
        /\ <<row'.period, row'.at, row'.rank>> = <<e.period, e.at, Rank[e.kind]>>
        /\ IF row'.latched THEN e.type = "deleted" ELSE \A j \in Accepted' : NoNewer(sent[j], e)
    BY <1>1, <1>4, <2>0, <2>1, <2>6
  <2>8. RowIsNewestAccepted'
    BY <1>1, <2>1, <2>5, <2>7 DEF RowIsNewestAccepted, NoNewer
  <2>9. RowHasASnapshot'
    BY <1>1, <2>1 DEF RowHasASnapshot
  <2>10. Advances
    <3>1. row # NoRow => row.period \in Nat /\ row.at \in Nat /\ row.rank \in Nat /\ row \in Rows
      BY <1>5 DEF Rows
    <3>2. e.period \in Nat /\ e.at \in Nat /\ Rank[e.kind] \in Nat
      BY <1>1, RankOf DEF Events
    <3> QED BY <2>1, <2>2, <3>1, <3>2 DEF Advances, WinsRatchet
  <2> QED BY <1>3, <2>3, <2>8, <2>9, <2>10 DEF Invariant
<1> QED BY <1>1, <1>6, <1>7, <1>8

-----------------------------------------------------------------------------
(* The theorems                                                            *)

LEMMA InitIsSound ==
  ASSUME Init
  PROVE  Invariant
<1> DEFINE e == [type |-> "created", kind |-> "active", quantity |-> OpQuantity, period |-> 1, at |-> 1]
<1>1. e \in Events /\ Unseen \in Observations /\ OpQuantity \in Quantities /\ OpQuantity \in 1..MaxMembers
  BY TeamBillingEventsAssumption, RankOf DEF Events, Quantities, Unseen, Observations, Outcomes
<1>2. /\ sent = <<e>> /\ observed = <<Unseen>> /\ row = NoRow /\ members = OpQuantity
      /\ stripe = [kind |-> "active", quantity |-> OpQuantity, period |-> 1, at |-> 1]
  BY DEF Init
<1> HIDE DEF e
<1>3. /\ sent \in Seq(Events) /\ observed \in Seq(Observations) /\ Len(observed) = Len(sent)
      /\ DOMAIN sent = {1} /\ Len(sent) = 1 /\ sent[1] = e /\ observed[1] = Unseen
  BY <1>1, <1>2
<1>4. TypeOK
  BY <1>1, <1>2, <1>3, RankOf DEF TypeOK
<1>5. EventsAreOrdered
  BY <1>2, <1>3 DEF EventsAreOrdered, e
<1>6. Accepted = {} /\ row = NoRow
  BY <1>2, <1>3 DEF Accepted, Unseen
<1>7. DeletionIsLast
  BY <1>3 DEF DeletionIsLast, e
<1> QED BY <1>4, <1>5, <1>6, <1>7 DEF Invariant, RowIsNewestAccepted, RowHasASnapshot

LEMMA NextKeeps ==
  ASSUME Invariant, [Next]_vars
  PROVE  Invariant'
<1>1. CASE MembershipChanges \/ UNCHANGED vars
  <2>1. UNCHANGED <<stripe, sent, observed, row>>
    BY <1>1 DEF MembershipChanges, vars
  <2>2. members' \in 1..MaxMembers
    BY <1>1 DEF MembershipChanges, vars, Invariant, TypeOK
  <2>3. Accepted' = Accepted
    BY <2>1 DEF Accepted
  <2> QED BY <2>1, <2>2, <2>3 DEF Invariant, TypeOK, EventsAreOrdered, DeletionIsLast, RowIsNewestAccepted,
             RowHasASnapshot, NoNewer
<1> QED BY <1>1, StripeStepsKeep, DeliverKeeps DEF Next

LEMMA NextAdvances ==
  ASSUME Invariant, [Next]_vars
  PROVE  Advances
<1>1. CASE row' = row
  BY <1>1, InvariantOf DEF Advances, Rows
<1>2. StripeUpdates \/ StripeRenews \/ InvoiceFails \/ StripeDeletes \/ MembershipChanges \/ UNCHANGED vars
        => row' = row
  BY DEF StripeUpdates, StripeRenews, InvoiceFails, StripeDeletes, Emit, MembershipChanges, vars
<1> QED BY <1>1, <1>2, DeliverKeeps DEF Next

LEMMA SpecIsSound == Spec => []Invariant
<1> QED BY InitIsSound, NextKeeps, PTL DEF Spec

\* In whatever order the events arrive, and whichever are quarantined, the row stands where
\* the most current of the others put it, and at the deletion once there was one.
THEOREM RowConverges == Spec => []RowIsNewestAccepted
<1>1. Invariant => RowIsNewestAccepted
  BY DEF Invariant
<1> QED BY <1>1, SpecIsSound, PTL

\* No delivery takes the row back to an older period, time or rank, but for a deletion, and
\* none takes a deletion back.
THEOREM RowNeverGoesBack == Spec => NeverBackwards
<1>1. Invariant /\ [Next]_vars => [Advances]_vars
  BY NextAdvances
<1> QED BY <1>1, SpecIsSound, PTL DEF Spec, NeverBackwards

-----------------------------------------------------------------------------
(* What a client is shown                                                  *)

LEMMA NamesStay ==
  ASSUME ~EarlyInvoices, Invariant, TeamsAreNamed, [Next]_vars
  PROVE  TeamsAreNamed'
<1>1. CASE StripeUpdates \/ StripeRenews \/ InvoiceFails \/ StripeDeletes
  <2>1. PICK e : sent' = Append(sent, e) /\ observed' = Append(observed, Unseen)
    BY <1>1 DEF StripeUpdates, StripeRenews, InvoiceFails, StripeDeletes, Emit
  <2>2. /\ DOMAIN sent' = DOMAIN sent \cup {Len(sent) + 1}
        /\ observed'[Len(sent) + 1] = Unseen
        /\ \A i \in DOMAIN sent : observed'[i] = observed[i]
    <3>1. Len(observed) = Len(sent) /\ Unseen \in Observations
      BY InvariantOf DEF Unseen, Observations, Outcomes
    <3>2. DOMAIN sent' = 1..(Len(sent) + 1)
      BY <2>1, InvariantOf
    <3> QED BY <2>1, <3>1, <3>2, InvariantOf
  <2> QED BY <2>2 DEF TeamsAreNamed, Unseen
<1>2. ASSUME NEW i \in DOMAIN sent, Deliver(i) PROVE TeamsAreNamed'
  <2>1. NamesTeam(sent[i])
    BY <1>2 DEF Deliver, NamesTeam
  <2> QED BY <1>2, <2>1, DeliverMoves DEF TeamsAreNamed
<1>3. CASE MembershipChanges \/ UNCHANGED vars
  BY <1>3 DEF MembershipChanges, vars, TeamsAreNamed
<1> QED BY <1>1, <1>2, <1>3 DEF Next

LEMMA ShownTruly ==
  ASSUME Invariant, TeamsAreNamed
  PROVE  NeverOverstated
<1> SUFFICES ASSUME Unseen \notin {observed[i] : i \in DOMAIN observed},
                    stripe.kind \in {"past_due", "cancelled"}
             PROVE  Projection \notin {"active", "cancelling"}
  BY DEF NeverOverstated
<1>0. /\ EventsAreOrdered /\ DeletionIsLast /\ RowIsNewestAccepted /\ RowHasASnapshot
      /\ \A i \in DOMAIN sent : sent[i].period \in Nat /\ sent[i].at \in Nat /\ sent[i].kind \in Kinds
      /\ Accepted \subseteq DOMAIN sent
  BY InvariantOf DEF Invariant, Events, Accepted
<1>1. SUFFICES ASSUME row # NoRow, row.kind \in Kinds, Rank[row.kind] = row.rank,
                      row.kind \in {"active", "cancelling"},
                      \A i \in DOMAIN sent : ~Outranks(i)
               PROVE  FALSE
  BY RankOf DEF Projection
<1>2. /\ row \in Rows /\ row.rank < 40 /\ row.at \in Nat /\ row.period \in Nat /\ ~row.latched
      /\ row.kind # "invoice_failed"
  BY <1>1, InvariantOf, RankOf DEF Rows, Invariant, TypeOK
<1>3. \A i \in DOMAIN sent : observed[i].outcome \in {"applied", "ignored", "quarantined"}
  <2>1. \A i \in DOMAIN sent : observed[i] \in Observations /\ observed[i] # Unseen
    BY InvariantOf
  <2>2. \A o \in Observations : o.outcome = "none" /\ ~o.team => o = Unseen
    BY DEF Observations, Unseen
  <2>3. \A o \in Observations : o.outcome # "none" => o.outcome \in {"applied", "ignored", "quarantined"}
    BY DEF Observations, Outcomes
  <2> QED BY <2>1, <2>2, <2>3 DEF TeamsAreNamed
<1>4. PICK k \in Accepted :
        /\ <<row.period, row.at, row.rank>> = <<sent[k].period, sent[k].at, Rank[sent[k].kind]>>
        /\ \A j \in Accepted : sent[j].type # "deleted" /\ NoNewer(sent[j], sent[k])
  BY <1>0, <1>1, <1>2 DEF RowIsNewestAccepted
<1>5. CASE stripe.kind = "cancelled"
  <2>1. PICK d \in DOMAIN sent : sent[d].type = "deleted"
    BY <1>0, <1>5 DEF EventsAreOrdered
  <2>2. observed[d].outcome = "quarantined" /\ observed[d].team
    BY <1>3, <1>4, <2>1 DEF Accepted, TeamsAreNamed
  <2>3. row.at <= sent[d].at
    BY <1>0, <1>1, <1>2, <2>1 DEF RowHasASnapshot, DeletionIsLast
  <2>4. sent[d].at > row.at \/ (sent[d].at = row.at /\ Rank["cancelled"] >= row.rank)
    BY <1>0, <1>2, <2>1, <2>3, RankOf DEF Rows
  <2> QED BY <1>1, <2>1, <2>2, <2>4 DEF Outranks
<1>6. CASE stripe.kind = "past_due"
  <2> DEFINE n == Len(sent)
  <2>1. /\ n \in DOMAIN sent /\ sent[n].kind = "past_due" /\ sent[n].type # "deleted"
        /\ \A i \in DOMAIN sent : sent[i].period <= sent[n].period /\ sent[i].at <= sent[n].at
    BY <1>0, <1>6, InvariantOf DEF EventsAreOrdered
  <2> HIDE DEF n
  <2>2. k \in DOMAIN sent /\ row.at <= sent[n].at
    BY <1>0, <1>4, <2>1
  <2>3. CASE n \in Accepted
    <3>1. NoNewer(sent[n], sent[k])
      BY <1>4, <2>3
    <3>2. Rank[sent[n].kind] = 40 /\ Rank[sent[k].kind] < 40 /\ Rank[sent[k].kind] \in Nat
      BY <1>0, <1>2, <1>4, <2>1, <2>2, RankOf DEF Rows
    <3> QED BY <1>0, <2>1, <2>2, <3>1, <3>2 DEF NoNewer
  <2>4. CASE n \notin Accepted
    <3>1. observed[n].outcome = "quarantined" /\ observed[n].team
      BY <1>3, <2>1, <2>4 DEF Accepted, TeamsAreNamed
    <3>2. \A rank \in {Rank["past_due"], Rank["cancelled"]} :
            sent[n].at > row.at \/ (sent[n].at = row.at /\ rank >= row.rank)
      BY <1>0, <1>2, <2>1, <2>2, RankOf DEF Rows
    <3> QED BY <1>1, <2>1, <3>1, <3>2 DEF Outranks
  <2> QED BY <2>3, <2>4
<1> QED BY <1>5, <1>6

\* Where no failed payment overtakes the first snapshot: once every event was delivered, a
\* Subscription that is past due or gone at Stripe is not shown as healthy, however the
\* deliveries crossed and whichever of them were quarantined.
THEOREM NeverShownHealthier ==
  ASSUME ~EarlyInvoices
  PROVE  Spec => []NeverOverstated
<1>1. Init => TeamsAreNamed
  BY DEF Init, TeamsAreNamed, Unseen
<1>2. Invariant /\ TeamsAreNamed /\ [Next]_vars => TeamsAreNamed'
  BY NamesStay
<1>3. Invariant /\ TeamsAreNamed => NeverOverstated
  BY ShownTruly
<1> QED BY <1>1, <1>2, <1>3, SpecIsSound, PTL DEF Spec

-----------------------------------------------------------------------------
(* Retention: the inductive invariant                                      *)

Deadlines(s) == 0..(s.time + s.retention + s.recheck)
Never(s) == s.time + s.retention + s.recheck + 1
Times(s) == 0..s.time
Stored(s) == Store(s)!Jobs
Completions(s) == Times(s) \cup {Bad}
Untils(s) == Deadlines(s) \cup {Unassigned, Sentinel}
Ids(s) == Stored(s) \cup {0}
Rechecks(s) == Deadlines(s) \cup {Never(s)}

RowRecords(s) ==
  [state : {"pending", "succeeded", "redacted"}, completed : Completions(s), until : Untils(s)]
Observed(s) == [id : Stored(s), completed : Completions(s), until : Untils(s)]
CursorRecords(s) == [after : Ids(s), recheck : Rechecks(s)]
Resting == {"idle", "ending"}
PassSteps ==
  {"due", "redact", "page", "scan", "rescan", "advance", "legacy", "assign", "reassign", "schedule", "next"}
PassRecords(s) ==
  [pc : PassSteps \cup Resting, started : Times(s), budget : 0..s.batch, queue : Seq(Observed(s)),
   again : BOOLEAN, seen : CursorRecords(s), next : CursorRecords(s), found : Nat, processed : Nat,
   last : Ids(s), rescan : BOOLEAN, recheck : Rechecks(s), classified : BOOLEAN, more : BOOLEAN]

StoreTyped(s) ==
  /\ now \in Times(s)
  /\ rows \in [Stored(s) -> RowRecords(s)]
  /\ cursor \in CursorRecords(s)
  /\ pass \in [s.runtimes -> PassRecords(s)]
  /\ timer \in [s.runtimes -> Rechecks(s)] /\ requested \in [s.runtimes -> Rechecks(s)]
  /\ notices \in [s.runtimes -> SUBSET Deadlines(s)]

\* A deadline is a settlement's time and the retention period.
RowSound(s, x) ==
  /\ x.completed # Bad => x.completed <= now
  /\ x.until \in Deadlines(s) => x.completed # Bad /\ x.until = x.completed + s.retention
  /\ x.state = "pending" => x.until = Unassigned
RowsSound(s) == \A j \in Stored(s) : RowSound(s, rows[j])

\* A scan is due within the recheck interval, if at all.
Soon(s, t) == t = Never(s) \/ t <= now + s.recheck
CursorSound(s) == Soon(s, cursor.recheck)

Waits(s, p) == p.seen.after = 0 /\ p.seen.recheck # Never(s) /\ p.seen.recheck > p.started
DueRows(s, p) ==
  /\ Len(p.queue) <= p.budget
  /\ \A i \in 1..Len(p.queue) : p.queue[i].until \in Deadlines(s) /\ p.queue[i].until <= p.started

PassSound(s, p) ==
  /\ p.started <= now
  /\ Soon(s, p.recheck) /\ Soon(s, p.seen.recheck) /\ Soon(s, p.next.recheck)
  /\ p.pc = "due" => p.budget = s.batch
  /\ p.pc = "redact" => DueRows(s, p)
  /\ p.pc \in {"rescan", "reassign"} => p.queue # <<>>
  /\ p.pc \in {"page", "scan", "rescan", "advance"} =>
       p.recheck = IF Waits(s, p) THEN p.seen.recheck ELSE Never(s)
  /\ p.pc \in {"scan", "rescan"} /\ p.found > 0 /\ p.processed = 0 => p.queue # <<>>
  /\ p.pc \in {"due", "redact", "page"} => ~p.again
  /\ p.processed > 0 => p.last # 0
  /\ p.pc = "rescan" \/ (p.pc = "scan" /\ p.again) => p.processed > 0
  /\ p.pc \notin {"assign", "reassign", "schedule", "next"} => ~p.classified
  /\ p.pc \in {"legacy", "assign", "reassign"} /\ ~p.rescan /\ p.recheck = Never(s) =>
       p.seen.after = 0 \/ (p.budget = 0 /\ ~p.classified)
PassesSound(s) == \A r \in s.runtimes : PassSound(s, pass[r])

\* There is a settled row without a deadline of its own.
Holds(s, until) == \E j \in Stored(s) : rows[j].until = until /\ rows[j].state = "succeeded"

\* A pass that will not ask for another one has seen no older row left.
Known(s, p) == p.pc \in {"schedule", "next"} /\ ~p.more => ~Holds(s, Unassigned)
AllKnown(s) == \A r \in s.runtimes : Known(s, pass[r])

\* A pass that will schedule no scan: it has seen no unreadable row, and made none since.
Satisfied(s, p) ==
  \/ p.pc \in {"scan", "rescan"} /\ p.found = 0 /\ p.budget > 0 /\ p.seen.after = 0 /\ p.seen.recheck = Never(s)
  \/ p.pc = "advance" /\ p.next.after = 0 /\ p.next.recheck = Never(s)
  \/ p.pc \in {"legacy", "assign", "reassign"} /\ ~p.rescan /\ p.recheck = Never(s) /\ ~p.classified
  \/ p.pc = "next" /\ ~p.rescan /\ p.recheck = Never(s)

Runs(r) == pass[r].pc \notin Resting
WillLook(r, t) == Runs(r) \/ timer[r] <= t \/ timer[r] <= now
WillScan(s, r) == IF Runs(r) THEN ~Satisfied(s, pass[r]) ELSE timer[r] <= now + s.recheck

NobodyEnds(s) == \A r \in s.runtimes : pass[r].pc # "ending"
DeadlinesHeld(s) ==
  ~s.overtaken /\ ~s.losesReplies =>
    /\ NobodyEnds(s)
    /\ \A j \in Stored(s) : rows[j].state = "succeeded" /\ rows[j].until \in Deadlines(s) =>
         \E r \in s.runtimes : WillLook(r, rows[j].until) \/ \E d \in notices[r] : d <= rows[j].until
OlderHeld(s) == Holds(s, Unassigned) => \E r \in s.runtimes : WillLook(r, now)
UnreadableHeld(s) == Holds(s, Sentinel) => \E r \in s.runtimes : WillScan(s, r)

StoreInvariant(s) ==
  /\ StoreTyped(s) /\ RowsSound(s) /\ CursorSound(s) /\ PassesSound(s)
  /\ AllKnown(s) /\ DeadlinesHeld(s) /\ OlderHeld(s) /\ UnreadableHeld(s)

StoreConstants(s) == Store(s)!StripePayloadRetentionAssumption

LEMMA StoreFacts ==
  ASSUME NEW s, StoreConstants(s)
  PROVE  /\ s.runtimes # {}
         /\ Stored(s) \subseteq Nat /\ 0 \notin Stored(s) /\ IsFiniteSet(Stored(s))
         /\ s.batch \in Nat /\ s.batch > 0 /\ s.retention \in Nat /\ s.retention > 0
         /\ s.recheck \in Nat /\ s.recheck > 0 /\ s.time \in Nat
         /\ s.overtaken \in BOOLEAN /\ s.losesReplies \in BOOLEAN
         /\ Unassigned # Sentinel /\ Unassigned \notin Nat /\ Sentinel \notin Nat /\ Bad \notin Nat
         /\ Stored(s) = s.pending \cup s.older \cup s.unreadable
<1>1. /\ s.runtimes # {} /\ Stored(s) \subseteq Nat \ {0} /\ Store(s)!IsFiniteSet(Stored(s))
      /\ s.batch \in Nat \ {0} /\ s.retention \in Nat \ {0} /\ s.recheck \in Nat \ {0}
      /\ s.time \in Nat /\ s.overtaken \in BOOLEAN /\ s.losesReplies \in BOOLEAN
      /\ Unassigned # Sentinel /\ {Unassigned, Sentinel, Bad} \cap Nat = {}
  BY DEF StoreConstants, Store!StripePayloadRetentionAssumption, Stored
<1>2. IsFiniteSet(Stored(s))
  BY <1>1 DEF Store!IsFiniteSet, IsFiniteSet
<1>3. Stored(s) = s.pending \cup s.older \cup s.unreadable
  BY DEF Stored, Store!Jobs
<1> QED BY <1>1, <1>2, <1>3

LEMMA StoreNames ==
  ASSUME NEW s, StoreConstants(s)
  PROVE  /\ Store(s)!Instants = Deadlines(s) /\ Store(s)!Never = Never(s)
         /\ Store(s)!RetryDelay = 0
         /\ Store(s)!InitialCursor = [after |-> 0, recheck |-> Never(s)]
         /\ \A p : Store(s)!Waiting(p) <=> Waits(s, p)
         /\ \A u : Store(s)!Anywhere(u) <=> Holds(s, u)
         /\ Deadlines(s) \subseteq Nat /\ Times(s) \subseteq Deadlines(s) /\ Never(s) \in Nat
         /\ \A d \in Deadlines(s) : d < Never(s)
<1>1. Store(s)!Never = Never(s) /\ Store(s)!RetryDelay = 0
  BY DEF Store!Never, Never, Store!RetryDelay
<1>2. Never(s) \in Nat /\ Never(s) - 1 = s.time + s.retention + s.recheck
  BY StoreFacts DEF Never
<1>3. Store(s)!Instants = Deadlines(s)
  BY <1>1, <1>2 DEF Store!Instants, Deadlines
<1>4. \A p : Store(s)!Waiting(p) <=> Waits(s, p)
  BY <1>1 DEF Store!Waiting, Waits
<1>5. \A u : Store(s)!Anywhere(u) <=> Holds(s, u)
  BY DEF Store!Anywhere, Store!At, Holds, Stored
<1>6. Deadlines(s) \subseteq Nat /\ Times(s) \subseteq Deadlines(s) /\ \A d \in Deadlines(s) : d < Never(s)
  BY StoreFacts DEF Deadlines, Times, Never
<1>7. Store(s)!InitialCursor = [after |-> 0, recheck |-> Never(s)]
  BY <1>1 DEF Store!InitialCursor
<1> QED BY <1>1, <1>2, <1>3, <1>4, <1>5, <1>6, <1>7

-----------------------------------------------------------------------------
(* Retention: a pass                                                       *)

\* What the steps of a pass are to the invariant: the runtime looks before and after.
LEMMA PassGoesOn ==
  ASSUME NEW s, StoreConstants(s), StoreInvariant(s), NEW r \in s.runtimes, Runs(r),
         NEW p \in PassRecords(s), p.pc \in PassSteps, pass' = [pass EXCEPT ![r] = p],
         PassSound(s, p)', Known(s, p)',
         UNCHANGED <<now, timer, requested, notices>>,
         rows' \in [Stored(s) -> RowRecords(s)], RowsSound(s)',
         cursor' \in CursorRecords(s), CursorSound(s)',
         Holds(s, Unassigned)' => Holds(s, Unassigned),
         Holds(s, Sentinel)' => ~Satisfied(s, p) \/ (Holds(s, Sentinel) /\ Satisfied(s, pass[r]))
  PROVE  StoreInvariant(s)'
<1>1. /\ pass'[r] = p /\ \A q \in s.runtimes : q # r => pass'[q] = pass[q]
      /\ pass' \in [s.runtimes -> PassRecords(s)]
  BY DEF StoreInvariant, StoreTyped
<1>2. StoreTyped(s)'
  BY <1>1 DEF StoreInvariant, StoreTyped, Times, Rechecks, Deadlines, Never
<1>3. \A q : PassSound(s, q)' <=> PassSound(s, q)
  BY DEF PassSound, Soon
<1>4. PassesSound(s)'
  BY <1>1, <1>3 DEF StoreInvariant, PassesSound
<1>5. AllKnown(s)'
  BY <1>1 DEF StoreInvariant, AllKnown, Known
<1>6. Runs(r)' /\ \A q \in s.runtimes : Runs(q)' <=> Runs(q)
  BY <1>1 DEF Runs, Resting, PassSteps
<1>7. DeadlinesHeld(s)'
  BY <1>1, <1>6 DEF StoreInvariant, DeadlinesHeld, NobodyEnds, WillLook, Runs, Resting
<1>8. OlderHeld(s)'
  BY <1>6 DEF OlderHeld, WillLook
<1>9. UnreadableHeld(s)'
  <2> SUFFICES ASSUME Holds(s, Sentinel)' PROVE \E q \in s.runtimes : WillScan(s, q)'
    BY DEF UnreadableHeld
  <2>1. CASE ~Satisfied(s, p)
    BY <1>1, <1>6, <2>1 DEF WillScan
  <2>2. CASE Holds(s, Sentinel) /\ Satisfied(s, pass[r])
    <3>1. PICK q \in s.runtimes : WillScan(s, q)
      BY <2>2 DEF StoreInvariant, UnreadableHeld
    <3>2. q # r
      BY <2>2, <3>1 DEF WillScan
    <3>3. WillScan(s, q)'
      BY <1>1, <1>6, <3>1, <3>2 DEF WillScan
    <3> QED BY <3>3
  <2> QED BY <2>1, <2>2
<1> QED BY <1>2, <1>4, <1>5, <1>7, <1>8, <1>9 DEF StoreInvariant

\* The same where the rows and the cursor stay.
LEMMA PassGoesLocally ==
  ASSUME NEW s, StoreConstants(s), StoreInvariant(s), NEW r \in s.runtimes, Runs(r),
         NEW p \in PassRecords(s), p.pc \in PassSteps, Store(s)!Locally(r, p),
         PassSound(s, p), Known(s, p),
         Holds(s, Sentinel) /\ Satisfied(s, p) => Satisfied(s, pass[r])
  PROVE  StoreInvariant(s)'
<1>1. /\ pass' = [pass EXCEPT ![r] = p]
      /\ UNCHANGED <<now, rows, cursor, timer, requested, notices>>
  BY DEF Store!Locally, Store!Goes, Store!control
<1>2. /\ PassSound(s, p)' /\ Known(s, p)' /\ RowsSound(s)' /\ CursorSound(s)'
      /\ \A u : Holds(s, u)' <=> Holds(s, u)
  BY <1>1 DEF StoreInvariant, PassSound, Soon, Known, RowsSound, RowSound, CursorSound, Holds
<1>3. rows' \in [Stored(s) -> RowRecords(s)] /\ cursor' \in CursorRecords(s)
  BY <1>1 DEF StoreInvariant, StoreTyped
<1> QED BY <1>1, <1>2, <1>3, PassGoesOn

LEMMA PassOf ==
  ASSUME NEW s, StoreConstants(s), StoreInvariant(s), NEW r \in s.runtimes
  PROVE  /\ pass[r] \in PassRecords(s) /\ PassSound(s, pass[r]) /\ Known(s, pass[r])
BY DEF StoreInvariant, StoreTyped, PassesSound, AllKnown

LEMMA FreshPassIsSound ==
  ASSUME NEW s, StoreConstants(s), now \in Times(s)
  PROVE  /\ Store(s)!FreshPass(now) \in PassRecords(s) /\ PassSound(s, Store(s)!FreshPass(now))
         /\ Known(s, Store(s)!FreshPass(now)) /\ ~Satisfied(s, Store(s)!FreshPass(now))
         /\ Store(s)!FreshPass(now).pc = "due" /\ Store(s)!FreshPass(now).started = now
<1>1. PICK c : c = [after |-> 0, recheck |-> Never(s)]
  OBVIOUS
<1>2. PICK f : f = [pc |-> "due", started |-> now, budget |-> s.batch, queue |-> <<>>, again |-> FALSE,
                    seen |-> c, next |-> c, found |-> 0, processed |-> 0, last |-> 0,
                    rescan |-> FALSE, recheck |-> Never(s), classified |-> FALSE, more |-> FALSE]
  OBVIOUS
<1>3. Store(s)!FreshPass(now) = f
  BY <1>1, <1>2, StoreNames DEF Store!FreshPass
<1>4. c \in CursorRecords(s) /\ c.recheck = Never(s)
  BY <1>1, StoreNames DEF CursorRecords, Ids, Rechecks
<1>5. f \in PassRecords(s)
  BY <1>2, <1>4, StoreFacts DEF PassRecords, PassSteps, Resting, Ids, Rechecks
<1>6. PassSound(s, f) /\ Known(s, f) /\ ~Satisfied(s, f)
  BY <1>2, <1>4, StoreFacts DEF PassSound, Soon, Known, Satisfied, Times
<1> QED BY <1>2, <1>3, <1>5, <1>6

LEMMA SucceededRows ==
  ASSUME NEW s, StoreConstants(s), StoreTyped(s), NEW J \in SUBSET Stored(s)
  PROVE  /\ Store(s)!Succeeded(J) \subseteq Observed(s) /\ IsFiniteSet(Store(s)!Succeeded(J))
         /\ \A x \in Store(s)!Succeeded(J) : x.id \in J /\ x.until = rows[x.id].until
         /\ Store(s)!Succeeded(J) = {} => \A j \in J : rows[j].state # "succeeded"
<1> DEFINE K == {j \in J : rows[j].state = "succeeded"}
           f == [j \in K |-> [id |-> j, completed |-> rows[j].completed, until |-> rows[j].until]]
           T == {f[j] : j \in K}
<1>1. Store(s)!Succeeded(J) = T
  BY DEF Store!Succeeded, Store!Stored
<1>2. \A j \in K : rows[j] \in RowRecords(s) /\ j \in Stored(s)
  BY DEF StoreTyped
<1>3. \A j \in K : /\ f[j] \in Observed(s) /\ f[j].id = j /\ f[j].until = rows[j].until
  BY <1>2 DEF RowRecords, Observed
<1>4. IsFiniteSet(K)
  BY StoreFacts, FS_Subset
<1>5. IsFiniteSet(T)
  <2>1. f \in Surjection(K, T)
    BY DEF Surjection
  <2> QED BY <1>4, <2>1, FS_Surjection
<1>6. ASSUME NEW x \in T PROVE x \in Observed(s) /\ x.id \in J /\ x.until = rows[x.id].until
  <2>1. PICK j \in K : x = f[j]
    OBVIOUS
  <2> QED BY <1>3, <2>1
<1>7. T = {} => \A j \in J : rows[j].state # "succeeded"
  OBVIOUS
<1> HIDE DEF T
<1> QED BY <1>1, <1>5, <1>6, <1>7

\* What a statement selects: some rows of those it found, and nothing only if it found nothing.
LEMMA SelectedRows ==
  ASSUME NEW s, NEW T, IsFiniteSet(T), T \subseteq Observed(s), NEW n \in Nat,
         NEW q \in [1..Store(s)!Earlier(n, Store(s)!Cardinality(T)) -> T]
  PROVE  /\ q \in Seq(Observed(s)) /\ Len(q) <= n /\ \A i \in 1..Len(q) : q[i] \in T
         /\ n > 0 /\ Len(q) = 0 => T = {}
<1>1. PICK k \in Nat : k = Cardinality(T) /\ Store(s)!Cardinality(T) = k
  BY FS_CardinalityType DEF Store!Cardinality, Cardinality
<1>2. PICK m \in Nat : m = Store(s)!Earlier(n, Store(s)!Cardinality(T)) /\ m <= n /\ (m = n \/ m = k)
  BY <1>1 DEF Store!Earlier
<1>3. q \in [1..m -> T] /\ q \in [1..m -> Observed(s)]
  BY <1>2
<1>4. q \in Seq(Observed(s)) /\ Len(q) = m
  BY <1>3
<1>5. k = 0 => T = {}
  BY <1>1, FS_EmptySet
<1> QED BY <1>2, <1>3, <1>4, <1>5

LEMMA ReadDueKeeps ==
  ASSUME NEW s, StoreConstants(s), StoreInvariant(s), NEW r \in s.runtimes, Store(s)!ReadDue(r)
  PROVE  StoreInvariant(s)'
<1>1. PICK p \in PassRecords(s) : p = pass[r] /\ PassSound(s, p) /\ p.pc = "due" /\ p.budget = s.batch
  BY PassOf DEF Store!ReadDue, Store!AtStep, PassSound
<1> DEFINE J == {j \in Store(s)!Dated : rows[j].until <= p.started}
           T == Store(s)!Succeeded(J)
<1>2. PICK q \in [1..Store(s)!Earlier(s.batch, Store(s)!Cardinality(T)) -> T] :
        Store(s)!Locally(r, [p EXCEPT !.pc = "redact", !.queue = q])
  BY <1>1 DEF Store!ReadDue, Store!Selected
<1>3. J \in SUBSET Stored(s) /\ \A j \in J : rows[j].until \in Deadlines(s) /\ rows[j].until <= p.started
  BY StoreNames DEF Store!Dated, Stored
<1>4. T \subseteq Observed(s) /\ IsFiniteSet(T)
      /\ \A x \in T : x.until \in Deadlines(s) /\ x.until <= p.started
  BY <1>3, SucceededRows DEF StoreInvariant
<1> HIDE DEF J, T
<1>5. q \in Seq(Observed(s)) /\ Len(q) <= s.batch /\ \A i \in 1..Len(q) : q[i] \in T
  BY <1>4, StoreFacts, SelectedRows
<1>6. PICK new : new = [p EXCEPT !.pc = "redact", !.queue = q]
  OBVIOUS
<1>7. new \in PassRecords(s) /\ new.pc = "redact"
  BY <1>1, <1>5, <1>6 DEF PassRecords, PassSteps
<1>8. /\ new.queue = q /\ new.started = p.started /\ new.budget = p.budget /\ new.seen = p.seen
      /\ new.next = p.next /\ new.recheck = p.recheck /\ new.classified = p.classified /\ (new.again <=> p.again)
      /\ new.processed = p.processed /\ new.last = p.last
  BY <1>1, <1>6 DEF PassRecords
<1>9. DueRows(s, new)
  BY <1>1, <1>4, <1>5, <1>8 DEF DueRows
<1>10. PassSound(s, new)
  BY <1>1, <1>7, <1>8, <1>9 DEF PassSound
<1>11. Known(s, new) /\ ~Satisfied(s, new)
  BY <1>7 DEF Known, Satisfied
<1>12. Runs(r) /\ new.pc \in PassSteps
  BY <1>1, <1>7 DEF Runs, Resting, PassSteps
<1> QED BY <1>2, <1>6, <1>7, <1>10, <1>11, <1>12, PassGoesLocally

LEMMA ReadCursorKeeps ==
  ASSUME NEW s, StoreConstants(s), StoreInvariant(s), NEW r \in s.runtimes, Store(s)!ReadCursor(r)
  PROVE  StoreInvariant(s)'
<1>1. PICK p \in PassRecords(s) : p = pass[r] /\ PassSound(s, p) /\ p.pc = "redact"
  BY PassOf DEF Store!ReadCursor, Store!AtStep
<1>2. PICK q : q = [p EXCEPT !.pc = "page", !.seen = cursor]
  OBVIOUS
<1>3. PICK again : again = IF Waits(s, q) THEN cursor.recheck ELSE Never(s)
  OBVIOUS
<1>4. PICK new : new = [q EXCEPT !.recheck = again]
  OBVIOUS
<1>5. Store(s)!Locally(r, new)
  BY <1>1, <1>2, <1>3, <1>4, StoreNames DEF Store!ReadCursor
<1>6. cursor \in CursorRecords(s) /\ Soon(s, cursor.recheck) /\ cursor.recheck \in Rechecks(s)
      /\ Never(s) \in Rechecks(s) /\ Soon(s, Never(s))
  BY DEF StoreInvariant, StoreTyped, CursorSound, CursorRecords, Rechecks, Soon
<1>7. /\ q \in PassRecords(s) /\ q.seen = cursor /\ q.started = p.started
      /\ q.next = p.next /\ q.classified = p.classified /\ (q.again <=> p.again) /\ q.pc = "page"
      /\ q.processed = p.processed /\ q.last = p.last
  BY <1>2, <1>6 DEF PassRecords, PassSteps
<1>8. again \in Rechecks(s) /\ Soon(s, again)
  BY <1>3, <1>6
<1>9. /\ new \in PassRecords(s) /\ new.seen = cursor /\ new.started = p.started /\ new.recheck = again
      /\ new.next = p.next /\ new.classified = p.classified /\ (new.again <=> p.again) /\ new.pc = "page"
      /\ new.processed = p.processed /\ new.last = p.last
  BY <1>4, <1>7, <1>8 DEF PassRecords
<1>10. Waits(s, new) <=> Waits(s, q)
  BY <1>7, <1>9 DEF Waits
<1>11. PassSound(s, new)
  BY <1>1, <1>3, <1>6, <1>8, <1>9, <1>10 DEF PassSound
<1>12. Known(s, new) /\ ~Satisfied(s, new) /\ Runs(r) /\ new.pc \in PassSteps
  BY <1>1, <1>9 DEF Known, Satisfied, Runs, Resting, PassSteps
<1> QED BY <1>5, <1>9, <1>11, <1>12, PassGoesLocally

LEMMA ReadPageKeeps ==
  ASSUME NEW s, StoreConstants(s), StoreInvariant(s), NEW r \in s.runtimes, Store(s)!ReadPage(r)
  PROVE  StoreInvariant(s)'
<1>1. PICK p \in PassRecords(s) : p = pass[r] /\ PassSound(s, p) /\ p.pc = "page"
  BY PassOf DEF Store!ReadPage, Store!AtStep
<1> DEFINE J == {j \in Store(s)!At(Sentinel) : j > p.seen.after}
           T == Store(s)!Succeeded(J)
           Paged == p.budget # 0 /\ ~Waits(s, p)
<1>2. PICK q : /\ IF Paged THEN q \in [1..Store(s)!Earlier(s.batch + 1, Store(s)!Cardinality(T)) -> T]
                  ELSE q = <<>>
               /\ Store(s)!Locally(r, [p EXCEPT !.pc = "scan", !.found = Len(q),
                                      !.queue = SubSeq(q, 1, Store(s)!Earlier(s.batch, Len(q)))])
  <2>1. CASE Paged
    <3>1. \E q \in [1..Store(s)!Earlier(s.batch + 1, Store(s)!Cardinality(T)) -> T] :
            Store(s)!Locally(r, [p EXCEPT !.pc = "scan", !.found = Len(q),
                                 !.queue = SubSeq(q, 1, Store(s)!Earlier(s.batch, Len(q)))])
      BY <1>1, <2>1, StoreNames DEF Store!ReadPage, Store!Selected
    <3> QED BY <2>1, <3>1
  <2>2. CASE ~Paged
    <3>1. Store(s)!Locally(r, [p EXCEPT !.pc = "scan", !.found = Len(<<>>),
                               !.queue = SubSeq(<<>>, 1, Store(s)!Earlier(s.batch, Len(<<>>)))])
      BY <1>1, <2>2, StoreNames DEF Store!ReadPage
    <3> QED BY <2>2, <3>1
  <2> QED BY <2>1, <2>2
<1>3. J \in SUBSET Stored(s) /\ \A j \in J : j > p.seen.after
  BY DEF Store!At, Stored
<1>4. T \subseteq Observed(s) /\ IsFiniteSet(T) /\ (T = {} => \A j \in J : rows[j].state # "succeeded")
  BY <1>3, SucceededRows DEF StoreInvariant
<1>5. p.seen.after = 0 /\ T = {} => ~Holds(s, Sentinel)
  <2> SUFFICES ASSUME p.seen.after = 0, T = {}, NEW j \in Stored(s), rows[j].until = Sentinel,
                      rows[j].state = "succeeded"
               PROVE  FALSE
    BY DEF Holds
  <2>1. j > 0
    BY StoreFacts
  <2>2. j \in J
    BY <2>1 DEF Store!At, Stored
  <2> QED BY <1>4, <2>2
<1> HIDE DEF J, T
<1>6. q \in Seq(Observed(s)) /\ (Paged /\ Len(q) = 0 => T = {})
  <2>1. CASE Paged
    <3>1. s.batch + 1 \in Nat /\ s.batch + 1 > 0
      BY StoreFacts
    <3> QED BY <1>2, <1>4, <2>1, <3>1, SelectedRows
  <2>2. CASE ~Paged
    <3>1. q = <<>>
      BY <1>2, <2>2
    <3>2. q \in Seq(Observed(s))
      BY <3>1
    <3> QED BY <2>2, <3>2
  <2> QED BY <2>1, <2>2
<1>7. PICK n \in Nat : n = Len(q)
  BY <1>6
<1>8. PICK k \in Nat : k = Store(s)!Earlier(s.batch, Len(q)) /\ k <= n /\ (n > 0 => k > 0)
  BY <1>7, StoreFacts DEF Store!Earlier
<1>9. PICK u : u = SubSeq(q, 1, k)
  OBVIOUS
<1>10. u \in Seq(Observed(s)) /\ (n > 0 => u # <<>>)
  <2>1. \A i \in 1..k : q[i] \in Observed(s)
    BY <1>6, <1>7, <1>8
  <2>2. u \in Seq(Observed(s)) /\ Len(u) = IF 1 <= k THEN k - 1 + 1 ELSE 0
    BY <1>9, <2>1, SubSeqProperties
  <2> QED BY <1>8, <2>2
<1>11. PICK new : new = [p EXCEPT !.pc = "scan", !.found = n, !.queue = u]
  OBVIOUS
<1>12. Store(s)!Locally(r, new)
  BY <1>2, <1>7, <1>8, <1>9, <1>11
<1>13. /\ new \in PassRecords(s) /\ new.pc = "scan" /\ new.found = n /\ new.queue = u
       /\ new.started = p.started /\ new.budget = p.budget /\ new.seen = p.seen /\ new.processed = p.processed
       /\ new.last = p.last
       /\ new.next = p.next /\ new.recheck = p.recheck /\ new.classified = p.classified /\ (new.again <=> p.again)
      /\ new.processed = p.processed /\ new.last = p.last
  BY <1>1, <1>10, <1>11 DEF PassRecords, PassSteps
<1>14. Waits(s, new) <=> Waits(s, p)
  BY <1>13 DEF Waits
<1>15. PassSound(s, new)
  BY <1>1, <1>10, <1>13, <1>14 DEF PassSound
<1>16. Satisfied(s, new) => ~Holds(s, Sentinel)
  <2> SUFFICES ASSUME Satisfied(s, new) PROVE ~Holds(s, Sentinel)
    OBVIOUS
  <2>1. n = 0 /\ p.budget > 0 /\ p.seen.after = 0 /\ p.seen.recheck = Never(s)
    BY <1>13 DEF Satisfied
  <2>2. Paged
    BY <2>1 DEF Waits
  <2> QED BY <1>5, <1>6, <1>7, <2>1, <2>2
<1>17. Known(s, new) /\ Runs(r) /\ new.pc \in PassSteps
  BY <1>1, <1>13 DEF Known, Runs, Resting, PassSteps
<1> QED BY <1>12, <1>13, <1>15, <1>16, <1>17, PassGoesLocally

LEMMA ReadOlderKeeps ==
  ASSUME NEW s, StoreConstants(s), StoreInvariant(s), NEW r \in s.runtimes, Store(s)!ReadOlder(r)
  PROVE  StoreInvariant(s)'
<1>1. PICK p \in PassRecords(s) : p = pass[r] /\ PassSound(s, p) /\ p.pc = "legacy"
  BY PassOf DEF Store!ReadOlder, Store!AtStep
<1> DEFINE T == Store(s)!Succeeded(Store(s)!At(Unassigned))
<1>2. PICK q \in [1..Store(s)!Earlier(p.budget, Store(s)!Cardinality(T)) -> T] :
        Store(s)!Locally(r, [p EXCEPT !.pc = "assign", !.queue = q])
  BY <1>1 DEF Store!ReadOlder, Store!Selected
<1>3. Store(s)!At(Unassigned) \in SUBSET Stored(s)
  BY DEF Store!At, Stored
<1>4. T \subseteq Observed(s) /\ IsFiniteSet(T)
  BY <1>3, SucceededRows DEF StoreInvariant
<1> HIDE DEF T
<1>5. p.budget \in Nat
  BY StoreFacts DEF PassRecords
<1>6. q \in Seq(Observed(s))
  BY <1>4, <1>5, SelectedRows
<1>7. PICK new : new = [p EXCEPT !.pc = "assign", !.queue = q]
  OBVIOUS
<1>8. /\ new \in PassRecords(s) /\ new.pc = "assign" /\ (new.rescan <=> p.rescan)
      /\ new.started = p.started /\ new.budget = p.budget /\ new.seen = p.seen
      /\ new.next = p.next /\ new.recheck = p.recheck /\ new.classified = p.classified /\ (new.again <=> p.again)
      /\ new.processed = p.processed /\ new.last = p.last
  BY <1>1, <1>6, <1>7 DEF PassRecords, PassSteps
<1>9. PassSound(s, new)
  BY <1>1, <1>8 DEF PassSound
<1>10. Satisfied(s, new) => Satisfied(s, p)
  BY <1>1, <1>8 DEF Satisfied
<1>11. Known(s, new) /\ Runs(r) /\ new.pc \in PassSteps
  BY <1>1, <1>8 DEF Known, Runs, Resting, PassSteps
<1> QED BY <1>1, <1>2, <1>7, <1>8, <1>9, <1>10, <1>11, PassGoesLocally

LEMMA HeadOf ==
  ASSUME NEW s, NEW p \in PassRecords(s), p.queue # <<>>
  PROVE  /\ Head(p.queue) \in Observed(s) /\ Tail(p.queue) \in Seq(Observed(s))
         /\ Len(p.queue) > 0 /\ Head(p.queue) = p.queue[1] /\ Len(Tail(p.queue)) = Len(p.queue) - 1
         /\ \A i \in 1..Len(Tail(p.queue)) : Tail(p.queue)[i] = p.queue[i + 1]
<1>1. PICK q \in Seq(Observed(s)) : q = p.queue
  BY DEF PassRecords
<1>2. Len(q) > 0 /\ Head(q) = q[1]
  BY <1>1
<1> QED BY <1>1, <1>2, HeadTailProperties

\* A statement that changes the row it observed found it settled and as it was.
LEMMA UnchangedRow ==
  ASSUME NEW s, StoreTyped(s), NEW q \in Observed(s), Store(s)!Unchanged(q)
  PROVE  /\ rows[q.id] \in RowRecords(s) /\ q.id \in Stored(s) /\ rows[q.id].state = "succeeded"
         /\ rows[q.id].completed = q.completed /\ rows[q.id].until = q.until
<1>1. q.id \in Stored(s)
  BY DEF Observed
<1>2. [id |-> q.id, completed |-> rows[q.id].completed, until |-> rows[q.id].until] = q
  BY DEF Store!Unchanged, Store!Stored
<1>3. rows[q.id].completed = q.completed /\ rows[q.id].until = q.until
  BY <1>2
<1> QED BY <1>1, <1>3 DEF Store!Unchanged, StoreTyped

LEMMA RedactKeeps ==
  ASSUME NEW s, StoreConstants(s), StoreInvariant(s), NEW r \in s.runtimes, Store(s)!Redact(r)
  PROVE  StoreInvariant(s)'
<1>1. PICK p \in PassRecords(s) :
        /\ p = pass[r] /\ PassSound(s, p) /\ p.pc = "redact" /\ p.queue # <<>> /\ DueRows(s, p)
  BY PassOf DEF Store!Redact, Store!AtStep, PassSound
<1>2. PICK q \in Observed(s) : q = Head(p.queue)
  BY <1>1, HeadOf
<1>3. PICK u \in Seq(Observed(s)) : u = Tail(p.queue)
  BY <1>1, HeadOf
<1>4. /\ p.budget \in Nat /\ p.budget > 0 /\ Len(u) <= p.budget - 1
      /\ \A i \in 1..Len(u) : u[i].until \in Deadlines(s) /\ u[i].until <= p.started
  <2>1. Len(p.queue) \in Nat /\ Len(p.queue) > 0 /\ Len(u) = Len(p.queue) - 1
        /\ p.budget \in Nat /\ Len(p.queue) <= p.budget
    BY <1>1, <1>3, HeadOf, StoreFacts DEF PassRecords, DueRows
  <2>2. ASSUME NEW i \in 1..Len(u) PROVE u[i].until \in Deadlines(s) /\ u[i].until <= p.started
    <3>1. u[i] = p.queue[i + 1] /\ i + 1 \in 1..Len(p.queue)
      BY <1>1, <1>3, <2>1, HeadOf
    <3> QED BY <1>1, <3>1 DEF DueRows
  <2> QED BY <2>1, <2>2
<1>5. PICK b \in {p.budget, p.budget - 1} :
        /\ Store(s)!Goes(r, [p EXCEPT !.queue = u, !.budget = b])
        /\ IF b = p.budget THEN UNCHANGED rows
           ELSE Store(s)!Unchanged(q) /\ rows' = [rows EXCEPT ![q.id].state = "redacted"]
        /\ UNCHANGED <<now, cursor, timer, requested, notices>>
  <2>1. CASE Store(s)!Unchanged(q)
    <3>1. /\ Store(s)!Goes(r, [p EXCEPT !.queue = u, !.budget = p.budget - 1])
          /\ rows' = [rows EXCEPT ![q.id].state = "redacted"]
          /\ UNCHANGED <<now, cursor, timer, requested, notices>>
      BY <1>1, <1>2, <1>3, <2>1 DEF Store!Redact, Store!control
    <3>2. p.budget - 1 # p.budget
      BY <1>4
    <3> QED BY <2>1, <3>1, <3>2
  <2>2. CASE ~Store(s)!Unchanged(q)
    <3>1. /\ Store(s)!Goes(r, [p EXCEPT !.queue = u])
          /\ UNCHANGED rows
          /\ UNCHANGED <<now, cursor, timer, requested, notices>>
      BY <1>1, <1>2, <1>3, <2>2 DEF Store!Redact, Store!control
    <3>2. [p EXCEPT !.queue = u] = [p EXCEPT !.queue = u, !.budget = p.budget]
      BY <1>1 DEF PassRecords
    <3> QED BY <3>1, <3>2
  <2> QED BY <2>1, <2>2
<1>6. PICK new : new = [p EXCEPT !.queue = u, !.budget = b]
  OBVIOUS
<1>7. /\ new \in PassRecords(s) /\ new.pc = "redact" /\ new.queue = u /\ new.budget = b
      /\ new.started = p.started /\ new.seen = p.seen
      /\ new.next = p.next /\ new.recheck = p.recheck /\ new.classified = p.classified /\ (new.again <=> p.again)
      /\ new.processed = p.processed /\ new.last = p.last
  <2>1. b \in 0..s.batch
    BY <1>4, StoreFacts DEF PassRecords
  <2> QED BY <1>1, <1>6, <2>1 DEF PassRecords
<1>8. DueRows(s, new)
  <2>1. Len(u) <= b /\ Len(u) \in Nat
    BY <1>4
  <2> QED BY <1>4, <1>7, <2>1 DEF DueRows
<1>9. PassSound(s, new)
  BY <1>1, <1>7, <1>8 DEF PassSound
<1>10. Known(s, new) /\ ~Satisfied(s, new) /\ Runs(r) /\ new.pc \in PassSteps
  BY <1>1, <1>7 DEF Known, Satisfied, Runs, Resting, PassSteps
<1>11. /\ rows' \in [Stored(s) -> RowRecords(s)] /\ RowsSound(s)'
       /\ \A until : Holds(s, until)' => Holds(s, until)
  <2>1. CASE b = p.budget
    BY <1>5, <2>1 DEF StoreInvariant, StoreTyped, RowsSound, RowSound, Holds
  <2>2. CASE b # p.budget
    <3>1. PICK x \in RowRecords(s) : x = rows[q.id] /\ q.id \in Stored(s)
      BY <1>5, <2>2, UnchangedRow DEF StoreInvariant
    <3>2. PICK y : y = [x EXCEPT !.state = "redacted"]
      OBVIOUS
    <3>3. y \in RowRecords(s) /\ y.state = "redacted" /\ y.completed = x.completed /\ y.until = x.until
      BY <3>1, <3>2 DEF RowRecords
    <3>4. rows' = [rows EXCEPT ![q.id] = y]
      BY <1>5, <2>2, <3>1, <3>2
    <3>5. /\ rows' \in [Stored(s) -> RowRecords(s)] /\ rows'[q.id] = y
          /\ \A j \in Stored(s) : j # q.id => rows'[j] = rows[j]
      BY <3>1, <3>3, <3>4 DEF StoreInvariant, StoreTyped
    <3>6. RowSound(s, x) /\ now' = now
      BY <1>5, <3>1 DEF StoreInvariant, RowsSound
    <3>7. RowSound(s, y)'
      BY <3>3, <3>6 DEF RowSound
    <3>8. RowsSound(s)'
      BY <3>5, <3>6, <3>7 DEF StoreInvariant, RowsSound, RowSound
    <3> QED BY <3>3, <3>5, <3>8 DEF Holds
  <2> QED BY <2>1, <2>2
<1>12. cursor' \in CursorRecords(s) /\ CursorSound(s)'
  BY <1>5 DEF StoreInvariant, StoreTyped, CursorSound, Soon
<1>13. PassSound(s, new)' /\ Known(s, new)'
  BY <1>5, <1>7, <1>9 DEF PassSound, Soon, Known
<1> QED BY <1>1, <1>5, <1>6, <1>7, <1>10, <1>11, <1>12, <1>13, PassGoesOn DEF Store!Goes

\* A row that is given its deadline, or the sentinel, by a pass.
LEMMA GiveDeadlineKeeps ==
  ASSUME NEW s, StoreConstants(s), StoreInvariant(s), NEW r \in s.runtimes,
         NEW pc, NEW reread, <<pc, reread>> \in {<<"scan", "rescan">>, <<"assign", "reassign">>},
         Store(s)!GiveDeadline(r, pc, reread)
  PROVE  StoreInvariant(s)'
<1>0. /\ pc \in {"scan", "assign"} /\ (pc = "scan" => reread = "rescan")
      /\ pc = "assign" => reread = "reassign"
  OBVIOUS
<1>1. PICK o \in PassRecords(s) :
        o = pass[r] /\ PassSound(s, o) /\ o.pc = pc /\ o.queue # <<>> /\ o.budget > 0
  BY PassOf DEF Store!GiveDeadline, Store!AtStep
<1>2. PICK q \in Observed(s) : q = Head(o.queue)
  BY <1>1, HeadOf
<1>3. PICK u \in Seq(Observed(s)) : u = Tail(o.queue)
  BY <1>1, HeadOf
<1>4. PICK p : p = IF o.again THEN o ELSE [o EXCEPT !.processed = o.processed + 1, !.last = q.id]
  OBVIOUS
<1>5. /\ p \in PassRecords(s) /\ p.pc = pc /\ p.queue = o.queue /\ p.started = o.started
      /\ p.budget = o.budget /\ p.seen = o.seen /\ p.next = o.next /\ p.recheck = o.recheck
      /\ p.found = o.found /\ (pc = "scan" => p.processed > 0)
      /\ p.processed > 0 => p.last # 0
      /\ (p.rescan <=> o.rescan) /\ (p.classified <=> o.classified) /\ (p.again <=> o.again)
      /\ p.budget \in 0..s.batch /\ p.budget > 0
  <2>1. /\ q.id \in Ids(s) /\ o.processed \in Nat /\ o.budget \in 0..s.batch
        /\ pc = "scan" /\ o.again => o.processed > 0
    BY <1>1 DEF Observed, Ids, PassRecords, PassSound
  <2>2. CASE o.again
    BY <1>1, <1>4, <2>1, <2>2 DEF PassSound
  <2>3. CASE ~o.again
    <3>1. PICK m \in Nat : m = o.processed + 1 /\ m > 0
      BY <2>1
    <3>2. PICK i \in Ids(s) : i = q.id /\ i # 0
      BY <2>1, StoreFacts DEF Observed
    <3>3. p = [o EXCEPT !.processed = m, !.last = i]
      BY <1>4, <2>3, <3>1, <3>2
    <3>4. p \in PassRecords(s)
      BY <3>3 DEF PassRecords
    <3>5. /\ p.pc = o.pc /\ p.queue = o.queue /\ p.started = o.started
          /\ p.budget = o.budget /\ p.seen = o.seen /\ p.next = o.next /\ p.recheck = o.recheck
          /\ p.found = o.found /\ p.processed = m /\ p.last = i
          /\ p.rescan = o.rescan /\ p.classified = o.classified /\ p.again = o.again
      BY <3>3 DEF PassRecords
    <3> QED BY <1>1, <2>1, <3>1, <3>2, <3>4, <3>5
  <2> QED BY <2>2, <2>3
<1>6. PassSound(s, p)
  BY <1>0, <1>1, <1>5 DEF PassSound, Waits
<1>7. /\ \/ /\ pc = "scan" /\ q.completed = Bad
            /\ Store(s)!Goes(r, [p EXCEPT !.queue = u, !.again = FALSE]) /\ UNCHANGED rows
         \/ /\ pc = "assign" \/ q.completed # Bad
            /\ Store(s)!Unchanged(q)
            /\ rows' = [rows EXCEPT ![q.id].until = Store(s)!Deadline(q.completed)]
            /\ Store(s)!Goes(r, [[p EXCEPT !.queue = u, !.again = FALSE] EXCEPT
                                   !.budget = p.budget - 1, !.classified = p.classified \/ q.completed = Bad])
         \/ /\ pc = "assign" \/ q.completed # Bad
            /\ ~Store(s)!Unchanged(q)
            /\ Store(s)!Goes(r, IF p.again THEN [p EXCEPT !.queue = u, !.again = FALSE]
                                ELSE [p EXCEPT !.pc = reread]) /\ UNCHANGED rows
      /\ UNCHANGED <<now, cursor, timer, requested, notices>>
  <2>1. [p EXCEPT !.queue = u, !.again = FALSE] = Store(s)!Drop(p)
        /\ [[p EXCEPT !.queue = u, !.again = FALSE] EXCEPT
               !.budget = p.budget - 1, !.classified = p.classified \/ q.completed = Bad] =
           [Store(s)!Drop(p) EXCEPT !.budget = @ - 1, !.classified = @ \/ q.completed = Bad]
    BY <1>3, <1>5 DEF Store!Drop, PassRecords
  <2>2. UNCHANGED <<now, cursor, timer, requested, notices>>
    BY DEF Store!GiveDeadline, Store!control
  <2>3. p = IF pass[r].again THEN pass[r] ELSE [pass[r] EXCEPT !.processed = @ + 1, !.last = Head(pass[r].queue).id]
    BY <1>1, <1>2, <1>4
  <2> QED BY <1>1, <1>2, <2>1, <2>2, <2>3, Zenon DEF Store!GiveDeadline
<1>8. PICK b, c, pc2, w :
        /\ b \in 0..s.batch /\ c \in BOOLEAN /\ b <= p.budget
        /\ pass' = [pass EXCEPT ![r] = [p EXCEPT !.pc = pc2, !.queue = w, !.again = FALSE, !.budget = b, !.classified = c]]
        /\ (pc2 = pc /\ w = u) \/ (pc2 = reread /\ w = p.queue)
        /\ \/ UNCHANGED rows /\ (c <=> p.classified)
           \/ /\ Store(s)!Unchanged(q) /\ (c <=> p.classified \/ q.completed = Bad)
              /\ pc = "assign" \/ q.completed # Bad
              /\ rows' = [rows EXCEPT ![q.id].until = Store(s)!Deadline(q.completed)]
  <2> DEFINE F(pc2, w, b, c) == [p EXCEPT !.pc = pc2, !.queue = w, !.again = FALSE, !.budget = b, !.classified = c]
  <2>1. [p EXCEPT !.queue = u, !.again = FALSE] = F(pc, u, p.budget, p.classified)
    BY <1>5 DEF PassRecords
  <2>2. [[p EXCEPT !.queue = u, !.again = FALSE] EXCEPT
           !.budget = p.budget - 1, !.classified = p.classified \/ q.completed = Bad] =
        F(pc, u, p.budget - 1, p.classified \/ q.completed = Bad)
    BY <1>5 DEF PassRecords
  <2>3. ~p.again => [p EXCEPT !.pc = reread] = F(reread, p.queue, p.budget, p.classified)
    BY <1>5 DEF PassRecords
  <2>4. /\ p.budget \in 0..s.batch /\ p.budget - 1 \in 0..s.batch /\ p.budget - 1 <= p.budget
        /\ p.classified \in BOOLEAN /\ (p.classified \/ q.completed = Bad) \in BOOLEAN /\ p.budget <= p.budget
    BY <1>5, StoreFacts DEF PassRecords
  <2> DEFINE G(pc2, w, b, c) ==
        /\ b \in 0..s.batch /\ c \in BOOLEAN /\ b <= p.budget
        /\ pass' = [pass EXCEPT ![r] = F(pc2, w, b, c)]
        /\ (pc2 = pc /\ w = u) \/ (pc2 = reread /\ w = p.queue)
        /\ \/ UNCHANGED rows /\ (c <=> p.classified)
           \/ /\ Store(s)!Unchanged(q) /\ (c <=> p.classified \/ q.completed = Bad)
              /\ pc = "assign" \/ q.completed # Bad
              /\ rows' = [rows EXCEPT ![q.id].until = Store(s)!Deadline(q.completed)]
  <2> SUFFICES \E pc2, w, b, c : G(pc2, w, b, c)
    BY Zenon
  <2> HIDE DEF F
  <2>5. CASE pass' = [pass EXCEPT ![r] = F(pc, u, p.budget, p.classified)] /\ UNCHANGED rows
    <3>1. G(pc, u, p.budget, p.classified)
      BY <2>4, <2>5
    <3> HIDE DEF G
    <3> QED BY <3>1, Zenon
  <2>6. CASE /\ Store(s)!Unchanged(q) /\ (pc = "assign" \/ q.completed # Bad)
             /\ rows' = [rows EXCEPT ![q.id].until = Store(s)!Deadline(q.completed)]
             /\ pass' = [pass EXCEPT ![r] = F(pc, u, p.budget - 1, p.classified \/ q.completed = Bad)]
    <3>1. G(pc, u, p.budget - 1, p.classified \/ q.completed = Bad)
      BY <2>4, <2>6
    <3> HIDE DEF G
    <3> QED BY <3>1, Zenon
  <2>7. CASE pass' = [pass EXCEPT ![r] = F(reread, p.queue, p.budget, p.classified)] /\ UNCHANGED rows
    <3>1. G(reread, p.queue, p.budget, p.classified)
      BY <2>4, <2>7, Zenon
    <3> HIDE DEF G
    <3> QED BY <3>1, Zenon
  <2> QED BY <1>7, <2>1, <2>2, <2>3, <2>5, <2>6, <2>7, Zenon DEF Store!Goes
<1>9. PICK new : new = [p EXCEPT !.pc = pc2, !.queue = w, !.again = FALSE, !.budget = b, !.classified = c]
  OBVIOUS
<1>10. w \in Seq(Observed(s)) /\ pc2 \in {"scan", "assign", "rescan", "reassign"}
       /\ (pc = "scan" <=> pc2 \in {"scan", "rescan"}) /\ (pc2 \in {"rescan", "reassign"} => w # <<>>)
  BY <1>0, <1>1, <1>5, <1>8 DEF PassRecords
<1>11. /\ new \in PassRecords(s) /\ new.pc = pc2 /\ new.queue = w /\ new.budget = b
       /\ new.classified = c /\ ~new.again
       /\ new.started = p.started /\ new.seen = p.seen /\ new.next = p.next /\ new.recheck = p.recheck
       /\ new.found = p.found /\ new.processed = p.processed /\ new.last = p.last /\ (new.rescan <=> p.rescan)
  BY <1>5, <1>8, <1>9, <1>10 DEF PassRecords, PassSteps
<1>12. pc = "scan" => (c <=> p.classified)
  BY <1>0, <1>8
<1>13. (Waits(s, new) <=> Waits(s, p)) /\ p.budget # 0
  BY <1>5, <1>11 DEF Waits
<1>14. PassSound(s, new)
  BY <1>0, <1>5, <1>6, <1>10, <1>11, <1>12, <1>13 DEF PassSound
<1>15. Known(s, new)' /\ Runs(r) /\ new.pc \in PassSteps
  BY <1>0, <1>1, <1>10, <1>11 DEF Known, Runs, Resting, PassSteps
<1>16. Satisfied(s, new) => Satisfied(s, p)
  BY <1>0, <1>5, <1>8, <1>10, <1>11 DEF Satisfied
<1>17. Satisfied(s, p) <=> Satisfied(s, pass[r])
  BY <1>0, <1>1, <1>5 DEF Satisfied
<1>18. /\ rows' \in [Stored(s) -> RowRecords(s)] /\ RowsSound(s)'
       /\ Holds(s, Unassigned)' => Holds(s, Unassigned)
       /\ Holds(s, Sentinel)' => Holds(s, Sentinel) \/ (pc = "assign" /\ c)
  <2>1. CASE UNCHANGED rows
    BY <1>7, <2>1 DEF StoreInvariant, StoreTyped, RowsSound, RowSound, Holds
  <2>2. CASE /\ Store(s)!Unchanged(q) /\ (c <=> p.classified \/ q.completed = Bad)
             /\ pc = "assign" \/ q.completed # Bad
             /\ rows' = [rows EXCEPT ![q.id].until = Store(s)!Deadline(q.completed)]
    <3>1. PICK x \in RowRecords(s) : x = rows[q.id] /\ q.id \in Stored(s)
      BY <2>2, UnchangedRow DEF StoreInvariant
    <3>2. x.state = "succeeded" /\ x.completed = q.completed
      BY <2>2, <3>1, UnchangedRow DEF StoreInvariant
    <3>3. PICK d : d = Store(s)!Deadline(q.completed)
      OBVIOUS
    <3>4. RowSound(s, x) /\ now' = now /\ now \in Times(s)
      BY <1>7, <3>1 DEF StoreInvariant, RowsSound, StoreTyped
    <3>5. CASE q.completed = Bad
      <4>1. d = Sentinel /\ d \in Untils(s) /\ d \notin Deadlines(s) /\ d # Unassigned
        BY <3>3, <3>5, StoreFacts, StoreNames DEF Store!Deadline, Untils
      <4>2. pc = "assign" /\ c
        BY <2>2, <3>5
      <4>3. PICK y : y = [x EXCEPT !.until = d]
        OBVIOUS
      <4>4. y \in RowRecords(s) /\ y.state = "succeeded" /\ y.completed = x.completed /\ y.until = d
        BY <3>1, <3>2, <4>1, <4>3 DEF RowRecords
      <4>5. rows' = [rows EXCEPT ![q.id] = y]
        BY <2>2, <3>1, <3>3, <4>3
      <4>6. /\ rows' \in [Stored(s) -> RowRecords(s)] /\ rows'[q.id] = y
            /\ \A j \in Stored(s) : j # q.id => rows'[j] = rows[j]
        BY <3>1, <4>4, <4>5 DEF StoreInvariant, StoreTyped
      <4>7. RowSound(s, y)'
        BY <3>4, <4>1, <4>4 DEF RowSound
      <4>8. RowsSound(s)'
        BY <3>4, <4>6, <4>7 DEF StoreInvariant, RowsSound, RowSound
      <4> QED BY <4>1, <4>2, <4>4, <4>6, <4>8 DEF Holds
    <3>6. CASE q.completed # Bad
      <4>1. q.completed \in Times(s)
        BY <3>6 DEF Observed, Completions
      <4>2. d = q.completed + s.retention /\ d \in Deadlines(s)
        BY <3>3, <3>6, <4>1, StoreFacts DEF Store!Deadline, Times, Deadlines
      <4>3. d \in Untils(s) /\ d # Sentinel /\ d # Unassigned
        BY <4>2, StoreFacts, StoreNames DEF Untils
      <4>4. PICK y : y = [x EXCEPT !.until = d]
        OBVIOUS
      <4>5. y \in RowRecords(s) /\ y.state = "succeeded" /\ y.completed = q.completed /\ y.until = d
        BY <3>1, <3>2, <4>3, <4>4 DEF RowRecords
      <4>6. rows' = [rows EXCEPT ![q.id] = y]
        BY <2>2, <3>1, <3>3, <4>4
      <4>7. /\ rows' \in [Stored(s) -> RowRecords(s)] /\ rows'[q.id] = y
            /\ \A j \in Stored(s) : j # q.id => rows'[j] = rows[j]
        BY <3>1, <4>5, <4>6 DEF StoreInvariant, StoreTyped
      <4>8. RowSound(s, y)'
        BY <3>2, <3>4, <3>6, <4>2, <4>5 DEF RowSound
      <4>9. RowsSound(s)'
        BY <3>4, <4>7, <4>8 DEF StoreInvariant, RowsSound, RowSound
      <4> QED BY <4>3, <4>5, <4>7, <4>9 DEF Holds
    <3> QED BY <3>5, <3>6
  <2> QED BY <1>8, <2>1, <2>2
<1>19. Holds(s, Sentinel)' => ~Satisfied(s, new) \/ (Holds(s, Sentinel) /\ Satisfied(s, pass[r]))
  <2>1. pc = "assign" /\ c => ~Satisfied(s, new)
    BY <1>0, <1>10, <1>11 DEF Satisfied
  <2> QED BY <1>16, <1>17, <1>18, <2>1
<1>20. cursor' \in CursorRecords(s) /\ CursorSound(s)' /\ PassSound(s, new)'
  BY <1>7, <1>14 DEF StoreInvariant, StoreTyped, CursorSound, Soon, PassSound
<1> QED BY <1>7, <1>8, <1>9, <1>11, <1>15, <1>18, <1>19, <1>20, PassGoesOn

\* A row is read once more, or found to have been taken care of.
LEMMA RereadKeeps ==
  ASSUME NEW s, StoreConstants(s), StoreInvariant(s), NEW r \in s.runtimes,
         NEW pc, NEW back, <<pc, back>> \in {<<"rescan", "scan">>, <<"reassign", "assign">>},
         Store(s)!Reread(r, pc, back)
  PROVE  StoreInvariant(s)'
<1>0. \/ pc = "rescan" /\ back = "scan"
      \/ pc = "reassign" /\ back = "assign"
  OBVIOUS
<1>1. PICK p \in PassRecords(s) : p = pass[r] /\ PassSound(s, p) /\ p.pc = pc
  BY PassOf DEF Store!Reread, Store!AtStep
<1>2. p.queue # <<>>
  BY <1>0, <1>1 DEF PassSound
<1>3. PICK q \in Observed(s) : q = Head(p.queue)
  BY <1>2, HeadOf
<1>4. PICK u \in Seq(Observed(s)) : u = Tail(p.queue)
  BY <1>2, HeadOf
<1>5. PICK o \in Observed(s) : o = Store(s)!Stored(q.id)
  <2>1. PICK x \in RowRecords(s) : x = rows[q.id] /\ q.id \in Stored(s)
    BY DEF StoreInvariant, StoreTyped, Observed
  <2>2. [id |-> q.id, completed |-> x.completed, until |-> x.until] \in Observed(s)
    BY <2>1 DEF RowRecords, Observed
  <2> QED BY <2>1, <2>2 DEF Store!Stored
<1>6. PICK w, again :
        /\ w \in Seq(Observed(s)) /\ again \in BOOLEAN
        /\ Store(s)!Locally(r, [p EXCEPT !.pc = back, !.queue = w, !.again = again])
  <2>1. CASE rows[q.id].state = "succeeded" /\ rows[q.id].until = q.until
    <3>1. PICK w \in Seq(Observed(s)) : w = <<o>> \o u
      <4>1. <<o>> \in Seq(Observed(s))
        OBVIOUS
      <4> QED BY <4>1, ConcatProperties
    <3>2. Store(s)!Locally(r, [[p EXCEPT !.queue = w, !.again = TRUE] EXCEPT !.pc = back])
      BY <1>1, <1>3, <1>4, <1>5, <2>1, <3>1 DEF Store!Reread
    <3>3. [[p EXCEPT !.queue = w, !.again = TRUE] EXCEPT !.pc = back] = [p EXCEPT !.pc = back, !.queue = w, !.again = TRUE]
      BY DEF PassRecords
    <3> QED BY <3>2, <3>3
  <2>2. CASE ~(rows[q.id].state = "succeeded" /\ rows[q.id].until = q.until)
    <3>1. Store(s)!Locally(r, [[p EXCEPT !.queue = u, !.again = FALSE] EXCEPT !.pc = back])
      BY <1>1, <1>3, <1>4, <2>2 DEF Store!Reread, Store!Drop
    <3>2. [[p EXCEPT !.queue = u, !.again = FALSE] EXCEPT !.pc = back] = [p EXCEPT !.pc = back, !.queue = u, !.again = FALSE]
      BY DEF PassRecords
    <3> QED BY <3>1, <3>2
  <2> QED BY <2>1, <2>2
<1>7. PICK new : new = [p EXCEPT !.pc = back, !.queue = w, !.again = again]
  OBVIOUS
<1>8. /\ new \in PassRecords(s) /\ new.pc = back /\ new.queue = w /\ (new.rescan <=> p.rescan)
      /\ new.started = p.started /\ new.budget = p.budget /\ new.seen = p.seen /\ new.found = p.found
      /\ new.next = p.next /\ new.recheck = p.recheck /\ (new.classified <=> p.classified) /\ (new.again <=> again)
      /\ new.processed = p.processed /\ new.last = p.last
  BY <1>0, <1>1, <1>6, <1>7 DEF PassRecords, PassSteps
<1>9. Waits(s, new) <=> Waits(s, p)
  BY <1>8 DEF Waits
<1>10. PassSound(s, new)
  BY <1>0, <1>1, <1>8, <1>9 DEF PassSound
<1>11. Satisfied(s, new) => Satisfied(s, p)
  BY <1>0, <1>1, <1>8 DEF Satisfied
<1>12. Known(s, new) /\ Runs(r) /\ new.pc \in PassSteps
  BY <1>0, <1>1, <1>8 DEF Known, Runs, Resting, PassSteps
<1> QED BY <1>1, <1>6, <1>7, <1>8, <1>10, <1>11, <1>12, PassGoesLocally

\* Where the next scan starts, and when.
LEMMA NextCursorIsSound ==
  ASSUME NEW s, StoreConstants(s), StoreInvariant(s), NEW p \in PassRecords(s), p.processed > 0 => p.last # 0,
         p.found > 0 /\ p.processed = 0 => FALSE
  PROVE  /\ Store(s)!NextCursor(p) \in CursorRecords(s) /\ Soon(s, Store(s)!NextCursor(p).recheck)
         /\ Store(s)!NextCursor(p).after = 0 /\ Store(s)!NextCursor(p).recheck = Never(s) => ~Holds(s, Sentinel)
<1>1. now \in Times(s) /\ now + s.recheck \in Deadlines(s) /\ now + s.recheck # Never(s)
  BY StoreFacts DEF StoreInvariant, StoreTyped, Times, Deadlines, Never
<1>2. p.found \in Nat /\ p.processed \in Nat /\ p.last \in Ids(s)
  BY DEF PassRecords
<1>3. CASE p.found > p.processed
  <2>1. PICK c : c = [after |-> p.last, recheck |-> Never(s)]
    OBVIOUS
  <2>2. Store(s)!NextCursor(p) = c
    BY <1>3, <2>1, StoreNames DEF Store!NextCursor
  <2>3. c \in CursorRecords(s) /\ c.recheck = Never(s) /\ c.after = p.last
    BY <1>2, <2>1 DEF CursorRecords, Rechecks
  <2>4. p.last # 0
    BY <1>2, <1>3
  <2> QED BY <2>2, <2>3, <2>4 DEF Soon
<1>4. CASE ~(p.found > p.processed)
  <2>1. PICK t : t = IF Holds(s, Sentinel) THEN now + s.recheck ELSE Never(s)
    OBVIOUS
  <2>2. PICK c : c = [after |-> 0, recheck |-> t]
    OBVIOUS
  <2>3. Store(s)!NextCursor(p) = c
    BY <1>4, <2>1, <2>2, StoreNames DEF Store!NextCursor
  <2>4. t \in Rechecks(s) /\ (t = Never(s) => ~Holds(s, Sentinel)) /\ (t = Never(s) \/ t <= now + s.recheck)
    BY <1>1, <2>1 DEF Rechecks, Deadlines
  <2>5. c \in CursorRecords(s) /\ c.recheck = t
    BY <2>2, <2>4 DEF CursorRecords, Ids
  <2> QED BY <2>3, <2>4, <2>5 DEF Soon
<1> QED BY <1>3, <1>4

LEMMA SurveyKeeps ==
  ASSUME NEW s, StoreConstants(s), StoreInvariant(s), NEW r \in s.runtimes, Store(s)!Survey(r)
  PROVE  StoreInvariant(s)'
<1>1. PICK o \in PassRecords(s) : o = pass[r] /\ PassSound(s, o) /\ o.pc = "scan" /\ (o.queue = <<>> \/ o.budget = 0)
  BY PassOf DEF Store!Survey, Store!AtStep, Store!RowsAreOver
<1>2. PICK p : p = [o EXCEPT !.queue = <<>>]
  OBVIOUS
<1>3. /\ p \in PassRecords(s) /\ p.pc = "scan" /\ p.queue = <<>> /\ (p.rescan <=> o.rescan)
      /\ p.started = o.started /\ p.budget = o.budget /\ p.seen = o.seen /\ p.found = o.found
      /\ p.next = o.next /\ p.recheck = o.recheck /\ (p.classified <=> o.classified) /\ (p.again <=> o.again)
      /\ p.processed = o.processed /\ p.last = o.last
  <2>1. <<>> \in Seq(Observed(s))
    OBVIOUS
  <2> QED BY <1>1, <1>2, <2>1 DEF PassRecords
<1>4. Waits(s, p) <=> Waits(s, o)
  BY <1>3 DEF Waits
<1>5. p.budget \in Nat /\ p.processed \in Nat /\ p.found \in Nat /\ p.seen \in CursorRecords(s)
  BY <1>3, StoreFacts DEF PassRecords
<1>6. Runs(r)
  BY <1>1 DEF Runs, Resting
<1> DEFINE Moves == p.processed > 0 \/ (p.budget > 0 /\ ~Waits(s, p) /\ p.seen # [after |-> 0, recheck |-> Never(s)])
<1>7. Store(s)!Locally(r, IF Moves THEN [p EXCEPT !.pc = "advance", !.next = Store(s)!NextCursor(p)]
                          ELSE [p EXCEPT !.pc = "legacy",
                                         !.rescan = p.budget = 0 /\ ~Waits(s, p) /\ Holds(s, Sentinel)])
  BY <1>1, <1>2, StoreNames DEF Store!Survey
<1>8. CASE Moves
  <2>1. ~(p.found > 0 /\ p.processed = 0) /\ (p.processed > 0 => p.last # 0)
    BY <1>1, <1>3, <1>5, <1>8 DEF PassSound
  <2>2. PICK c \in CursorRecords(s) :
          /\ c = Store(s)!NextCursor(p) /\ Soon(s, c.recheck)
          /\ c.after = 0 /\ c.recheck = Never(s) => ~Holds(s, Sentinel)
    BY <1>3, <2>1, NextCursorIsSound
  <2>3. PICK new : new = [p EXCEPT !.pc = "advance", !.next = c]
    OBVIOUS
  <2>4. /\ new \in PassRecords(s) /\ new.pc = "advance" /\ new.next = c
        /\ new.started = p.started /\ new.budget = p.budget /\ new.seen = p.seen
        /\ new.recheck = p.recheck /\ (new.classified <=> p.classified)
        /\ new.processed = p.processed /\ new.last = p.last
    BY <1>3, <2>3 DEF PassRecords, PassSteps
  <2>5. Waits(s, new) <=> Waits(s, o)
    BY <1>4, <2>4 DEF Waits
  <2>6. PassSound(s, new)
    BY <1>1, <1>3, <2>2, <2>4, <2>5 DEF PassSound
  <2>7. Holds(s, Sentinel) => ~Satisfied(s, new)
    BY <2>2, <2>4 DEF Satisfied
  <2>8. Known(s, new) /\ new.pc \in PassSteps
    BY <2>4 DEF Known, PassSteps
  <2> QED BY <1>6, <1>7, <1>8, <2>2, <2>3, <2>4, <2>6, <2>7, <2>8, PassGoesLocally
<1>9. CASE ~Moves
  <2>1. PICK f \in BOOLEAN : f = (p.budget = 0 /\ ~Waits(s, p) /\ Holds(s, Sentinel))
    OBVIOUS
  <2>2. PICK new : new = [p EXCEPT !.pc = "legacy", !.rescan = f]
    OBVIOUS
  <2>3. /\ new \in PassRecords(s) /\ new.pc = "legacy" /\ (new.rescan <=> f)
        /\ new.started = p.started /\ new.budget = p.budget /\ new.seen = p.seen /\ new.next = p.next
        /\ new.recheck = p.recheck /\ (new.classified <=> p.classified)
        /\ new.processed = p.processed /\ new.last = p.last
    BY <1>3, <2>2 DEF PassRecords, PassSteps
  <2>4. p.budget = 0 \/ p.seen.after = 0
    BY <1>5, <1>9 DEF Waits
  <2>5. PassSound(s, new)
    BY <1>1, <1>3, <2>3, <2>4 DEF PassSound
  <2>6. Holds(s, Sentinel) /\ Satisfied(s, new) => Satisfied(s, o)
    <3> SUFFICES ASSUME Holds(s, Sentinel), ~f, p.recheck = Never(s) PROVE Satisfied(s, o)
      BY <2>3 DEF Satisfied
    <3>1. ~Waits(s, p)
      BY <1>1, <1>3, <1>4 DEF PassSound, Waits
    <3>2. p.budget > 0
      <4>1. f <=> p.budget = 0 /\ ~Waits(s, p) /\ Holds(s, Sentinel)
        BY <2>1
      <4>2. p.budget # 0
        BY <3>1, <4>1
      <4> QED BY <1>5, <4>2
    <3>3. p.seen = [after |-> 0, recheck |-> Never(s)] /\ p.processed = 0
      BY <1>5, <1>9, <3>1, <3>2
    <3>4. p.found = 0
      BY <1>1, <1>3, <1>5, <3>2, <3>3 DEF PassSound
    <3> QED BY <1>1, <1>3, <3>2, <3>3, <3>4 DEF Satisfied
  <2>7. Known(s, new) /\ new.pc \in PassSteps
    BY <2>3 DEF Known, PassSteps
  <2>8. Store(s)!Locally(r, new)
    BY <1>7, <1>9, <2>1, <2>2
  <2> HIDE DEF Moves
  <2> QED BY <1>1, <1>6, <2>3, <2>5, <2>6, <2>7, <2>8, PassGoesLocally
<1> QED BY <1>8, <1>9

LEMMA LookForMoreKeeps ==
  ASSUME NEW s, StoreConstants(s), StoreInvariant(s), NEW r \in s.runtimes, Store(s)!LookForMore(r)
  PROVE  StoreInvariant(s)'
<1>1. PICK o \in PassRecords(s) : o = pass[r] /\ PassSound(s, o) /\ o.pc = "assign"
  BY PassOf DEF Store!LookForMore, Store!AtStep
<1>2. PICK m \in BOOLEAN : m = Holds(s, Unassigned)
  BY DEF Holds
<1>3. PICK pc \in {"schedule", "next"} :
        pc = IF ~o.rescan /\ o.seen.after = 0 /\ o.recheck = Never(s) /\ o.classified THEN "schedule" ELSE "next"
  OBVIOUS
<1>4. PICK p : p = [o EXCEPT !.queue = <<>>, !.more = m]
  OBVIOUS
<1>5. PICK new : new = [p EXCEPT !.pc = pc]
  OBVIOUS
<1>6. /\ p \in PassRecords(s) /\ p.rescan = o.rescan
      /\ p.started = o.started /\ p.seen = o.seen
      /\ p.next = o.next /\ p.recheck = o.recheck /\ p.classified = o.classified
      /\ p.processed = o.processed /\ p.last = o.last /\ p.more = m
  <2>1. <<>> \in Seq(Observed(s))
    OBVIOUS
  <2> QED BY <1>4, <2>1 DEF PassRecords
<1>7. /\ new \in PassRecords(s) /\ new.pc = pc /\ (new.rescan <=> o.rescan)
      /\ new.started = o.started /\ new.seen = o.seen
      /\ new.next = o.next /\ new.recheck = o.recheck /\ (new.classified <=> o.classified)
      /\ new.processed = o.processed /\ new.last = o.last /\ (new.more <=> m)
  BY <1>5, <1>6 DEF PassRecords, PassSteps
<1>8. Store(s)!Locally(r, new)
  <2>1. [o EXCEPT !.queue = <<>>, !.more = Store(s)!Anywhere(Unassigned)] = p
    <3>1. Store(s)!Anywhere(Unassigned) \in BOOLEAN
      BY DEF Store!Anywhere
    <3>2. Store(s)!Anywhere(Unassigned) = m
      BY <1>2, <3>1, StoreNames
    <3> QED BY <1>4, <3>2
  <2> QED BY <1>1, <1>3, <1>5, <1>6, <2>1, StoreNames DEF Store!LookForMore
<1>9. PassSound(s, new)
  BY <1>1, <1>7 DEF PassSound
<1>10. Known(s, new) /\ Runs(r) /\ new.pc \in PassSteps
  BY <1>1, <1>2, <1>7 DEF Known, Runs, Resting, PassSteps
<1>11. Satisfied(s, new) => Satisfied(s, o)
  BY <1>1, <1>3, <1>7 DEF Satisfied, PassSound
<1> QED BY <1>1, <1>7, <1>8, <1>9, <1>10, <1>11, PassGoesLocally

\* The cursor moves, or another runtime has moved it and this one will scan again.
LEMMA MoveKeeps ==
  ASSUME NEW s, StoreConstants(s), StoreInvariant(s), NEW r \in s.runtimes, Runs(r),
         NEW p \in PassRecords(s), PassSound(s, p), Known(s, p), NEW pc, Store(s)!Move(r, p, pc),
         \/ p.pc = "advance" /\ pc = "legacy" /\ p = pass[r]
         \/ p.pc = "schedule" /\ pc = "next" /\ p.next.recheck # Never(s)
  PROVE  StoreInvariant(s)'
<1>0. pc \in {"legacy", "next"}
  OBVIOUS
<1>1. PICK n \in CursorRecords(s) : n = p.next /\ Soon(s, n.recheck) /\ n.recheck \in Rechecks(s)
  BY DEF PassRecords, CursorRecords, PassSound
<1>2. UNCHANGED <<now, rows, timer, requested, notices>>
  BY DEF Store!Move, Store!control
<1>3. /\ \A u : Holds(s, u)' <=> Holds(s, u)
      /\ rows' \in [Stored(s) -> RowRecords(s)] /\ RowsSound(s)'
  BY <1>2 DEF StoreInvariant, StoreTyped, Holds, RowsSound, RowSound
<1>4. CASE cursor = p.seen
  <2>1. PICK f \in BOOLEAN : f = (n.after # 0)
    OBVIOUS
  <2>2. PICK new : new = [p EXCEPT !.pc = pc, !.seen = n, !.recheck = n.recheck, !.rescan = f]
    OBVIOUS
  <2>3. cursor' = n /\ pass' = [pass EXCEPT ![r] = new]
    BY <1>1, <1>4, <2>1, <2>2 DEF Store!Move, Store!Goes
  <2>4. /\ new \in PassRecords(s) /\ new.pc = pc /\ (new.rescan <=> f) /\ new.seen = n /\ new.recheck = n.recheck
        /\ new.started = p.started /\ new.next = p.next /\ (new.classified <=> p.classified) /\ (new.more <=> p.more)
        /\ new.processed = p.processed /\ new.last = p.last
    BY <1>0, <1>1, <2>1, <2>2 DEF PassRecords, PassSteps
  <2>5. f <=> n.after # 0
    BY <2>1
  <2>6. PassSound(s, new)
    BY <1>1, <2>4, <2>5 DEF PassSound
  <2>7. PassSound(s, new)' /\ Known(s, new)' /\ CursorSound(s)'
    BY <1>1, <1>2, <1>3, <2>3, <2>4, <2>6 DEF PassSound, Known, CursorSound, Soon
  <2>8. Satisfied(s, new) => Satisfied(s, pass[r])
    BY <1>1, <2>4, <2>5 DEF Satisfied
  <2>9. new.pc \in PassSteps
    BY <1>0, <2>4 DEF PassSteps
  <2> QED BY <1>2, <1>3, <2>3, <2>4, <2>7, <2>8, <2>9, PassGoesOn
<1>5. CASE cursor # p.seen
  <2>1. PICK new : new = [p EXCEPT !.pc = pc, !.rescan = TRUE]
    OBVIOUS
  <2>2. cursor' = cursor /\ pass' = [pass EXCEPT ![r] = new]
    BY <1>5, <2>1 DEF Store!Move, Store!Goes
  <2>3. /\ new \in PassRecords(s) /\ new.pc = pc /\ new.rescan /\ new.seen = p.seen /\ new.recheck = p.recheck
        /\ new.started = p.started /\ new.next = p.next /\ (new.classified <=> p.classified) /\ (new.more <=> p.more)
        /\ new.processed = p.processed /\ new.last = p.last
    BY <1>0, <2>1 DEF PassRecords, PassSteps
  <2>4. PassSound(s, new)
    BY <2>3 DEF PassSound
  <2>5. PassSound(s, new)' /\ Known(s, new)' /\ CursorSound(s)' /\ cursor' \in CursorRecords(s)
    BY <1>2, <1>3, <2>2, <2>3, <2>4 DEF PassSound, Known, StoreInvariant, StoreTyped, CursorSound, Soon
  <2>6. ~Satisfied(s, new)
    BY <1>0, <2>3 DEF Satisfied
  <2>7. new.pc \in PassSteps
    BY <1>0, <2>3 DEF PassSteps
  <2> QED BY <1>2, <1>3, <2>2, <2>3, <2>5, <2>6, <2>7, PassGoesOn
<1> QED BY <1>4, <1>5

LEMMA AdvanceKeeps ==
  ASSUME NEW s, StoreConstants(s), StoreInvariant(s), NEW r \in s.runtimes, Store(s)!Advance(r)
  PROVE  StoreInvariant(s)'
<1>1. /\ pass[r] \in PassRecords(s) /\ PassSound(s, pass[r]) /\ Known(s, pass[r]) /\ pass[r].pc = "advance"
      /\ Store(s)!Move(r, pass[r], "legacy") /\ Runs(r)
  BY PassOf DEF Store!Advance, Store!AtStep, Runs, Resting
<1> QED BY <1>1, MoveKeeps

LEMMA ScheduleScanKeeps ==
  ASSUME NEW s, StoreConstants(s), StoreInvariant(s), NEW r \in s.runtimes, Store(s)!ScheduleScan(r)
  PROVE  StoreInvariant(s)'
<1>1. PICK o \in PassRecords(s) : o = pass[r] /\ PassSound(s, o) /\ Known(s, o) /\ o.pc = "schedule"
  BY PassOf DEF Store!ScheduleScan, Store!AtStep
<1>2. /\ now + s.recheck \in Deadlines(s) /\ now + s.recheck # Never(s) /\ Soon(s, now + s.recheck)
  BY StoreFacts DEF StoreInvariant, StoreTyped, Times, Deadlines, Never, Soon
<1>3. PICK c : c = [after |-> 0, recheck |-> now + s.recheck]
  OBVIOUS
<1>4. c \in CursorRecords(s) /\ c.recheck = now + s.recheck
  BY <1>2, <1>3 DEF CursorRecords, Ids, Rechecks
<1>5. PICK p : p = [o EXCEPT !.next = c]
  OBVIOUS
<1>6. /\ p \in PassRecords(s) /\ p.pc = "schedule" /\ (p.rescan <=> o.rescan) /\ p.seen = o.seen /\ p.recheck = o.recheck
      /\ p.started = o.started /\ p.next = c /\ (p.classified <=> o.classified) /\ (p.more <=> o.more)
      /\ p.processed = o.processed /\ p.last = o.last
  BY <1>1, <1>4, <1>5 DEF PassRecords
<1>7. PassSound(s, p) /\ Known(s, p)
  BY <1>1, <1>2, <1>4, <1>6 DEF PassSound, Known
<1>8. Store(s)!Move(r, p, "next") /\ Runs(r)
  BY <1>1, <1>3, <1>5 DEF Store!ScheduleScan, Runs, Resting
<1>9. p.next.recheck # Never(s)
  BY <1>2, <1>4, <1>6
<1> QED BY <1>6, <1>7, <1>8, <1>9, MoveKeeps

-----------------------------------------------------------------------------
(* Retention: timers and notices                                           *)

\* A deadline is kept by runtime r.
Keeps(r, t) == WillLook(r, t) \/ \E d \in notices[r] : d <= t

\* A step of one runtime that leaves the rows alone.
LEMMA RuntimeGoesOn ==
  ASSUME NEW s, StoreConstants(s), StoreInvariant(s), NEW r \in s.runtimes,
         NEW p \in PassRecords(s), pass' = [pass EXCEPT ![r] = p], PassSound(s, p), Known(s, p),
         NEW t \in Rechecks(s), timer' = [timer EXCEPT ![r] = t],
         NEW u \in Rechecks(s), requested' = [requested EXCEPT ![r] = u],
         NEW N \in SUBSET Deadlines(s), notices' = [notices EXCEPT ![r] = N],
         UNCHANGED <<now, rows, cursor>>,
         p.pc = "ending" => s.overtaken \/ pass[r].pc = "ending",
         ~s.overtaken /\ ~s.losesReplies =>
           \A j \in Stored(s) : rows[j].state = "succeeded" /\ rows[j].until \in Deadlines(s) /\ Keeps(r, rows[j].until) =>
             Keeps(r, rows[j].until)',
         Holds(s, Unassigned) /\ WillLook(r, now) => WillLook(r, now)',
         Holds(s, Sentinel) /\ WillScan(s, r) => WillScan(s, r)'
  PROVE  StoreInvariant(s)'
<1>1. /\ pass'[r] = p /\ \A q \in s.runtimes : q # r => pass'[q] = pass[q]
      /\ pass' \in [s.runtimes -> PassRecords(s)]
  BY DEF StoreInvariant, StoreTyped
<1>2. /\ timer'[r] = t /\ \A q \in s.runtimes : q # r => timer'[q] = timer[q]
      /\ timer' \in [s.runtimes -> Rechecks(s)]
  BY DEF StoreInvariant, StoreTyped
<1>3. /\ notices'[r] = N /\ \A q \in s.runtimes : q # r => notices'[q] = notices[q]
      /\ notices' \in [s.runtimes -> SUBSET Deadlines(s)]
  BY DEF StoreInvariant, StoreTyped
<1>4. requested' \in [s.runtimes -> Rechecks(s)]
  BY DEF StoreInvariant, StoreTyped
<1>5. StoreTyped(s)'
  BY <1>1, <1>2, <1>3, <1>4 DEF StoreInvariant, StoreTyped, Times
<1>6. /\ RowsSound(s)' /\ CursorSound(s)' /\ \A until : Holds(s, until)' <=> Holds(s, until)
  BY DEF StoreInvariant, RowsSound, RowSound, CursorSound, Soon, Holds
<1>7. PassesSound(s)' /\ AllKnown(s)'
  <2>1. \A x : (PassSound(s, x)' <=> PassSound(s, x)) /\ (Known(s, x)' <=> Known(s, x))
    BY <1>6 DEF PassSound, Soon, Known
  <2> QED BY <1>1, <2>1 DEF StoreInvariant, PassesSound, AllKnown
<1>8. \A q \in s.runtimes : q # r =>
        /\ \A x : WillLook(q, x)' <=> WillLook(q, x)
        /\ \A x : Keeps(q, x) => Keeps(q, x)'
        /\ WillScan(s, q)' <=> WillScan(s, q)
  BY <1>1, <1>2, <1>3 DEF WillLook, Keeps, WillScan, Runs
<1>9. DeadlinesHeld(s)'
  <2> SUFFICES ASSUME ~s.overtaken, ~s.losesReplies
               PROVE  /\ NobodyEnds(s)'
                      /\ \A j \in Stored(s) : rows[j].state = "succeeded" /\ rows[j].until \in Deadlines(s) =>
                           \E q \in s.runtimes : Keeps(q, rows[j].until)'
    BY DEF DeadlinesHeld, Keeps
  <2>1. NobodyEnds(s)'
    BY <1>1 DEF StoreInvariant, DeadlinesHeld, NobodyEnds
  <2>2. ASSUME NEW j \in Stored(s), rows[j].state = "succeeded", rows[j].until \in Deadlines(s)
        PROVE  \E q \in s.runtimes : Keeps(q, rows[j].until)'
    <3>1. PICK q \in s.runtimes : Keeps(q, rows[j].until)
      BY <2>2 DEF StoreInvariant, DeadlinesHeld, Keeps
    <3>2. rows'[j] = rows[j]
      OBVIOUS
    <3>3. CASE q = r
      BY <2>2, <3>1, <3>3
    <3>4. CASE q # r
      <4>1. PICK x : x = rows[j].until
        OBVIOUS
      <4>2. Keeps(q, x)'
        BY <1>8, <3>1, <3>4, <4>1
      <4>3. Keeps(q, rows[j].until)'
        BY <3>2, <4>1, <4>2 DEF Keeps, WillLook
      <4> QED BY <4>3
    <3> QED BY <3>3, <3>4
  <2> QED BY <2>1, <2>2
<1>10. OlderHeld(s)'
  <2> SUFFICES ASSUME Holds(s, Unassigned) PROVE \E q \in s.runtimes : WillLook(q, now)'
    BY <1>6 DEF OlderHeld
  <2>1. PICK q \in s.runtimes : WillLook(q, now)
    BY DEF StoreInvariant, OlderHeld
  <2> QED BY <1>8, <2>1 DEF WillLook
<1>11. UnreadableHeld(s)'
  BY <1>6, <1>8 DEF StoreInvariant, UnreadableHeld
<1> QED BY <1>5, <1>6, <1>7, <1>9, <1>10, <1>11 DEF StoreInvariant

LEMMA RestIsSound ==
  ASSUME NEW s, StoreConstants(s), now \in Times(s), NEW p,
         \/ p = Store(s)!NoPass
         \/ p = [Store(s)!NoPass EXCEPT !.pc = "ending"] /\ s.overtaken
  PROVE  /\ p \in PassRecords(s) /\ PassSound(s, p) /\ Known(s, p) /\ p.pc \in Resting
         /\ p.pc = "ending" => s.overtaken
<1>1. PICK c : c = [after |-> 0, recheck |-> Never(s)]
  OBVIOUS
<1>2. PICK g : g = [pc |-> "due", started |-> 0, budget |-> s.batch, queue |-> <<>>, again |-> FALSE,
                    seen |-> c, next |-> c, found |-> 0, processed |-> 0, last |-> 0,
                    rescan |-> FALSE, recheck |-> Never(s), classified |-> FALSE, more |-> FALSE]
  OBVIOUS
<1>3. PICK f : f = [g EXCEPT !.pc = "idle"] /\ Store(s)!NoPass = f
  BY <1>1, <1>2, StoreNames DEF Store!NoPass, Store!FreshPass
<1>4. c \in CursorRecords(s) /\ c.recheck = Never(s)
  BY <1>1, StoreNames DEF CursorRecords, Ids, Rechecks
<1>5. g \in PassRecords(s)
  BY <1>2, <1>4, StoreFacts DEF PassRecords, PassSteps, Resting, Ids, Rechecks, Times
<1>6. /\ f \in PassRecords(s) /\ f.pc = "idle" /\ f.started = 0 /\ f.seen = c /\ f.next = c
      /\ f.recheck = Never(s) /\ ~f.classified /\ f.processed = 0
  <2>1. /\ f \in PassRecords(s) /\ f.pc = "idle" /\ f.started = g.started /\ f.seen = g.seen /\ f.next = g.next
        /\ f.recheck = g.recheck /\ f.classified = g.classified /\ f.processed = g.processed
    BY <1>3, <1>5 DEF PassRecords, Resting
  <2> QED BY <1>2, <2>1
<1>7. PassSound(s, f) /\ Known(s, f)
  BY <1>4, <1>6, StoreFacts DEF PassSound, Soon, Known, Times
<1>8. CASE p = f
  BY <1>6, <1>7, <1>8 DEF Resting
<1>9. CASE p = [f EXCEPT !.pc = "ending"] /\ s.overtaken
  <2>1. /\ p \in PassRecords(s) /\ p.pc = "ending" /\ (p.rescan <=> f.rescan) /\ p.seen = f.seen /\ p.recheck = f.recheck
        /\ p.started = f.started /\ p.next = f.next /\ (p.classified <=> f.classified) /\ (p.more <=> f.more)
        /\ p.processed = f.processed /\ p.last = f.last
    BY <1>6, <1>9 DEF PassRecords, Resting
  <2>2. PassSound(s, p) /\ Known(s, p)
    BY <1>6, <1>7, <2>1 DEF PassSound, Known
  <2> QED BY <1>9, <2>1, <2>2 DEF Resting
<1> QED BY <1>3, <1>8, <1>9

LEMMA SomeTimeIsEarliest ==
  ASSUME NEW T, T \subseteq Nat, T # {}
  PROVE  \E t \in T : \A x \in T : t <= x
<1> DEFINE smaller == {pair \in Nat \X Nat : pair[1] < pair[2]}
<1>1. IsWellFoundedOn(smaller, Nat)
  BY NatLessThanWellFounded DEF OpToRel
<1>2. \A x, t \in Nat : x < t => <<x, t>> \in smaller
  OBVIOUS
<1> HIDE DEF smaller
<1>3. PICK t \in T : \A x \in T : ~(<<x, t>> \in smaller)
  BY <1>1, WFMin
<1>4. \A x \in T : x \in Nat /\ t \in Nat /\ ~(x < t)
  BY <1>2, <1>3
<1>5. \A x \in T : t <= x
  BY <1>4
<1> QED BY <1>5

LEMMA EarlierOf ==
  ASSUME NEW s, StoreConstants(s), NEW a \in Rechecks(s), NEW b \in Rechecks(s)
  PROVE  /\ Store(s)!Earlier(a, b) \in Rechecks(s)
         /\ Store(s)!Earlier(a, b) <= a /\ Store(s)!Earlier(a, b) <= b
BY StoreFacts DEF Store!Earlier, Rechecks, Deadlines, Never

\* Another pass, or a timer that is in time for everything that this runtime kept.
LEMMA ChainKeeps ==
  ASSUME NEW s, StoreConstants(s), StoreInvariant(s), NEW r \in s.runtimes, Runs(r),
         NEW due \in Rechecks(s), Store(s)!Chain(r, due),
         Holds(s, Unassigned) => due <= now,
         Holds(s, Sentinel) /\ ~Satisfied(s, pass[r]) => due <= now + s.recheck,
         \A j \in Stored(s) : rows[j].state = "succeeded" /\ rows[j].until \in Deadlines(s) =>
            due <= rows[j].until \/ due <= now
  PROVE  StoreInvariant(s)'
<1>1. /\ now \in Times(s) /\ requested[r] \in Rechecks(s) /\ timer[r] \in Rechecks(s)
      /\ notices[r] \in SUBSET Deadlines(s) /\ Never(s) \in Rechecks(s)
      /\ requested' = [requested EXCEPT ![r] = Never(s)]
      /\ notices' = [notices EXCEPT ![r] = notices[r]]
      /\ UNCHANGED <<now, rows, cursor>>
  BY StoreNames DEF StoreInvariant, StoreTyped, Rechecks, Store!Chain
<1>2. CASE requested[r] <= now
  <2>1. PICK p : p = Store(s)!FreshPass(now)
    OBVIOUS
  <2>2. /\ p \in PassRecords(s) /\ PassSound(s, p) /\ Known(s, p) /\ ~Satisfied(s, p) /\ p.pc = "due"
    BY <1>1, <2>1, FreshPassIsSound
  <2>3. pass' = [pass EXCEPT ![r] = p] /\ timer' = [timer EXCEPT ![r] = timer[r]]
    BY <1>2, <2>1 DEF Store!Chain, Store!Goes, StoreInvariant, StoreTyped
  <2>4. pass'[r] = p
    BY <2>3 DEF StoreInvariant, StoreTyped
  <2>5. Runs(r)' /\ WillScan(s, r)'
    BY <2>2, <2>4 DEF Runs, Resting, WillScan
  <2>6. (\A x : Keeps(r, x)') /\ WillLook(r, now)'
    BY <2>5 DEF Keeps, WillLook
  <2>7. \A j \in Stored(s) : Keeps(r, rows[j].until)'
    BY <2>5 DEF Keeps, WillLook
  <2> QED BY <1>1, <2>2, <2>3, <2>5, <2>6, <2>7, RuntimeGoesOn
<1>3. CASE ~(requested[r] <= now)
  <2>1. PICK t \in Rechecks(s) : t = Store(s)!Earlier(requested[r], due) /\ t <= due
    BY <1>1, EarlierOf
  <2>2. PICK p : p = IF s.overtaken THEN [Store(s)!NoPass EXCEPT !.pc = "ending"] ELSE Store(s)!NoPass
    OBVIOUS
  <2>3. pass' = [pass EXCEPT ![r] = p] /\ timer' = [timer EXCEPT ![r] = t]
    BY <1>3, <2>1, <2>2 DEF Store!Chain, Store!Goes
  <2>4. /\ p \in PassRecords(s) /\ PassSound(s, p) /\ Known(s, p) /\ p.pc \in Resting /\ (p.pc = "ending" => s.overtaken)
    BY <2>2, RestIsSound DEF StoreInvariant, StoreTyped
  <2>5. pass'[r] = p /\ timer'[r] = t
    BY <2>3 DEF StoreInvariant, StoreTyped
  <2>6. t \in Int /\ due \in Int /\ now \in Int /\ t <= due
    BY <1>1, <2>1, StoreFacts DEF Rechecks, Deadlines, Never, Times
  <2>7. Holds(s, Unassigned) => WillLook(r, now)'
    BY <1>1, <2>5, <2>6 DEF WillLook
  <2>8. Holds(s, Sentinel) /\ WillScan(s, r) => WillScan(s, r)'
    <3>1. Holds(s, Sentinel) /\ WillScan(s, r) => t <= now + s.recheck
      BY <2>6, StoreFacts DEF WillScan
    <3> QED BY <1>1, <2>4, <2>5, <3>1 DEF WillScan, Runs
  <2>9. ASSUME NEW j \in Stored(s), rows[j].state = "succeeded", rows[j].until \in Deadlines(s)
        PROVE  Keeps(r, rows[j].until)'
    <3>1. due <= rows[j].until \/ due <= now
      BY <2>9
    <3>2. rows[j].until \in Int
      BY <2>9, StoreFacts DEF Deadlines
    <3>3. t <= rows[j].until \/ t <= now
      BY <2>6, <3>1, <3>2
    <3> QED BY <1>1, <2>5, <3>3 DEF Keeps, WillLook
  <2> QED BY <1>1, <2>3, <2>4, <2>7, <2>8, <2>9, RuntimeGoesOn
<1> QED BY <1>2, <1>3

LEMMA FinishKeeps ==
  ASSUME NEW s, StoreConstants(s), StoreInvariant(s), NEW r \in s.runtimes, Store(s)!Finish(r)
  PROVE  StoreInvariant(s)'
<1>1. PICK p \in PassRecords(s) : p = pass[r] /\ PassSound(s, p) /\ Known(s, p) /\ p.pc = "next"
  BY PassOf DEF Store!Finish, Store!AtStep
<1> DEFINE D == Store(s)!Dated
           T == {rows[j].until : j \in D}
<1>2. \A j \in Stored(s) : j \in D <=> rows[j].state = "succeeded" /\ rows[j].until \in Deadlines(s)
  BY StoreNames DEF Store!Dated, Stored
<1>3. D \subseteq Stored(s) /\ T \subseteq Deadlines(s)
  BY StoreNames DEF Store!Dated, Stored
<1>4. PICK deadline : deadline = IF D = {} THEN Never(s)
                                 ELSE CHOOSE d \in T : \A j \in D : d <= rows[j].until
  OBVIOUS
<1>5. deadline \in Rechecks(s) /\ \A j \in D : deadline <= rows[j].until
  <2>1. CASE D = {}
    BY <1>4, <2>1 DEF Rechecks
  <2>2. CASE D # {}
    <3>1. \E d \in T : \A x \in T : d <= x
      <4>1. T \subseteq Nat /\ T # {}
        BY <1>3, <2>2, StoreNames
      <4> HIDE DEF D, T
      <4> QED BY <4>1, SomeTimeIsEarliest
    <3>2. \E d \in T : \A j \in D : d <= rows[j].until
      BY <3>1
    <3> HIDE DEF D, T
    <3>3. deadline \in T /\ \A j \in D : deadline <= rows[j].until
      BY <1>4, <2>2, <3>2
    <3> QED BY <1>3, <3>3 DEF Rechecks
  <2> QED BY <2>1, <2>2
<1>6. PICK due : due = IF p.more \/ p.rescan THEN p.started ELSE Store(s)!Earlier(p.recheck, deadline)
  OBVIOUS
<1>7. Store(s)!Chain(r, due)
  BY <1>1, <1>4, <1>6, StoreNames DEF Store!Finish
<1> HIDE DEF D, T
<1>8. /\ p.started \in Times(s) /\ p.started <= now /\ p.recheck \in Rechecks(s) /\ Soon(s, p.recheck)
      /\ now \in Times(s) /\ now \in Int /\ now + s.recheck \in Int
  BY <1>1, StoreFacts DEF PassRecords, PassSound, StoreInvariant, StoreTyped, Times
<1>9. CASE p.more \/ p.rescan
  <2>1. due \in Rechecks(s) /\ due <= now /\ due <= now + s.recheck
    BY <1>6, <1>8, <1>9, StoreFacts, StoreNames DEF Rechecks, Times, Deadlines
  <2>2. Runs(r)
    BY <1>1 DEF Runs, Resting
  <2> QED BY <1>7, <2>1, <2>2, ChainKeeps
<1>10. CASE ~p.more /\ ~p.rescan
  <2>1. due \in Rechecks(s) /\ due <= p.recheck /\ due <= deadline
    BY <1>5, <1>6, <1>8, <1>10, EarlierOf
  <2>2. ~Holds(s, Unassigned)
    BY <1>1, <1>10 DEF Known
  <2>3. ~Satisfied(s, p) => due <= now + s.recheck
    <3>1. ~Satisfied(s, p) => p.recheck <= now + s.recheck
      BY <1>1, <1>8, <1>10 DEF Satisfied, Soon
    <3>2. due \in Int /\ p.recheck \in Int
      BY <1>8, <2>1, StoreFacts DEF Rechecks, Deadlines, Never
    <3> QED BY <1>8, <2>1, <3>1, <3>2
  <2>4. ASSUME NEW j \in Stored(s), rows[j].state = "succeeded", rows[j].until \in Deadlines(s)
        PROVE  due <= rows[j].until
    <3>1. deadline <= rows[j].until
      BY <1>2, <1>5, <2>4
    <3>2. due \in Int /\ deadline \in Int /\ rows[j].until \in Int
      BY <1>5, <2>1, <2>4, StoreFacts DEF Rechecks, Deadlines, Never
    <3> QED BY <2>1, <3>1, <3>2
  <2>5. Runs(r)
    BY <1>1 DEF Runs, Resting
  <2> QED BY <1>1, <1>7, <2>1, <2>2, <2>3, <2>4, <2>5, ChainKeeps
<1> QED BY <1>9, <1>10

LEMMA FailsKeeps ==
  ASSUME NEW s, StoreConstants(s), StoreInvariant(s), NEW r \in s.runtimes, Store(s)!Fails(r)
  PROVE  StoreInvariant(s)'
<1>1. Runs(r)
  BY DEF Store!Fails, Runs, Resting
<1>2. PICK due : due = now + Store(s)!RetryDelay
  OBVIOUS
<1>3. Store(s)!Chain(r, due)
  BY <1>2 DEF Store!Fails
<1>4. due = now /\ due \in Rechecks(s) /\ due <= now /\ due <= now + s.recheck
  BY <1>2, StoreFacts, StoreNames DEF StoreInvariant, StoreTyped, Times, Rechecks, Deadlines
<1> QED BY <1>1, <1>3, <1>4, ChainKeeps

LEMMA PromiseClearedKeeps ==
  ASSUME NEW s, StoreConstants(s), StoreInvariant(s), NEW r \in s.runtimes, Store(s)!PromiseCleared(r)
  PROVE  StoreInvariant(s)'
<1>1. PICK p : p = Store(s)!NoPass
  OBVIOUS
<1>2. /\ pass[r].pc = "ending" /\ pass' = [pass EXCEPT ![r] = p]
      /\ UNCHANGED <<now, rows, cursor, timer, requested, notices>>
  BY <1>1 DEF Store!PromiseCleared, Store!AtStep, Store!Locally, Store!Goes, Store!control
<1>3. /\ p \in PassRecords(s) /\ PassSound(s, p) /\ Known(s, p) /\ p.pc \in Resting /\ (p.pc = "ending" => s.overtaken)
  BY <1>1, RestIsSound DEF StoreInvariant, StoreTyped
<1>4. /\ timer[r] \in Rechecks(s) /\ timer' = [timer EXCEPT ![r] = timer[r]]
      /\ requested[r] \in Rechecks(s) /\ requested' = [requested EXCEPT ![r] = requested[r]]
      /\ notices[r] \in SUBSET Deadlines(s) /\ notices' = [notices EXCEPT ![r] = notices[r]]
  BY <1>2 DEF StoreInvariant, StoreTyped
<1>5. pass'[r] = p /\ ~Runs(r) /\ ~Runs(r)'
  BY <1>2, <1>3 DEF StoreInvariant, StoreTyped, Runs, Resting
<1>6. /\ WillLook(r, now) => WillLook(r, now)'
      /\ WillScan(s, r) => WillScan(s, r)'
      /\ \A j \in Stored(s) : Keeps(r, rows[j].until) => Keeps(r, rows[j].until)'
  BY <1>2, <1>5 DEF Keeps, WillLook, WillScan
<1> QED BY <1>2, <1>3, <1>4, <1>6, RuntimeGoesOn

\* A pass starts: the runtime looks at everything.
LEMMA StartKeeps ==
  ASSUME NEW s, StoreConstants(s), StoreInvariant(s), NEW r \in s.runtimes,
         Store(s)!Goes(r, Store(s)!FreshPass(now)),
         timer' = [timer EXCEPT ![r] = Store(s)!Never],
         requested' = [requested EXCEPT ![r] = Store(s)!Never],
         NEW N \in SUBSET Deadlines(s), notices' = [notices EXCEPT ![r] = N],
         UNCHANGED <<now, rows, cursor>>
  PROVE  StoreInvariant(s)'
<1>1. PICK p : p = Store(s)!FreshPass(now)
  OBVIOUS
<1>2. /\ p \in PassRecords(s) /\ PassSound(s, p) /\ Known(s, p) /\ ~Satisfied(s, p) /\ p.pc = "due"
  BY <1>1, FreshPassIsSound DEF StoreInvariant, StoreTyped
<1>3. /\ pass' = [pass EXCEPT ![r] = p]
      /\ Never(s) \in Rechecks(s) /\ timer' = [timer EXCEPT ![r] = Never(s)]
      /\ requested' = [requested EXCEPT ![r] = Never(s)]
  BY <1>1, StoreNames DEF Store!Goes, Rechecks
<1>4. pass'[r] = p
  BY <1>3 DEF StoreInvariant, StoreTyped
<1>5. Runs(r)' /\ WillScan(s, r)'
  BY <1>2, <1>4 DEF Runs, Resting, WillScan
<1>6. WillLook(r, now)' /\ \A j \in Stored(s) : Keeps(r, rows[j].until)'
  BY <1>5 DEF Keeps, WillLook
<1> QED BY <1>2, <1>3, <1>5, <1>6, RuntimeGoesOn

LEMMA TimerFiresKeeps ==
  ASSUME NEW s, StoreConstants(s), StoreInvariant(s), NEW r \in s.runtimes, Store(s)!TimerFires(r)
  PROVE  StoreInvariant(s)'
<1>1. notices[r] \in SUBSET Deadlines(s) /\ notices' = [notices EXCEPT ![r] = notices[r]]
  BY DEF StoreInvariant, StoreTyped, Store!TimerFires
<1> QED BY <1>1, StartKeeps DEF Store!TimerFires

LEMMA RestartKeeps ==
  ASSUME NEW s, StoreConstants(s), StoreInvariant(s), NEW r \in s.runtimes, Store(s)!Restart(r)
  PROVE  StoreInvariant(s)'
<1>1. {} \in SUBSET Deadlines(s)
  OBVIOUS
<1> QED BY <1>1, StartKeeps DEF Store!Restart

LEMMA NoticeKeeps ==
  ASSUME NEW s, StoreConstants(s), StoreInvariant(s), NEW r \in s.runtimes,
         NEW due \in notices[r], Store(s)!Notice(r, due)
  PROVE  StoreInvariant(s)'
<1>1. /\ pass[r] \in PassRecords(s) /\ PassSound(s, pass[r]) /\ Known(s, pass[r])
      /\ timer[r] \in Rechecks(s) /\ requested[r] \in Rechecks(s)
      /\ notices[r] \ {due} \in SUBSET Deadlines(s) /\ due \in Deadlines(s) /\ due \in Rechecks(s)
  BY PassOf DEF StoreInvariant, StoreTyped, Rechecks
<1>2. /\ pass' = [pass EXCEPT ![r] = pass[r]] /\ UNCHANGED <<now, rows, cursor, pass>>
      /\ notices' = [notices EXCEPT ![r] = notices[r] \ {due}]
  BY DEF Store!Notice, StoreInvariant, StoreTyped
<1>3. notices'[r] = notices[r] \ {due} /\ (Runs(r)' <=> Runs(r))
  BY <1>2 DEF StoreInvariant, StoreTyped, Runs
<1>4. CASE pass[r].pc = "idle"
  <2>1. PICK t \in Rechecks(s) : t = Store(s)!Earlier(timer[r], due) /\ t <= timer[r] /\ t <= due
    BY <1>1, EarlierOf
  <2>2. timer' = [timer EXCEPT ![r] = t] /\ requested' = [requested EXCEPT ![r] = requested[r]]
    BY <1>4, <2>1 DEF Store!Notice, Store!AtStep, StoreInvariant, StoreTyped
  <2>3. timer'[r] = t
    BY <2>2 DEF StoreInvariant, StoreTyped
  <2>4. t \in Int /\ timer[r] \in Int /\ due \in Int /\ now \in Int /\ s.recheck \in Int
    BY <1>1, <2>1, StoreFacts DEF Rechecks, Deadlines, Never, StoreInvariant, StoreTyped, Times
  <2>5. WillLook(r, now) => WillLook(r, now)'
    BY <1>2, <1>3, <2>1, <2>3, <2>4 DEF WillLook
  <2>6. WillScan(s, r) => WillScan(s, r)'
    <3>1. timer[r] <= now + s.recheck => t <= now + s.recheck
      BY <2>1, <2>4
    <3>2. ~Runs(r)
      BY <1>4 DEF Runs, Resting
    <3> QED BY <1>2, <1>3, <2>3, <3>1, <3>2 DEF WillScan
  <2>7. ASSUME NEW j \in Stored(s), rows[j].until \in Deadlines(s), Keeps(r, rows[j].until)
        PROVE  Keeps(r, rows[j].until)'
    <3>1. PICK x \in Int : x = rows[j].until
      BY <2>7, StoreFacts DEF Deadlines
    <3>2. WillLook(r, x) \/ due <= x => WillLook(r, x)'
      BY <1>2, <1>3, <2>1, <2>3, <2>4 DEF WillLook
    <3>3. Keeps(r, x) => Keeps(r, x)'
      BY <1>3, <3>2 DEF Keeps
    <3>4. rows'[j].until = x
      BY <1>2, <3>1
    <3> QED BY <2>7, <3>1, <3>3, <3>4 DEF Keeps, WillLook
  <2>8. pass[r].pc # "ending"
    BY <1>4
  <2> QED BY <1>1, <1>2, <2>2, <2>5, <2>6, <2>7, <2>8, RuntimeGoesOn
<1>5. CASE pass[r].pc # "idle"
  <2>1. PICK t \in Rechecks(s) : t = Store(s)!Earlier(requested[r], due)
    BY <1>1, EarlierOf
  <2>2. /\ requested' = [requested EXCEPT ![r] = t] /\ UNCHANGED timer
        /\ timer' = [timer EXCEPT ![r] = timer[r]]
    BY <1>5, <2>1 DEF Store!Notice, Store!AtStep, StoreInvariant, StoreTyped
  <2>3. (WillLook(r, now) => WillLook(r, now)') /\ (WillScan(s, r) => WillScan(s, r)')
    BY <1>2, <1>3, <2>2 DEF WillLook, WillScan, Runs
  <2>4. ~s.overtaken /\ ~s.losesReplies => Runs(r)'
    BY <1>3, <1>5 DEF StoreInvariant, DeadlinesHeld, NobodyEnds, Runs, Resting
  <2>5. ~s.overtaken /\ ~s.losesReplies => \A j \in Stored(s) : Keeps(r, rows[j].until)'
    BY <2>4 DEF Keeps, WillLook
  <2> QED BY <1>1, <1>2, <2>1, <2>2, <2>3, <2>5, RuntimeGoesOn
<1> QED BY <1>4, <1>5

LEMMA ReplyLostKeeps ==
  ASSUME NEW s, StoreConstants(s), StoreInvariant(s), NEW r \in s.runtimes,
         NEW due \in notices[r], Store(s)!ReplyLost(r, due)
  PROVE  StoreInvariant(s)'
<1>1. /\ pass[r] \in PassRecords(s) /\ PassSound(s, pass[r]) /\ Known(s, pass[r])
      /\ timer[r] \in Rechecks(s) /\ requested[r] \in Rechecks(s)
      /\ notices[r] \ {due} \in SUBSET Deadlines(s)
  BY PassOf DEF StoreInvariant, StoreTyped
<1>2. /\ pass' = [pass EXCEPT ![r] = pass[r]] /\ UNCHANGED <<now, rows, cursor, pass, timer>>
      /\ notices' = [notices EXCEPT ![r] = notices[r] \ {due}] /\ s.losesReplies
      /\ timer' = [timer EXCEPT ![r] = timer[r]] /\ requested' = [requested EXCEPT ![r] = requested[r]]
  BY DEF Store!ReplyLost, StoreInvariant, StoreTyped
<1>3. (WillLook(r, now) => WillLook(r, now)') /\ (WillScan(s, r) => WillScan(s, r)')
  BY <1>2 DEF WillLook, WillScan, Runs
<1> QED BY <1>1, <1>2, <1>3, RuntimeGoesOn

-----------------------------------------------------------------------------
(* Retention: settlements, repairs, time, and the invariant                *)

\* A step that changes one row and no pass.
LEMMA RowChanges ==
  ASSUME NEW s, StoreConstants(s), StoreInvariant(s), NEW j \in Stored(s),
         NEW x \in RowRecords(s), rows' = [rows EXCEPT ![j] = x], RowSound(s, x),
         UNCHANGED <<now, cursor, pass, timer, requested>>,
         notices' \in [s.runtimes -> SUBSET Deadlines(s)], \A r \in s.runtimes : notices[r] \subseteq notices'[r],
         (x.until = rows[j].until /\ x.state = rows[j].state) \/ x.until \in Deadlines(s),
         \/ x.until = rows[j].until /\ x.state = rows[j].state
         \/ \E r \in s.runtimes : x.until \in notices'[r]
  PROVE  StoreInvariant(s)'
<1>1. rows'[j] = x /\ (\A i \in Stored(s) : i # j => rows'[i] = rows[i]) /\ rows' \in [Stored(s) -> RowRecords(s)]
  BY DEF StoreInvariant, StoreTyped
<1>2. StoreTyped(s)'
  BY <1>1 DEF StoreInvariant, StoreTyped, Times
<1>3. RowsSound(s)' /\ CursorSound(s)'
  BY <1>1 DEF StoreInvariant, RowsSound, RowSound, CursorSound, Soon
<1>4. \A u : u \notin Deadlines(s) => (Holds(s, u)' => Holds(s, u))
  BY <1>1 DEF Holds
<1>5. Unassigned \notin Deadlines(s) /\ Sentinel \notin Deadlines(s)
  BY StoreFacts, StoreNames
<1>6. (Holds(s, Unassigned)' => Holds(s, Unassigned)) /\ (Holds(s, Sentinel)' => Holds(s, Sentinel))
  BY <1>4, <1>5
<1>7. PassesSound(s)' /\ AllKnown(s)'
  BY <1>6 DEF StoreInvariant, PassesSound, PassSound, Soon, AllKnown, Known
<1>8. \A r \in s.runtimes : /\ \A t : WillLook(r, t)' <=> WillLook(r, t)
                            /\ WillScan(s, r)' <=> WillScan(s, r)
                            /\ \A t : Keeps(r, t) => Keeps(r, t)'
  BY DEF WillLook, WillScan, Runs, Keeps
<1>9. OlderHeld(s)' /\ UnreadableHeld(s)'
  BY <1>6, <1>8 DEF StoreInvariant, OlderHeld, UnreadableHeld, WillLook, Runs
<1>10. DeadlinesHeld(s)'
  <2> SUFFICES ASSUME ~s.overtaken, ~s.losesReplies
               PROVE  /\ NobodyEnds(s)'
                      /\ \A i \in Stored(s) : rows'[i].state = "succeeded" /\ rows'[i].until \in Deadlines(s) =>
                           \E q \in s.runtimes : Keeps(q, rows[i].until)'
    BY DEF DeadlinesHeld, Keeps
  <2>1. NobodyEnds(s)'
    BY DEF StoreInvariant, DeadlinesHeld, NobodyEnds
  <2>2. ASSUME NEW i \in Stored(s), rows'[i].state = "succeeded", rows'[i].until \in Deadlines(s)
        PROVE  \E q \in s.runtimes : Keeps(q, rows[i].until)'
    <3>1. PICK t \in Int : t = rows'[i].until
      BY <2>2, StoreFacts DEF Deadlines
    <3>2. CASE rows'[i].until = rows[i].until /\ rows'[i].state = rows[i].state
      <4>1. PICK q \in s.runtimes : Keeps(q, t)
        BY <2>2, <3>1, <3>2 DEF StoreInvariant, DeadlinesHeld, Keeps
      <4>2. Keeps(q, t)'
        BY <1>8, <4>1
      <4> QED BY <3>1, <4>2 DEF Keeps, WillLook
    <3>3. CASE ~(rows'[i].until = rows[i].until /\ rows'[i].state = rows[i].state)
      <4>1. i = j
        BY <1>1, <3>3
      <4>2. PICK q \in s.runtimes : t \in notices'[q]
        BY <1>1, <3>1, <3>3, <4>1
      <4>3. t <= t
        OBVIOUS
      <4> QED BY <3>1, <4>2, <4>3 DEF Keeps
    <3> QED BY <3>2, <3>3
  <2> QED BY <2>1, <2>2
<1> QED BY <1>2, <1>3, <1>7, <1>9, <1>10 DEF StoreInvariant

LEMMA SettleKeeps ==
  ASSUME NEW s, StoreConstants(s), StoreInvariant(s), NEW r \in s.runtimes,
         NEW j \in Stored(s), Store(s)!Settle(r, j)
  PROVE  StoreInvariant(s)'
<1>1. now \in Times(s) /\ now # Bad /\ now + s.retention \in Deadlines(s)
  BY StoreFacts DEF StoreInvariant, StoreTyped, Times, Deadlines
<1>2. PICK d \in Deadlines(s) : d = now + s.retention /\ Store(s)!Deadline(now) = d
  BY <1>1 DEF Store!Deadline
<1>3. PICK x : x = [state |-> "succeeded", completed |-> now, until |-> d]
  OBVIOUS
<1>4. /\ rows' = [rows EXCEPT ![j] = x] /\ notices' = [notices EXCEPT ![r] = @ \cup {d}]
      /\ UNCHANGED <<now, cursor, pass, timer, requested>>
  BY <1>2, <1>3 DEF Store!Settle
<1>5. x \in RowRecords(s) /\ x.until = d /\ RowSound(s, x)
  BY <1>1, <1>2, <1>3 DEF RowRecords, Completions, Untils, RowSound, Times
<1>6. /\ notices' \in [s.runtimes -> SUBSET Deadlines(s)] /\ d \in notices'[r]
      /\ \A q \in s.runtimes : notices[q] \subseteq notices'[q]
  BY <1>4 DEF StoreInvariant, StoreTyped
<1> QED BY <1>4, <1>5, <1>6, RowChanges

LEMMA RepairKeeps ==
  ASSUME NEW s, StoreConstants(s), StoreInvariant(s), NEW j \in Stored(s), Store(s)!Repair(j)
  PROVE  StoreInvariant(s)'
<1>1. PICK t \in {0, now} : rows' = [rows EXCEPT ![j].completed = t]
  BY DEF Store!Repair
<1>2. PICK y \in RowRecords(s) : y = rows[j] /\ y.completed = Bad /\ RowSound(s, y)
  BY DEF StoreInvariant, StoreTyped, RowsSound, Store!Repair
<1>3. PICK x : x = [y EXCEPT !.completed = t]
  OBVIOUS
<1>4. rows' = [rows EXCEPT ![j] = x] /\ UNCHANGED <<now, cursor, pass, timer, requested, notices>>
  BY <1>1, <1>2, <1>3 DEF Store!Repair, Store!control
<1>5. t \in Times(s) /\ t <= now
  BY StoreFacts DEF StoreInvariant, StoreTyped, Times
<1>6. x \in RowRecords(s) /\ x.until = y.until /\ x.state = y.state /\ x.completed = t
  BY <1>2, <1>3, <1>5 DEF RowRecords, Completions
<1>7. RowSound(s, x)
  BY <1>2, <1>5, <1>6 DEF RowSound
<1>8. notices' \in [s.runtimes -> SUBSET Deadlines(s)] /\ \A q \in s.runtimes : notices[q] \subseteq notices'[q]
  BY <1>4 DEF StoreInvariant, StoreTyped
<1> QED BY <1>2, <1>4, <1>6, <1>7, <1>8, RowChanges

LEMMA TickKeeps ==
  ASSUME NEW s, StoreConstants(s), StoreInvariant(s), Store(s)!Tick
  PROVE  StoreInvariant(s)'
<1>1. /\ now \in Times(s) /\ now' = now + 1 /\ now' \in Times(s) /\ now \in Int /\ now' \in Int /\ s.recheck \in Int
      /\ UNCHANGED <<rows, cursor, pass, timer, requested, notices>>
      /\ \A r \in s.runtimes : timer[r] > now /\ timer[r] \in Int
  BY StoreFacts DEF Store!Tick, StoreInvariant, StoreTyped, Times, Store!control, Rechecks, Deadlines, Never
<1>2. StoreTyped(s)'
  BY <1>1 DEF StoreInvariant, StoreTyped
<1>3. \A i \in Stored(s) : rows[i].completed # Bad => rows[i].completed \in Int
  BY StoreFacts DEF StoreInvariant, StoreTyped, RowRecords, Completions, Times
<1>4. RowsSound(s)'
  BY <1>1, <1>3 DEF StoreInvariant, RowsSound, RowSound
<1>5. \A t \in Rechecks(s) : Soon(s, t) => Soon(s, t)'
  BY <1>1, StoreFacts DEF Soon, Rechecks, Deadlines, Never
<1>6. CursorSound(s)'
  BY <1>1, <1>5 DEF StoreInvariant, StoreTyped, CursorRecords, CursorSound
<1>7. PassesSound(s)'
  <2>1. ASSUME NEW p \in PassRecords(s), PassSound(s, p) PROVE PassSound(s, p)'
    <3>1. p.recheck \in Rechecks(s) /\ p.seen.recheck \in Rechecks(s) /\ p.next.recheck \in Rechecks(s) /\ p.started \in Int
      BY StoreFacts DEF PassRecords, CursorRecords, Times
    <3>2. p.started <= now'
      BY <1>1, <2>1, <3>1 DEF PassSound
    <3> QED BY <1>5, <2>1, <3>1, <3>2 DEF PassSound
  <2> QED BY <1>1, <2>1 DEF StoreInvariant, StoreTyped, PassesSound
<1>8. (\A u : Holds(s, u)' <=> Holds(s, u)) /\ AllKnown(s)'
  BY <1>1 DEF StoreInvariant, Holds, AllKnown, Known
<1>9. \A r \in s.runtimes : /\ \A t \in Int : WillLook(r, t) => WillLook(r, t)'
                            /\ WillScan(s, r) => WillScan(s, r)'
                            /\ \A t \in Int : Keeps(r, t) => Keeps(r, t)'
  BY <1>1 DEF WillLook, WillScan, Runs, Keeps
<1>10. OlderHeld(s)'
  BY <1>1, <1>8, <1>9 DEF StoreInvariant, OlderHeld, WillLook, Runs
<1>11. UnreadableHeld(s)'
  BY <1>8, <1>9 DEF StoreInvariant, UnreadableHeld
<1>12. DeadlinesHeld(s)'
  <2> SUFFICES ASSUME ~s.overtaken, ~s.losesReplies
               PROVE  /\ NobodyEnds(s)'
                      /\ \A i \in Stored(s) : rows[i].state = "succeeded" /\ rows[i].until \in Deadlines(s) =>
                           \E q \in s.runtimes : Keeps(q, rows[i].until)'
    BY <1>1 DEF DeadlinesHeld, Keeps
  <2>1. NobodyEnds(s)'
    BY <1>1 DEF StoreInvariant, DeadlinesHeld, NobodyEnds
  <2>2. ASSUME NEW i \in Stored(s), rows[i].state = "succeeded", rows[i].until \in Deadlines(s)
        PROVE  \E q \in s.runtimes : Keeps(q, rows[i].until)'
    <3>1. PICK t \in Int : t = rows[i].until /\ t = rows'[i].until
      BY <1>1, <2>2, StoreFacts DEF Deadlines
    <3>2. PICK q \in s.runtimes : Keeps(q, t)
      BY <2>2, <3>1 DEF StoreInvariant, DeadlinesHeld, Keeps
    <3>3. Keeps(q, t)'
      BY <1>9, <3>2
    <3> QED BY <3>1, <3>3 DEF Keeps, WillLook
  <2> QED BY <2>1, <2>2
<1> QED BY <1>2, <1>4, <1>6, <1>7, <1>8, <1>10, <1>11, <1>12 DEF StoreInvariant

LEMMA StoreStutters ==
  ASSUME NEW s, StoreInvariant(s), UNCHANGED retentionVars
  PROVE  StoreInvariant(s)'
<1>1. UNCHANGED <<now, rows, cursor, pass, timer, requested, notices>>
  BY DEF retentionVars
<1>2. StoreTyped(s)' /\ RowsSound(s)' /\ CursorSound(s)' /\ PassesSound(s)' /\ AllKnown(s)'
  BY <1>1 DEF StoreInvariant, StoreTyped, Times, RowsSound, RowSound, CursorSound, Soon, PassesSound, PassSound,
              AllKnown, Known, Holds
<1>3. DeadlinesHeld(s)' /\ OlderHeld(s)' /\ UnreadableHeld(s)'
  BY <1>1 DEF StoreInvariant, DeadlinesHeld, NobodyEnds, OlderHeld, UnreadableHeld, Holds, WillLook, WillScan, Runs
<1> QED BY <1>2, <1>3 DEF StoreInvariant

LEMMA StoreStarts ==
  ASSUME NEW s, StoreConstants(s), Store(s)!Init
  PROVE  StoreInvariant(s)
<1>1. /\ now = 0 /\ 0 \in Times(s) /\ Never(s) \in Rechecks(s) /\ cursor = [after |-> 0, recheck |-> Never(s)]
      /\ timer = [r \in s.runtimes |-> Never(s)] /\ requested = [r \in s.runtimes |-> Never(s)]
      /\ notices = [r \in s.runtimes |-> {}]
  BY StoreFacts, StoreNames DEF Store!Init, Times, Rechecks
<1>2. PICK p : p = Store(s)!FreshPass(now)
  OBVIOUS
<1>3. /\ p \in PassRecords(s) /\ PassSound(s, p) /\ Known(s, p) /\ ~Satisfied(s, p) /\ p.pc = "due"
  BY <1>1, <1>2, FreshPassIsSound
<1>4. pass = [r \in s.runtimes |-> p] /\ \A r \in s.runtimes : pass[r] = p
  BY <1>1, <1>2 DEF Store!Init
<1>5. cursor \in CursorRecords(s) /\ cursor.recheck = Never(s)
  BY <1>1 DEF CursorRecords, Ids
<1>6. \A j \in Stored(s) : /\ rows[j] \in RowRecords(s) /\ rows[j].until = Unassigned
                           /\ rows[j].completed \in {0, Bad}
  BY <1>1, StoreFacts DEF Store!Init, Stored, RowRecords, Completions, Untils
<1>7. rows \in [Stored(s) -> RowRecords(s)]
  BY <1>6 DEF Store!Init, Stored
<1>8. StoreTyped(s)
  BY <1>1, <1>3, <1>4, <1>5, <1>7 DEF StoreTyped
<1>9. RowsSound(s) /\ CursorSound(s)
  BY <1>1, <1>5, <1>6, StoreFacts, StoreNames DEF RowsSound, RowSound, CursorSound, Soon
<1>10. PassesSound(s) /\ AllKnown(s) /\ NobodyEnds(s)
  BY <1>3, <1>4 DEF PassesSound, AllKnown, NobodyEnds
<1>11. \A r \in s.runtimes : Runs(r) /\ WillScan(s, r)
  BY <1>3, <1>4 DEF Runs, Resting, WillScan
<1>12. PICK r \in s.runtimes : TRUE
  BY StoreFacts
<1> QED BY <1>8, <1>9, <1>10, <1>11, <1>12 DEF StoreInvariant, DeadlinesHeld, OlderHeld, UnreadableHeld, WillLook

LEMMA StoreMoves ==
  ASSUME NEW s, StoreConstants(s), StoreInvariant(s), Store(s)!Next
  PROVE  StoreInvariant(s)'
<1>1. ASSUME NEW r \in s.runtimes, Store(s)!Statement(r) PROVE StoreInvariant(s)'
  <2>1. CASE Store(s)!ReadDue(r) \/ Store(s)!Redact(r) \/ Store(s)!ReadCursor(r) \/ Store(s)!ReadPage(r)
    BY <2>1, ReadDueKeeps, RedactKeeps, ReadCursorKeeps, ReadPageKeeps
  <2>2. CASE Store(s)!GiveDeadline(r, "scan", "rescan") \/ Store(s)!GiveDeadline(r, "assign", "reassign")
    BY <2>2, GiveDeadlineKeeps
  <2>3. CASE Store(s)!Reread(r, "rescan", "scan") \/ Store(s)!Reread(r, "reassign", "assign")
    BY <2>3, RereadKeeps
  <2>4. CASE Store(s)!Survey(r) \/ Store(s)!Advance(r) \/ Store(s)!ReadOlder(r) \/ Store(s)!LookForMore(r)
    BY <2>4, SurveyKeeps, AdvanceKeeps, ReadOlderKeeps, LookForMoreKeeps
  <2>5. CASE Store(s)!ScheduleScan(r) \/ Store(s)!Finish(r) \/ Store(s)!PromiseCleared(r)
    BY <2>5, ScheduleScanKeeps, FinishKeeps, PromiseClearedKeeps
  <2> QED BY <1>1, <2>1, <2>2, <2>3, <2>4, <2>5 DEF Store!Statement
<1>2. ASSUME NEW r \in s.runtimes, Store(s)!Fails(r) \/ Store(s)!TimerFires(r) \/ Store(s)!Restart(r)
      PROVE  StoreInvariant(s)'
  BY <1>2, FailsKeeps, TimerFiresKeeps, RestartKeeps
<1>3. ASSUME NEW r \in s.runtimes, NEW j \in Stored(s), Store(s)!Settle(r, j) PROVE StoreInvariant(s)'
  BY <1>3, SettleKeeps
<1>4. ASSUME NEW r \in s.runtimes, NEW due \in notices[r], Store(s)!Notice(r, due) \/ Store(s)!ReplyLost(r, due)
      PROVE  StoreInvariant(s)'
  BY <1>4, NoticeKeeps, ReplyLostKeeps
<1>5. ASSUME NEW j \in Stored(s), Store(s)!Repair(j) PROVE StoreInvariant(s)'
  BY <1>5, RepairKeeps
<1>6. CASE Store(s)!Tick
  BY <1>6, TickKeeps
<1> QED BY <1>1, <1>2, <1>3, <1>4, <1>5, <1>6 DEF Store!Next, Stored

\* What the invariant says in the words of the module.
LEMMA StoreIsKept ==
  ASSUME NEW s, StoreConstants(s), StoreInvariant(s)
  PROVE  /\ Store(s)!TypeOK /\ Store(s)!BacklogIsKept
         /\ ~s.overtaken /\ ~s.losesReplies => Store(s)!DeadlinesAreKept
<1>1. /\ Rechecks(s) = Store(s)!Instants \cup {Store(s)!Never} /\ Times(s) \subseteq Deadlines(s)
      /\ Store(s)!Instants = Deadlines(s)
  BY StoreNames DEF Rechecks
<1>2. Store(s)!TypeOK
  <2>1. now \in 0..s.time
    BY DEF StoreInvariant, StoreTyped, Times
  <2>2. rows \in [Stored(s) -> Store(s)!Rows]
    <3>1. RowRecords(s) \subseteq Store(s)!Rows
      BY <1>1 DEF RowRecords, Store!Rows, Completions, Untils
    <3> QED BY <3>1 DEF StoreInvariant, StoreTyped
  <2>3. cursor \in Store(s)!Cursors
    BY <1>1 DEF StoreInvariant, StoreTyped, CursorRecords, Store!Cursors, Ids, Stored
  <2>4. ASSUME NEW r \in s.runtimes
        PROVE  /\ pass[r].pc \in Store(s)!Steps /\ pass[r].budget \in 0..s.batch
               /\ timer[r] \in Store(s)!Instants \cup {Store(s)!Never}
               /\ requested[r] \in Store(s)!Instants \cup {Store(s)!Never}
               /\ notices[r] \subseteq Store(s)!Instants
    BY <1>1 DEF StoreInvariant, StoreTyped, PassRecords, PassSteps, Resting, Store!Steps
  <2> QED BY <2>1, <2>2, <2>3, <2>4 DEF Store!TypeOK, Stored
<1>3. \A r \in s.runtimes : timer[r] \in Int /\ now \in Int /\ s.recheck \in Int /\ s.recheck >= 0
  BY StoreFacts DEF StoreInvariant, StoreTyped, Rechecks, Deadlines, Never, Times
<1>4. \A r \in s.runtimes, t \in Int : WillLook(r, t) => Store(s)!Looks(r, t)
  BY <1>3 DEF WillLook, Runs, Resting, Store!Looks, Store!Later
<1>5. Store(s)!BacklogIsKept
  <2>1. Holds(s, Unassigned) => \E r \in s.runtimes : Store(s)!Looks(r, now)
    BY <1>3, <1>4 DEF StoreInvariant, OlderHeld
  <2>2. \A r \in s.runtimes : WillScan(s, r) => WillLook(r, now + s.recheck)
    BY DEF WillScan, WillLook
  <2>3. Holds(s, Sentinel) => \E r \in s.runtimes : Store(s)!Looks(r, now + s.recheck)
    BY <1>3, <1>4, <2>2 DEF StoreInvariant, UnreadableHeld
  <2> QED BY <2>1, <2>3, StoreNames DEF Store!BacklogIsKept
<1>6. ASSUME ~s.overtaken, ~s.losesReplies PROVE Store(s)!DeadlinesAreKept
  <2>1. ASSUME NEW j \in Store(s)!Dated
        PROVE  \E r \in s.runtimes : Store(s)!Looks(r, rows[j].until) \/ \E d \in notices[r] : d <= rows[j].until
    <3>1. j \in Stored(s) /\ rows[j].state = "succeeded" /\ rows[j].until \in Deadlines(s)
      BY <1>1 DEF Store!Dated, Stored
    <3>2. rows[j].until \in Int
      BY <3>1, StoreFacts DEF Deadlines
    <3> QED BY <1>4, <1>6, <3>1, <3>2 DEF StoreInvariant, DeadlinesHeld
  <2> QED BY <2>1 DEF Store!DeadlinesAreKept
<1> QED BY <1>2, <1>5, <1>6

\* The parts of MCStripe that run the maintenance, and their constants.
StorePart(name, s) == part = name => StoreInvariant(s)

LEMMA StorePartsStart ==
  ASSUME MCInit
  PROVE  /\ StorePart("two runtimes", Runtimes2) /\ StorePart("fair runtime", FairRuntime)
         /\ StorePart("pages", Pages)
<1>1. StoreConstants(Runtimes2) /\ StoreConstants(FairRuntime) /\ StoreConstants(Pages)
  BY StoreAssumption DEF StoreConstants
<1>2. /\ part = "two runtimes" => Store(Runtimes2)!Init
      /\ part = "fair runtime" => Store(FairRuntime)!Init
      /\ part = "pages" => Store(Pages)!Init
  BY DEF MCInit, PartsInit
<1> QED BY <1>1, <1>2, StoreStarts DEF StorePart

LEMMA StorePartsMove ==
  ASSUME [MCNext]_allVars
  PROVE  /\ StorePart("two runtimes", Runtimes2) => StorePart("two runtimes", Runtimes2)'
         /\ StorePart("fair runtime", FairRuntime) => StorePart("fair runtime", FairRuntime)'
         /\ StorePart("pages", Pages) => StorePart("pages", Pages)'
<1>1. StoreConstants(Runtimes2) /\ StoreConstants(FairRuntime) /\ StoreConstants(Pages)
  BY StoreAssumption DEF StoreConstants
<1>2. part' = part
  BY DEF MCNext, EventsMove, SeatsMove, RetentionMoves, allVars
<1>3. /\ part = "two runtimes" => Store(Runtimes2)!Next \/ UNCHANGED retentionVars
      /\ part = "fair runtime" => Store(FairRuntime)!Next \/ UNCHANGED retentionVars
      /\ part = "pages" => Store(Pages)!Next \/ UNCHANGED retentionVars
  BY DEF MCNext, allVars
<1> QED BY <1>1, <1>2, <1>3, StoreMoves, StoreStutters DEF StorePart

\* For any number of runtimes over one store, any Jobs, batch size, retention and recheck
\* intervals, and any number of repairs, failed statements and restarts: a stored deadline
\* is kept by a running pass, a timer that is not later or a settlement's notice, and a row
\* without a deadline is looked at again, at once or within the recheck interval.
THEOREM PayloadsStayKept == MCSpec => []PayloadsAreKept
<1> DEFINE I == /\ StorePart("two runtimes", Runtimes2) /\ StorePart("fair runtime", FairRuntime)
                /\ StorePart("pages", Pages)
<1>1. MCInit => I
  BY StorePartsStart
<1>2. I /\ [MCNext]_allVars => I'
  BY StorePartsMove
<1>3. I => PayloadsAreKept
  <2>1. StoreConstants(Runtimes2) /\ StoreConstants(FairRuntime) /\ StoreConstants(Pages)
    BY StoreAssumption DEF StoreConstants
  <2>2. ~Runtimes2.overtaken /\ ~Runtimes2.losesReplies /\ ~FairRuntime.overtaken /\ ~FairRuntime.losesReplies
    BY StoreAssumption
  <2> QED BY <2>1, <2>2, StoreIsKept DEF StorePart, PayloadsAreKept
<1> QED BY <1>1, <1>2, <1>3, PTL DEF MCSpec

\* Only a redaction erases a payload.
LEMMA OnlyRedactErases ==
  ASSUME NEW s, StoreConstants(s), StoreInvariant(s), Store(s)!Next, ~\E r \in s.runtimes : Store(s)!Redact(r),
         NEW j \in Stored(s), rows'[j].state = "redacted"
  PROVE  rows[j].state = "redacted"
<1> SUFFICES rows'[j] = rows[j] \/ rows'[j].state = rows[j].state \/ rows'[j].state = "succeeded"
  OBVIOUS
<1>0. /\ rows \in [Stored(s) -> RowRecords(s)] /\ rows[j] \in RowRecords(s)
      /\ UNCHANGED rows => rows'[j] = rows[j]
  BY DEF StoreInvariant, StoreTyped
<1>1. ASSUME NEW r \in s.runtimes,
             \/ Store(s)!ReadDue(r) \/ Store(s)!ReadCursor(r) \/ Store(s)!ReadPage(r)
             \/ Store(s)!Survey(r) \/ Store(s)!ReadOlder(r) \/ Store(s)!LookForMore(r) \/ Store(s)!PromiseCleared(r)
             \/ Store(s)!Reread(r, "rescan", "scan") \/ Store(s)!Reread(r, "reassign", "assign")
      PROVE  UNCHANGED rows
  BY <1>1 DEF Store!ReadDue, Store!ReadCursor, Store!ReadPage, Store!Survey, Store!ReadOlder, Store!LookForMore,
              Store!PromiseCleared, Store!Reread, Store!Locally
<1>2. ASSUME NEW r \in s.runtimes,
             \/ Store(s)!Advance(r) \/ Store(s)!ScheduleScan(r) \/ Store(s)!Finish(r) \/ Store(s)!Fails(r)
             \/ Store(s)!TimerFires(r) \/ Store(s)!Restart(r)
             \/ \E due \in notices[r] : Store(s)!Notice(r, due) \/ Store(s)!ReplyLost(r, due)
      PROVE  UNCHANGED rows
  BY <1>2 DEF Store!Advance, Store!ScheduleScan, Store!Move, Store!Finish, Store!Fails, Store!Chain,
              Store!TimerFires, Store!Restart, Store!Notice, Store!ReplyLost
<1>3. ASSUME NEW r \in s.runtimes,
             Store(s)!GiveDeadline(r, "scan", "rescan") \/ Store(s)!GiveDeadline(r, "assign", "reassign")
      PROVE  rows'[j].state = rows[j].state
  <2>1. UNCHANGED rows \/ \E i, d : rows' = [rows EXCEPT ![i].until = d]
    BY <1>3 DEF Store!GiveDeadline
  <2>2. ASSUME NEW i, NEW d, rows' = [rows EXCEPT ![i].until = d] PROVE rows'[j].state = rows[j].state
    BY <1>0, <2>2 DEF RowRecords
  <2> QED BY <1>0, <2>1, <2>2
<1>4. ASSUME NEW r \in s.runtimes, NEW i \in Stored(s), Store(s)!Settle(r, i)
      PROVE  rows'[j] = rows[j] \/ rows'[j].state = "succeeded"
  BY <1>0, <1>4 DEF Store!Settle
<1>5. ASSUME NEW i \in Stored(s), Store(s)!Repair(i) PROVE rows'[j].state = rows[j].state
  <2>1. PICK t : rows' = [rows EXCEPT ![i].completed = t]
    BY <1>5 DEF Store!Repair
  <2> QED BY <1>0, <2>1 DEF RowRecords
<1>6. Store(s)!Tick => UNCHANGED rows
  BY DEF Store!Tick
<1> QED BY <1>0, <1>1, <1>2, <1>3, <1>4, <1>5, <1>6 DEF Store!Next, Store!Statement, Stored

\* No pass erases a payload before its Job was settled for the whole retention period.
LEMMA RedactsInTime ==
  ASSUME NEW s, StoreConstants(s), StoreInvariant(s), Store(s)!Next
  PROVE  Store(s)!NeverEarly
<1>1. SUFFICES ASSUME NEW j \in Stored(s), rows'[j].state = "redacted", rows[j].state # "redacted"
               PROVE  rows[j].completed # Bad /\ rows[j].completed + s.retention <= now
  BY DEF Store!NeverEarly, Stored
<1>2. PICK x \in RowRecords(s) : x = rows[j]
  BY DEF StoreInvariant, StoreTyped
<1>3. CASE \E r \in s.runtimes : Store(s)!Redact(r)
  <2>1. PICK r \in s.runtimes : Store(s)!Redact(r)
    BY <1>3
  <2>2. PICK p \in PassRecords(s) :
          /\ p = pass[r] /\ PassSound(s, p) /\ p.pc = "redact" /\ p.queue # <<>> /\ DueRows(s, p)
    BY <2>1, PassOf DEF Store!Redact, Store!AtStep, PassSound
  <2>3. PICK q \in Observed(s) : q = Head(p.queue) /\ q.until \in Deadlines(s) /\ q.until <= p.started
    <3>1. Len(p.queue) \in Nat
      BY <2>2 DEF PassRecords
    <3>2. 1 \in 1..Len(p.queue) /\ Head(p.queue) = p.queue[1] /\ Head(p.queue) \in Observed(s)
      BY <2>2, <3>1, HeadOf
    <3> QED BY <2>2, <3>2 DEF DueRows
  <2>4. Store(s)!Unchanged(q) /\ rows' = [rows EXCEPT ![q.id].state = "redacted"]
    BY <1>1, <2>1, <2>2, <2>3 DEF Store!Redact
  <2>5. q.id \in Stored(s) /\ rows[q.id].until = q.until
    BY <2>4, UnchangedRow DEF StoreInvariant
  <2>6. j = q.id
    <3>1. j # q.id => rows'[j] = rows[j]
      BY <2>4 DEF StoreInvariant, StoreTyped
    <3> QED BY <1>1, <3>1
  <2>7. RowSound(s, x) /\ x.until = q.until
    BY <1>2, <2>5, <2>6 DEF StoreInvariant, RowsSound
  <2>8. x.completed # Bad /\ x.completed + s.retention <= p.started /\ x.completed \in Int
    BY <1>2, <2>3, <2>7, StoreFacts DEF RowSound, RowRecords, Completions, Times
  <2>9. p.started <= now /\ p.started \in Int /\ now \in Int
    BY <2>2, StoreFacts DEF PassSound, PassRecords, Times, StoreInvariant, StoreTyped
  <2> QED BY <1>2, <2>8, <2>9, StoreFacts
<1>4. CASE ~\E r \in s.runtimes : Store(s)!Redact(r)
  BY <1>1, <1>4, OnlyRedactErases
<1> QED BY <1>3, <1>4

\* In the same generality: no payload is erased before its Job was settled for the whole
\* retention period, whatever a pass had read before.
THEOREM NoPayloadIsErasedEarly ==
  MCSpec => [][/\ part = "two runtimes" => Store(Runtimes2)!NeverEarly
               /\ part = "fair runtime" => Store(FairRuntime)!NeverEarly]_allVars
<1> DEFINE I == StorePart("two runtimes", Runtimes2) /\ StorePart("fair runtime", FairRuntime)
           A == /\ part = "two runtimes" => Store(Runtimes2)!NeverEarly
                /\ part = "fair runtime" => Store(FairRuntime)!NeverEarly
<1>1. MCInit => I
  BY StorePartsStart
<1>2. I /\ [MCNext]_allVars => I'
  BY StorePartsMove
<1>3. I /\ [MCNext]_allVars => [A]_allVars
  <2>1. StoreConstants(Runtimes2) /\ StoreConstants(FairRuntime)
    BY StoreAssumption DEF StoreConstants
  <2> SUFFICES ASSUME I, MCNext PROVE A
    OBVIOUS
  <2>2. /\ part = "two runtimes" => Store(Runtimes2)!Next
        /\ part = "fair runtime" => Store(FairRuntime)!Next
    BY DEF MCNext
  <2> QED BY <2>1, <2>2, RedactsInTime DEF StorePart
<1> QED BY <1>1, <1>2, <1>3, PTL DEF MCSpec
=============================================================================
