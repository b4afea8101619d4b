----------------------------- MODULE Settlement -----------------------------
(***************************************************************************)
(* A settlement of an auction (mechanism_cuopt/settlement.py and           *)
(* artifacts.py): a solver's candidate, which nobody trusts, is admitted   *)
(* case by case; every case is solved again by solve_exact (BranchBound,   *)
(* here its proved result Optimum, or the end of its budget); the payments *)
(* are computed; and a certificate with the natural-number accounting goes *)
(* through the kernel before anything is published.                        *)
(***************************************************************************)
EXTENDS Auction

CONSTANT OtherReports   \* the values a tenant might report instead

ASSUME SettlementAssumption == OtherReports \subseteq Nat

VARIABLES submitted,  \* the admitted choice of each case, so far
          exact,      \* the exact optimum of each case, so far
          payments,   \* the payment of each tenant, so far
          stage       \* "admit", "solve", "compare", "pay", "certify" or how it ended

vars == <<auction, submitted, exact, payments, stage>>

\* cases(model): the full auction, then the auction without each tenant, in order.
TenantOrder ==
  Sorted(auction.tenants,
         {st \in auction.tenants \X auction.tenants : auction.rank[st[1]] < auction.rank[st[2]]})
Cases == <<None>> \o TenantOrder

Init ==
  /\ auction \in Instances
  /\ submitted = <<>>
  /\ exact = <<>>
  /\ payments = <<>>
  /\ stage = "admit"

Refuse == stage' = "refused" /\ UNCHANGED <<auction, submitted, exact, payments>>

\* candidate_bits: hash, bits, feasibility with the exclusion, and the objective.
Admissible(choice, case, reported) ==
  /\ RowsFeasible(auction, CompileModel(auction), choice, case)
  /\ reported = Welfare(auction, choice)

\* _submitted_allocations, one case: whatever a solver may have sent for it.
Admit ==
  /\ stage = "admit"
  /\ LET case == Cases[Len(submitted) + 1] IN
     \E choice \in SUBSET Indices(auction), error \in {0, 1} :
       IF Admissible(choice, case, Welfare(auction, choice) + error)
         THEN /\ submitted' = Append(submitted, choice)
              /\ stage' = IF Len(submitted') = Len(Cases) THEN "solve" ELSE "admit"
              /\ UNCHANGED <<auction, exact, payments>>
         ELSE Refuse

\* exact_cases, one case: the optimum, or VerificationLimit.
Solve ==
  /\ stage = "solve"
  /\ exact' = Append(exact, Optimum(auction, Cases[Len(exact) + 1]))
  /\ stage' = IF Len(exact') = Len(Cases) THEN "compare" ELSE "solve"
  /\ UNCHANGED <<auction, submitted, payments>>

Limit ==
  /\ stage = "solve"
  /\ stage' = "limit"
  /\ UNCHANGED <<auction, submitted, exact, payments>>

\* Mistake: only the full auction is compared with its exact optimum.
AgreesOnFull == Welfare(auction, submitted[1]) = Welfare(auction, exact[1])

\* Mistake: the choices are compared instead of their welfare.
AgreesOnChoice == \A k \in DOMAIN Cases : submitted[k] = exact[k]

\* _validate_with_exact: every case must have the exact optimal welfare.
Agrees == \A k \in DOMAIN Cases : Welfare(auction, submitted[k]) = Welfare(auction, exact[k])

Compare ==
  /\ stage = "compare"
  /\ IF Agrees THEN stage' = "pay" ELSE stage' = "refused"
  /\ UNCHANGED <<auction, submitted, exact, payments>>

Own(choice, t) == Welfare(auction, choice \cap OffersOf(auction, t))

\* Mistakes: what the others get is not taken off; a winner pays what it bid.
PaymentOfPivot(welfare, own, pivot) == pivot
PaymentOfBid(welfare, own, pivot) == own

\* The externality of a tenant: the others' optimum without it, less what they get.
Payment(welfare, own, pivot) == pivot - (welfare - own)

\* One tenant's payment, and the check that it is neither negative nor above the value.
Pay ==
  /\ stage = "pay"
  /\ LET k == Len(payments) + 1
         own == Own(exact[1], TenantOrder[k])
         payment == Payment(Welfare(auction, exact[1]), own, Welfare(auction, exact[k + 1]))
     IN  /\ payments' = Append(payments, payment)
         /\ stage' = IF ~(0 <= payment /\ payment <= own) THEN "irrational"
                     ELSE IF Len(payments') = Len(TenantOrder) THEN "certify" ELSE "pay"
  /\ UNCHANGED <<auction, submitted, exact>>

-----------------------------------------------------------------------------
(* The certificate: natural-number identities the kernel evaluates, with the *)
(* truncated subtraction of natSub.                                          *)
NatSub(m, n) == IF m < n THEN 0 ELSE m - n

\* vcgNativePayment of prelude/mechanism/vcg.mech.
NativePayment(welfare, own, without) == NatSub(without, NatSub(welfare, own))

\* auctionBit of auctionWin and of auctionLose, and sum_expression of the products of
\* the amounts with the bits of a choice.
Bit(choice, i) == IF i \in choice THEN 1 ELSE 0
SumExpression(amounts, choice) ==
  SumFunctionOnSet([i \in DOMAIN amounts |-> amounts[i] * Bit(choice, i)], DOMAIN amounts)

\* specification: every offer is within the horizon, its slices and its hosts.
OffersCertified ==
  \A i \in Indices(auction) :
    LET offer == auction.offers[i]
    IN  /\ NatSub(offer.end, auction.horizon) = 0
        /\ \A p \in offer.slots : NatSub(offer.hbm[p], auction.hbm[p]) = 0
        /\ \A h \in DOMAIN offer.cores : NatSub(offer.cores[h], auction.capacity[h]) = 0

\* allocation_declarations of case k: the excluded tenant has no bit, the welfare is that
\* of the result, and no row is over its capacity.
CertifiedWelfare(k) == SumExpression(Values(auction), exact[k])

AllocationCertified(k) ==
  /\ \A i \in OffersOf(auction, Cases[k]) : Bit(exact[k], i) = 0
  /\ CertifiedWelfare(k) = Welfare(auction, exact[k])
  /\ \A r \in CompileModel(auction) : NatSub(SumExpression(r.terms, exact[k]), r.capacity) = 0

\* settlement_certificate: what is declared of tenant k.
CertifiedOwn(k) ==
  SumExpression([i \in OffersOf(auction, TenantOrder[k]) |-> auction.offers[i].value], exact[1])
CertifiedOthers(k) == NatSub(CertifiedWelfare(1), CertifiedOwn(k))
CertifiedPayment(k) == NativePayment(CertifiedWelfare(1), CertifiedOwn(k), CertifiedWelfare(k + 1))

\* Mistake: own and counterfactual welfare are exchanged in the pivot identity.
PivotIdentitySwapped(payment, others, without, own) == payment + others = own

PivotIdentity(payment, others, without, own) == payment + others = without

TenantCertified(k) ==
  /\ CertifiedOwn(k) + CertifiedOthers(k) = Welfare(auction, exact[1])
  /\ PivotIdentity(CertifiedPayment(k), CertifiedOthers(k),
                   Welfare(auction, exact[k + 1]), CertifiedOwn(k))
  /\ NatSub(CertifiedWelfare(k + 1), CertifiedWelfare(1)) = 0
  /\ NatSub(CertifiedPayment(k), CertifiedOwn(k)) = 0

\* proof.exports == expected: the welfare, the payments and the revenue that the kernel
\* evaluates are those of the settlement.
ExportsAgree ==
  /\ CertifiedWelfare(1) = Welfare(auction, exact[1])
  /\ \A k \in DOMAIN TenantOrder : CertifiedPayment(k) = payments[k]
  /\ SumFunctionOnSet([k \in DOMAIN TenantOrder |-> CertifiedPayment(k)], DOMAIN TenantOrder)
       = SumFunctionOnSet(payments, DOMAIN payments)

\* kernel_check of the certificate, and the comparison of its exports.
Certify ==
  /\ stage = "certify"
  /\ stage' = IF /\ OffersCertified
                 /\ \A k \in DOMAIN Cases : AllocationCertified(k)
                 /\ \A k \in DOMAIN TenantOrder : TenantCertified(k)
                 /\ ExportsAgree
                THEN "settled" ELSE "rejected"
  /\ UNCHANGED <<auction, submitted, exact, payments>>

\* The checker is missing, the certificate is too large for it or takes it too long, or
\* the output directory is taken.
CertifyFails == stage = "certify" /\ Refuse

Next == Admit \/ Solve \/ Limit \/ Compare \/ Pay \/ Certify \/ CertifyFails

Spec == Init /\ [][Next]_vars

-----------------------------------------------------------------------------

\* The assertion 0 <= payment <= own never fires: the externality of a tenant is never
\* negative and never above the value of what it won.
NeverIrrational == stage # "irrational"

\* The certificate of a settlement that got so far is never refused: every equality in
\* it holds and every export is what the settlement says, although the kernel multiplies
\* with bits and subtracts with truncation where the settlement adds and subtracts.
CertificateAccepted == stage # "rejected"

\* What is settled was admitted: in every case the solver sent a feasible choice with
\* the greatest welfare, tick by tick, not only in the full auction.
SettledExact ==
  stage = "settled" =>
    \A k \in DOMAIN Cases :
      /\ submitted[k] \in Allowed(auction, Cases[k])
      /\ \A c \in Allowed(auction, Cases[k]) : Welfare(auction, c) <= Welfare(auction, submitted[k])

\* A candidate is refused by the comparison only for welfare it falls short of: a solver
\* that settles a tie another way than the exact search is not refused.
RefusedForCause ==
  [][stage = "compare" /\ stage' = "refused" =>
       \E k \in DOMAIN Cases : \E c \in Allowed(auction, Cases[k]) :
         Welfare(auction, c) > Welfare(auction, submitted[k])]_vars

\* The outcome and payment of a tenant when the reports are those of auction a.
Charged(a, t) ==
  LET x == Optimum(a, None)
      own == Welfare(a, x \cap OffersOf(a, t))
  IN  Payment(Welfare(a, x), own, Welfare(a, Optimum(a, t)))

Reporting(t, values) ==
  [auction EXCEPT !.offers =
     [i \in Indices(auction) |->
        IF auction.offers[i].tenant = t THEN [auction.offers[i] EXCEPT !.value = values[i]]
        ELSE auction.offers[i]]]

\* No report is better for a tenant than the true one, whatever the others report: its
\* true value of what it gets, less what it pays, is never greater than when truthful.
TruthDominates ==
  stage = "admit" /\ submitted = <<>> =>
    \A t \in auction.tenants :
      LET truthful == Own(Optimum(auction, None), t) - Charged(auction, t)
      IN  \A values \in [OffersOf(auction, t) -> OtherReports] :
            LET lie == Reporting(t, values)
            IN  Own(Optimum(lie, None), t) - Charged(lie, t) <= truthful
=============================================================================
