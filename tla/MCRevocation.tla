---------------------------- MODULE MCRevocation ----------------------------
(***************************************************************************)
(* Small instances of Revocation: one in which the times vary and the      *)
(* documents are well signed, one in which the trust varies.               *)
(***************************************************************************)
EXTENDS Revocation

GoodTarget == [parses |-> TRUE, named_by_issuer |-> TRUE, issuer_signature |-> "Pass",
               crl_sign |-> "yes"]

Single(status, revoked, this, next) ==
  [known_digest |-> TRUE, matches |-> TRUE, status |-> status, revocation_time |-> revoked,
   this_update |-> this, next_update |-> next, extensions |-> <<>>]

Basic(produced, singles) ==
  [kind |-> "basic", malformed_algorithm |-> FALSE, issuer_is_responder |-> TRUE,
   signature_by_issuer |-> "Pass", certs |-> <<>>, singles |-> singles,
   produced_at |-> produced, extensions |-> <<>>]

Crl(last, next, entries) ==
  [parses |-> TRUE, extensions |-> <<>>, named_by_issuer |-> TRUE,
   algorithms_agree |-> TRUE, signature |-> "Pass", last_update |-> last,
   next_update |-> next, entries |-> entries]

Entry(date, removed, same) ==
  [revocation_date |-> date, removed |-> removed, same_serial |-> same,
   extensions |-> <<>>]

Policy(mode, age, skew, delegated) ==
  [mode |-> mode, max_age |-> age, clock_skew |-> skew,
   delegated_responder_revocation |-> delegated]

Modes == {"HardFail", "SoftFail", "NotRequired"}

-----------------------------------------------------------------------------
(* Times, before the epoch and at the saturating end included *)

MCTimestamps == {-1, 0, 2, 3, 4, 7}
TimedTargets == {GoodTarget}
TimedResponses ==
  {Basic(produced, <<Single(status, 3, this, next)>>) :
     produced \in {0, 5}, status \in {"Good", "Revoked", "Unknown"},
     this \in {0, 2, 6}, next \in {None, 3, 6}}
TimedCrls ==
  {Crl(last, next, entries) :
     last \in {-1, 2}, next \in {None, 3, 6},
     entries \in {{}, {Entry(3, FALSE, TRUE)}, {Entry(3, TRUE, TRUE), Entry(0, FALSE, FALSE)}}}
TimedPolicies ==
  {Policy(mode, age, skew, None) : mode \in {"HardFail", "SoftFail"},
                                   age \in {1, 7}, skew \in {0, 1, 7}}

-----------------------------------------------------------------------------
(* Trust *)

Delegate ==
  [parses |-> TRUE, named_by_responder_id |-> TRUE, named_by_issuer |-> TRUE,
   issuer_signature |-> "Pass", not_before |-> 1, not_after |-> 2,
   extended_usage |-> "ocsp_signing", key_usage |-> "absent", nocheck |-> TRUE,
   response_signature |-> "Pass"]

Delegates ==
  {Delegate}
  \cup {[Delegate EXCEPT !.named_by_responder_id = FALSE], [Delegate EXCEPT !.parses = FALSE],
        [Delegate EXCEPT !.named_by_issuer = FALSE], [Delegate EXCEPT !.nocheck = FALSE],
        [Delegate EXCEPT !.extended_usage = "other"]}
  \cup {[Delegate EXCEPT !.issuer_signature = s] : s \in {"Fail", "Indeterminate"}}
  \cup {[Delegate EXCEPT !.response_signature = s] : s \in {"Fail", "Indeterminate"}}
  \cup {[Delegate EXCEPT !.key_usage = u] : u \in {"digital_signature", "other", "malformed"}}

\* An extension of an OCSP response, and one of a CRL or of an entry.
Extension(oid, critical, value) == [oid |-> oid, critical |-> critical, value |-> value]
CrlExtension(oid, critical, understood) ==
  [oid |-> oid, critical |-> critical, understood |-> understood]
Nonce(value) == Extension("nonce", FALSE, value)
Other(critical) == Extension("other", critical, "none")

TrustBase == Basic(0, <<Single("Good", 0, 0, None)>>)

TrustResponses ==
  LET delegated == [TrustBase EXCEPT !.issuer_is_responder = FALSE] IN
  {[TrustBase EXCEPT !.kind = k] : k \in {"malformed", "unsupported_type", "unsuccessful", "basic"}}
  \cup {[TrustBase EXCEPT !.signature_by_issuer = s] : s \in {"Fail", "Indeterminate"}}
  \cup {[TrustBase EXCEPT !.extensions = list] :
          list \in {<<Nonce("n1")>>, <<Other(FALSE), Nonce("n2")>>, <<Nonce("n1"), Nonce("n1")>>,
                   <<Other(TRUE), Nonce("n1")>>}}
  \cup {[TrustBase EXCEPT !.singles[1].extensions = list] :
          list \in {<<Other(FALSE)>>, <<Other(TRUE)>>, <<Other(FALSE), Other(FALSE)>>}}
  \cup {[TrustBase EXCEPT !.malformed_algorithm = TRUE], delegated,
        [delegated EXCEPT !.malformed_algorithm = TRUE],
        [TrustBase EXCEPT !.singles = <<>>],
        [TrustBase EXCEPT !.singles[1].matches = FALSE],
        [TrustBase EXCEPT !.singles[1].known_digest = FALSE],
        [TrustBase EXCEPT !.singles = @ \o @],
        [TrustBase EXCEPT !.singles[1].status = "Revoked"],
        [TrustBase EXCEPT !.singles[1].status = "Unknown"]}
  \cup {[delegated EXCEPT !.certs = <<d>>] : d \in Delegates}
  \cup {[delegated EXCEPT !.certs = <<d, Delegate>>] : d \in Delegates}

TrustTargets ==
  {GoodTarget, [GoodTarget EXCEPT !.parses = FALSE],
   [GoodTarget EXCEPT !.named_by_issuer = FALSE],
   [GoodTarget EXCEPT !.issuer_signature = "Fail"],
   [GoodTarget EXCEPT !.issuer_signature = "Indeterminate"],
   [GoodTarget EXCEPT !.crl_sign = "no"], [GoodTarget EXCEPT !.crl_sign = "absent"]}

TrustCrls ==
  LET base == Crl(0, 5, {}) IN
  {base, [base EXCEPT !.parses = FALSE], [base EXCEPT !.entries = {Entry(0, FALSE, TRUE)}],
   [base EXCEPT !.signature = "Fail"],
   [base EXCEPT !.extensions = <<CrlExtension("delta_crl", FALSE, TRUE)>>],
   [base EXCEPT !.extensions = <<CrlExtension("crl_number", FALSE, TRUE),
                                 CrlExtension("other", TRUE, FALSE)>>],
   [base EXCEPT !.entries = {[Entry(0, FALSE, TRUE) EXCEPT !.extensions =
                                <<CrlExtension("certificate_issuer", TRUE, TRUE)>>]}]}

TrustPolicies == {Policy(mode, 7, 0, d) : mode \in Modes, d \in {None, "Pass", "Fail"}}

-----------------------------------------------------------------------------

\* The CRLs vary beside one OCSP response and the other way round: the two
\* checkers share the target and the time only.
MCCases ==
  TimedTargets \X TimedResponses \X TimedCrls \X TimedPolicies \X {None}
  \cup TrustTargets \X TrustResponses \X {Crl(0, 5, {})} \X TrustPolicies
         \X {None, "n1", BadNonce}
  \cup TrustTargets \X {TrustBase} \X TrustCrls \X TrustPolicies \X {None}

MCTargets == TrustTargets
MCResponses == TimedResponses \cup TrustResponses
MCCrls == TimedCrls \cup TrustCrls
MCPolicies == TimedPolicies \cup TrustPolicies
=============================================================================
