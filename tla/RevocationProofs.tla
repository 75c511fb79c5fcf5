-------------------------- MODULE RevocationProofs --------------------------
(***************************************************************************)
(* Proofs about Revocation for all documents, policies and times.  The     *)
(* inductive invariant says that each answer kept is the checker's answer  *)
(* for the documents the caller still holds and a time already reached.    *)
(***************************************************************************)
EXTENDS Revocation, FiniteSetTheorems, TLAPS

RevocationInv ==
  /\ response \in Responses /\ crl \in Crls /\ policy \in Policies
  /\ now \in Timestamps
  /\ ocsp.at \in Timestamps /\ ocsp.at <= now
  /\ crl_answer.at \in Timestamps /\ crl_answer.at <= now
  /\ \/ ocsp.answer = NoAnswer
     \/ ocsp.answer = check_ocsp_status(target, response, ocsp.at, nonce, policy)
  /\ \/ crl_answer.answer = NoAnswer
     \/ crl_answer.answer = check_crl_status(target, crl, crl_answer.at)

\* The first state satisfies the invariant.
LEMMA InitRevocationInv == Init => RevocationInv
BY RevocationConstants DEF Init, RevocationInv

\* Every step keeps it: a check answers for the present time, and time only
\* moves forward.
LEMMA NextRevocationInv == RevocationInv /\ [Next]_vars => RevocationInv'
<1> SUFFICES ASSUME RevocationInv, [Next]_vars PROVE RevocationInv'
  OBVIOUS
<1>0. Timestamps \subseteq Int
  BY RevocationConstants
<1>1. CASE CheckOcsp
  BY <1>0, <1>1 DEF RevocationInv, CheckOcsp, documents
<1>2. CASE CheckCrl
  BY <1>0, <1>2 DEF RevocationInv, CheckCrl, documents
<1>3. CASE TimePasses
  <2>1. /\ now' \in Timestamps /\ now <= now'
        /\ UNCHANGED <<target, response, crl, policy, nonce, ocsp, crl_answer>>
    BY <1>0, <1>3 DEF RevocationInv, TimePasses, documents
  <2>2. ocsp.at <= now' /\ crl_answer.at <= now'
    <3>1. /\ ocsp.at \in Int /\ crl_answer.at \in Int /\ now \in Int
          /\ ocsp.at <= now /\ crl_answer.at <= now
      BY <1>0 DEF RevocationInv
    <3>2. now' \in Int /\ now <= now'
      BY <1>0, <2>1
    <3> QED
      BY <3>1, <3>2
  <2> QED
    BY <2>1, <2>2 DEF RevocationInv
<1>4. CASE UNCHANGED vars
  BY <1>4 DEF RevocationInv, vars, documents
<1> QED
  BY <1>1, <1>2, <1>3, <1>4 DEF Next

\* The invariant holds in every behaviour.
LEMMA RevocationInvariant == Spec => []RevocationInv
BY InitRevocationInv, NextRevocationInv, PTL DEF Spec

-----------------------------------------------------------------------------
(* The operators *)

\* Saturation changes nothing: no time of a response exceeds MaxU64.
LEMMA FreshIsCurrent ==
  ASSUME NEW r \in Responses, NEW i \in DOMAIN r.singles, NEW p \in Policies,
         NEW time \in Timestamps, is_fresh(r.produced_at, r.singles[i], time, p)
  PROVE  /\ time \in Int /\ 0 <= time
         /\ r.produced_at <= time + p.clock_skew
         /\ r.singles[i].this_update <= time + p.clock_skew
         /\ time - r.singles[i].this_update <= p.max_age
         /\ r.singles[i].next_update # None =>
              time <= r.singles[i].next_update + p.clock_skew
<1>1. /\ time \in Int /\ time <= MaxU64
      /\ MaxU64 \in Nat /\ p.max_age \in 0 .. MaxU64 /\ p.clock_skew \in 0 .. MaxU64
      /\ None \notin Int
  BY RevocationConstants
<1>2. /\ r.produced_at \in 0 .. MaxU64 /\ r.singles[i].this_update \in 0 .. MaxU64
      /\ r.singles[i].next_update \in 0 .. MaxU64 \cup {None}
  BY DocumentsAreTyped
<1> QED
  BY <1>1, <1>2 DEF is_fresh, saturating_add, saturating_sub

\* A set of one element is not empty, so its chosen element belongs to it.
LEMMA ChosenIsNamed ==
  ASSUME NEW S, Cardinality(S) = 1
  PROVE  (CHOOSE i \in S : TRUE) \in S
<1>1. S # {}
  BY FS_EmptySet
<1> QED
  BY <1>1

\* A passed responder check and a passed signature check come from the issuer
\* or from one authorized responder.
LEMMA ResponderIsAuthorized ==
  ASSUME NEW r \in Responses, NEW p \in Policies, NEW time \in Timestamps,
         responder_state(r, time, p) = "Pass", signature_state(r) = "Pass"
  PROVE  \/ r.issuer_is_responder /\ r.signature_by_issuer = "Pass"
         \/ \E i \in DOMAIN r.certs :
              /\ r.certs[i].named_by_responder_id /\ r.certs[i].named_by_issuer
              /\ r.certs[i].issuer_signature = "Pass"
              /\ r.certs[i].not_before <= time /\ time <= r.certs[i].not_after
              /\ r.certs[i].extended_usage = "ocsp_signing"
              /\ r.certs[i].nocheck \/ p.delegated_responder_revocation = "Pass"
              /\ r.certs[i].response_signature = "Pass"
<1>1. CASE r.issuer_is_responder
  BY <1>1 DEF signature_state
<1>2. CASE ~r.issuer_is_responder
  <2> DEFINE j == CHOOSE i \in Named(r) : TRUE
  <2>1. Cardinality(Named(r)) = 1
    BY <1>2 DEF responder_state
  <2>2. j \in Named(r)
    BY <2>1, ChosenIsNamed
  <2>3. /\ delegated_responder_state(r.certs[j], time, p) = "Pass"
        /\ r.certs[j].response_signature = "Pass"
    BY <1>2, <2>1 DEF responder_state, signature_state
  <2> HIDE DEF j
  <2>4. j \in DOMAIN r.certs /\ r.certs[j].named_by_responder_id
    BY <2>2 DEF Named
  <2>5. time \in Int /\ r.certs[j].not_before \in Int /\ r.certs[j].not_after \in Int
    BY <2>4, RevocationConstants, DocumentsAreTyped
  <2>6. /\ r.certs[j].named_by_issuer /\ r.certs[j].issuer_signature = "Pass"
        /\ time \in r.certs[j].not_before .. r.certs[j].not_after
        /\ r.certs[j].extended_usage = "ocsp_signing"
        /\ r.certs[j].nocheck \/ p.delegated_responder_revocation = "Pass"
    BY <2>3 DEF delegated_responder_state
  <2>7. r.certs[j].not_before <= time /\ time <= r.certs[j].not_after
    BY <2>5, <2>6
  <2> QED
    BY <2>3, <2>4, <2>6, <2>7
<1> QED
  BY <1>1, <1>2

\* Only an answer with all prerequisites and a status that is neither unknown
\* nor revoked passes, and under soft-fail only a revoked one fails.
LEMMA RevocationStateFacts ==
  ASSUME NEW mode \in {"HardFail", "SoftFail", "NotRequired"}, NEW pre \in BOOLEAN,
         NEW effective
  PROVE  /\ revocation_state(mode, pre, effective) = "Pass"
              => pre /\ effective # "Unknown" /\ effective # "Revoked"
         /\ revocation_state(mode, pre, effective) = "Fail" /\ mode = "SoftFail"
              => pre /\ effective = "Revoked"
BY DEF revocation_state

\* Unless the checker refuses the response, at most one SingleResponse is about
\* the certificate.
LEMMA OneMatch ==
  ASSUME NEW r \in Responses, ~(Cardinality(Matching(r)) > 1),
         NEW j \in Matching(r), NEW k \in Matching(r)
  PROVE  j = k
<1> SUFFICES ASSUME j # k PROVE FALSE
  OBVIOUS
<1>1. IsFiniteSet(Matching(r))
  <2>1. IsFiniteSet(DOMAIN r.singles) /\ Matching(r) \subseteq DOMAIN r.singles
    BY DocumentsAreTyped DEF Matching
  <2> QED
    BY <2>1, FS_Subset
<1>2. Cardinality({j, k}) = 2 /\ {j, k} \subseteq Matching(r)
  <2>1. IsFiniteSet({j}) /\ Cardinality({j}) = 1
    BY FS_Singleton
  <2>2. Cardinality({j} \cup {k}) = Cardinality({j}) + 1
    BY <2>1, FS_AddElement
  <2>3. {j} \cup {k} = {j, k}
    OBVIOUS
  <2> QED
    BY <2>1, <2>2, <2>3
<1> QED
  BY <1>1, <1>2, FS_Subset, FS_CardinalityType

-----------------------------------------------------------------------------
(* Soundness of a passed OCSP check *)

\* A passed answer of the OCSP checker is earned.
LEMMA PassIsEarned ==
  ASSUME RevocationInv, NEW time \in Timestamps,
         check_ocsp_status(target, response, time, nonce, policy).revocation = "Pass"
  PROVE  GoodIsEarned(time)
<1> DEFINE r == response
           checks == ocsp_checks(target, r, time, nonce, policy)
           i == CHOOSE k \in Matching(r) : TRUE
           effective == IF Matching(r) # {} THEN certificate_status_at(r.singles[i], time)
                        ELSE "Unknown"
           pre == prerequisites_pass(checks, nonce)
<1>1. r \in Responses /\ policy \in Policies
  BY DEF RevocationInv
<1>2. policy.mode \in {"HardFail", "SoftFail", "NotRequired"}
  BY <1>1, RevocationConstants
<1>3. revocation_state(policy.mode, pre, effective) = "Pass"
  <2>1. check_ocsp_status(target, r, time, nonce, policy)
          = ocsp_answer(target, r, time, nonce, policy)
    BY DEF check_ocsp_status, unavailable_result, NoAnswer, Answer
  <2> QED
    BY <2>1 DEF ocsp_answer, Answer
<1>4. pre \in BOOLEAN
  BY DEF prerequisites_pass
<1>5. pre /\ effective # "Unknown" /\ effective # "Revoked"
  <2> HIDE DEF pre, effective
  <2> QED
    BY <1>2, <1>3, <1>4, RevocationStateFacts
<1>6. /\ checks.signature = "Pass" /\ checks.responder = "Pass" /\ checks.issuer = "Pass"
      /\ checks.certificate_id = "Pass" /\ checks.freshness = "Pass"
      /\ nonce = None \/ checks.nonce = "Pass"
  <2> HIDE DEF checks
  <2> QED
    BY <1>5 DEF prerequisites_pass, CheckNames
<1>7. /\ signature_state(r) = "Pass" /\ responder_state(r, time, policy) = "Pass"
      /\ issuer_state(target) = "Pass" /\ Matching(r) # {}
      /\ \E k \in Matching(r) : is_fresh(r.produced_at, r.singles[k], time, policy)
      /\ nonce = None \/ check_nonce(r, nonce) = "Pass"
  BY <1>6 DEF ocsp_checks, state
<1>8. target.named_by_issuer /\ target.issuer_signature = "Pass"
  BY <1>7 DEF issuer_state
<1>9. nonce # None => Len(NonceExtensions(r)) = 1 /\ NonceExtensions(r)[1].value = nonce
  BY <1>7 DEF check_nonce, state
<1>10. \/ r.issuer_is_responder /\ r.signature_by_issuer = "Pass"
       \/ \E k \in DOMAIN r.certs : /\ Authorized(r.certs[k], time)
                                    /\ r.certs[k].response_signature = "Pass"
  <2>1. \/ r.issuer_is_responder /\ r.signature_by_issuer = "Pass"
        \/ \E k \in DOMAIN r.certs :
             /\ r.certs[k].named_by_responder_id /\ r.certs[k].named_by_issuer
             /\ r.certs[k].issuer_signature = "Pass"
             /\ r.certs[k].not_before <= time /\ time <= r.certs[k].not_after
             /\ r.certs[k].extended_usage = "ocsp_signing"
             /\ r.certs[k].nocheck \/ policy.delegated_responder_revocation = "Pass"
             /\ r.certs[k].response_signature = "Pass"
    BY <1>1, <1>7, ResponderIsAuthorized
  <2> QED
    BY <2>1 DEF Authorized
<1>11. \A j, k \in Matching(r) : j = k
  <2>1. ~(Cardinality(Matching(r)) > 1)
    BY DEF check_ocsp_status, ocsp_error, unavailable_result, NoAnswer, Answer
  <2> QED
    BY <1>1, <2>1, OneMatch
<1>12. \E k \in DOMAIN r.singles :
         /\ Current(r.singles[k], time)
         /\ \/ r.singles[k].status = "Good"
            \/ r.singles[k].status = "Revoked" /\ time < r.singles[k].revocation_time
  <2>1. PICK k \in Matching(r) : is_fresh(r.produced_at, r.singles[k], time, policy)
    BY <1>7
  <2>2. k \in DOMAIN r.singles /\ r.singles[k].matches
    BY <2>1 DEF Matching
  <2>3. Current(r.singles[k], time) /\ time \in Int /\ 0 <= time
    BY <1>1, <2>1, <2>2, FreshIsCurrent DEF Current
  <2>4. i = k
    BY <1>7, <1>11, <2>1
  <2>5. effective = certificate_status_at(r.singles[k], time)
    BY <1>7, <2>4
  <2>6. /\ r.singles[k].status \in {"Good", "Revoked", "Unknown"}
        /\ r.singles[k].revocation_time \in Int
    BY <1>1, <2>2, DocumentsAreTyped, RevocationConstants
  <2> HIDE DEF effective, i
  <2>7. \/ r.singles[k].status = "Good"
        \/ r.singles[k].status = "Revoked" /\ time < r.singles[k].revocation_time
    BY <1>5, <2>3, <2>5, <2>6 DEF certificate_status_at
  <2> QED
    BY <2>2, <2>3, <2>7
<1> QED
  BY <1>8, <1>9, <1>10, <1>12 DEF GoodIsEarned

\* Every passed OCSP check is signed by the issuer or a responder it authorized,
\* about the certificate, current, and not yet revoked (check_ocsp_status).
THEOREM OcspIsSound == Spec => []OcspSound
<1>1. RevocationInv => OcspSound
  <2> SUFFICES ASSUME RevocationInv, ocsp.answer.revocation = "Pass"
               PROVE  GoodIsEarned(ocsp.at)
    BY DEF OcspSound
  <2>1. /\ ocsp.at \in Timestamps
        /\ ocsp.answer = check_ocsp_status(target, response, ocsp.at, nonce, policy)
    BY DEF RevocationInv, NoAnswer
  <2> QED
    BY <2>1, PassIsEarned
<1> QED
  BY <1>1, RevocationInvariant, PTL

-----------------------------------------------------------------------------
(* Soft-fail *)

\* Under soft-fail a failed answer is a trusted statement of revocation: no bad,
\* stale or unauthorized response fails the check (revocation_state).
THEOREM SoftFailFailsOnRevocation == Spec => []SoftFailNeedsRevocation
<1>1. RevocationInv => SoftFailNeedsRevocation
  <2> SUFFICES ASSUME RevocationInv, policy.mode = "SoftFail",
                      ocsp.answer.revocation = "Fail"
               PROVE  /\ ocsp.answer.effective = "Revoked"
                      /\ prerequisites_pass(ocsp.answer.checks, nonce)
    BY DEF SoftFailNeedsRevocation
  <2>1. ocsp.answer = check_ocsp_status(target, response, ocsp.at, nonce, policy)
    BY DEF RevocationInv, NoAnswer
  <2>2. ocsp.answer = ocsp_answer(target, response, ocsp.at, nonce, policy)
    BY <2>1 DEF check_ocsp_status, unavailable_result, NoAnswer, Answer
  <2> DEFINE effective == ocsp.answer.effective
             pre == prerequisites_pass(ocsp.answer.checks, nonce)
  <2>3. ocsp.answer.revocation = revocation_state(policy.mode, pre, effective)
    BY <2>2 DEF ocsp_answer, Answer
  <2>4. pre \in BOOLEAN
    BY DEF prerequisites_pass
  <2> HIDE DEF effective, pre
  <2>5. pre /\ effective = "Revoked"
    BY <2>3, <2>4, RevocationStateFacts
  <2> QED
    BY <2>5 DEF effective, pre
<1> QED
  BY <1>1, RevocationInvariant, PTL

-----------------------------------------------------------------------------
(* Revocation is forever *)

\* A certificate the OCSP checker finds revoked is found revoked at any later
\* time, from the same response.
LEMMA OcspRevokedStays ==
  ASSUME NEW r \in Responses, NEW t, NEW expected, NEW p,
         NEW t1 \in Timestamps, NEW t2 \in Timestamps, t1 <= t2,
         check_ocsp_status(t, r, t1, expected, p).effective = "Revoked"
  PROVE  check_ocsp_status(t, r, t2, expected, p).effective = "Revoked"
<1> DEFINE single == r.singles[CHOOSE i \in Matching(r) : TRUE]
<1>1. r.kind # "unsuccessful" /\ ~ocsp_error(t, r, expected)
  BY DEF check_ocsp_status, unavailable_result, NoAnswer, Answer
<1>2. ocsp_answer(t, r, t1, expected, p).effective = "Revoked"
  BY <1>1 DEF check_ocsp_status
<1>3. Matching(r) # {} /\ certificate_status_at(single, t1) = "Revoked"
  BY <1>2 DEF ocsp_answer, Answer
<1>4. single.revocation_time \in Int
  <2>1. (CHOOSE i \in Matching(r) : TRUE) \in DOMAIN r.singles
    BY <1>3 DEF Matching
  <2> QED
    BY <2>1, DocumentsAreTyped, RevocationConstants
<1>5. certificate_status_at(single, t2) = "Revoked"
  <2> HIDE DEF single
  <2>1. t1 \in Int /\ t2 \in Int
    BY RevocationConstants
  <2> QED
    BY <1>3, <1>4, <2>1 DEF certificate_status_at
<1>6. ocsp_answer(t, r, t2, expected, p).effective = "Revoked"
  BY <1>3, <1>5 DEF ocsp_answer, Answer
<1> QED
  BY <1>1, <1>6 DEF check_ocsp_status

\* The same of the CRL checker.
LEMMA CrlRevokedStays ==
  ASSUME NEW l \in Crls, NEW t, NEW t1 \in Timestamps, NEW t2 \in Timestamps, t1 <= t2,
         check_crl_status(t, l, t1).effective = "Revoked"
  PROVE  check_crl_status(t, l, t2).effective = "Revoked"
<1>1. t.parses /\ l.parses /\ validate_crl_extensions(l)
  BY DEF check_crl_status, NoAnswer
<1>2. crl_revoked(l, t1)
  BY <1>1 DEF check_crl_status, Answer
<1>3. crl_revoked(l, t2)
  BY <1>2, RevocationConstants, DocumentsAreTyped DEF crl_revoked
<1> QED
  BY <1>1, <1>3 DEF check_crl_status, Answer

\* Checking the same documents for a later time never makes a revoked
\* certificate good again (certificate_status_at, check_crl_status).
THEOREM RevokedIsForever == Spec => RevokedStaysRevoked
<1> DEFINE Kept == /\ ocsp.answer.effective = "Revoked" => ocsp'.answer.effective = "Revoked"
                   /\ crl_answer.answer.effective = "Revoked" =>
                        crl_answer'.answer.effective = "Revoked"
<1>1. RevocationInv /\ [Next]_vars => [Kept]_vars
  <2> SUFFICES ASSUME RevocationInv, Next PROVE Kept
    OBVIOUS
  <2>1. CASE CheckOcsp
    <3>1. UNCHANGED crl_answer
      BY <2>1 DEF CheckOcsp
    <3>2. ASSUME ocsp.answer.effective = "Revoked"
          PROVE  ocsp'.answer.effective = "Revoked"
      <4>1. check_ocsp_status(target, response, ocsp.at, nonce, policy).effective = "Revoked"
        BY <3>2 DEF RevocationInv, NoAnswer
      <4>2. check_ocsp_status(target, response, now, nonce, policy).effective = "Revoked"
        BY <4>1, OcspRevokedStays DEF RevocationInv
      <4> QED
        BY <2>1, <4>2 DEF CheckOcsp
    <3> QED
      BY <3>1, <3>2
  <2>2. CASE CheckCrl
    <3>1. UNCHANGED ocsp
      BY <2>2 DEF CheckCrl
    <3>2. ASSUME crl_answer.answer.effective = "Revoked"
          PROVE  crl_answer'.answer.effective = "Revoked"
      <4>1. check_crl_status(target, crl, crl_answer.at).effective = "Revoked"
        BY <3>2 DEF RevocationInv, NoAnswer
      <4>2. check_crl_status(target, crl, now).effective = "Revoked"
        BY <4>1, CrlRevokedStays DEF RevocationInv
      <4> QED
        BY <2>2, <4>2 DEF CheckCrl
    <3> QED
      BY <3>1, <3>2
  <2>3. CASE TimePasses
    BY <2>3 DEF TimePasses
  <2> QED
    BY <2>1, <2>2, <2>3 DEF Next
<1> QED
  BY <1>1, RevocationInvariant, PTL DEF Spec, RevokedStaysRevoked

-----------------------------------------------------------------------------
(* Types *)

\* What an answer that is not an error may hold.
Typed(answer) ==
  /\ answer.error \in BOOLEAN
  /\ ~answer.error =>
       /\ answer.effective \in {"Good", "Revoked", "Unknown", "Unavailable"}
       /\ answer.revocation \in {"Pass", "Fail", "Indeterminate", "NotApplicable"}
       /\ answer.revocation = "Pass" => answer.effective = "Good"

\* The OCSP checker's answers are typed, and only a good status passes.
LEMMA OcspTyped ==
  ASSUME NEW t, NEW r \in Responses, NEW time, NEW expected, NEW p \in Policies
  PROVE  Typed(check_ocsp_status(t, r, time, expected, p))
<1>1. CASE r.kind = "unsuccessful"
  BY <1>1 DEF check_ocsp_status, unavailable_result, Answer, Typed
<1>2. CASE r.kind # "unsuccessful" /\ ocsp_error(t, r, expected)
  BY <1>2 DEF check_ocsp_status, NoAnswer, Typed
<1>3. CASE r.kind # "unsuccessful" /\ ~ocsp_error(t, r, expected)
  <2> DEFINE i == CHOOSE k \in Matching(r) : TRUE
             effective == IF Matching(r) # {} THEN certificate_status_at(r.singles[i], time)
                          ELSE "Unknown"
             pre == prerequisites_pass(ocsp_checks(t, r, time, expected, p), expected)
             answer == ocsp_answer(t, r, time, expected, p)
  <2>1. check_ocsp_status(t, r, time, expected, p) = answer
    BY <1>3 DEF check_ocsp_status
  <2>2. /\ answer.error = FALSE /\ answer.effective = effective
        /\ answer.revocation = revocation_state(p.mode, pre, effective)
    BY DEF ocsp_answer, Answer
  <2>3. effective \in {"Good", "Revoked", "Unknown"}
    <3>1. CASE Matching(r) = {}
      BY <3>1
    <3>2. CASE Matching(r) # {}
      <4>1. i \in DOMAIN r.singles
        BY <3>2 DEF Matching
      <4>2. r.singles[i].status \in {"Good", "Revoked", "Unknown"}
        BY <4>1, DocumentsAreTyped
      <4> HIDE DEF i
      <4>3. certificate_status_at(r.singles[i], time) \in {"Good", "Revoked", "Unknown"}
        BY <4>2 DEF certificate_status_at
      <4> QED
        BY <3>2, <4>3
    <3> QED
      BY <3>1, <3>2
  <2>4. p.mode \in {"HardFail", "SoftFail", "NotRequired"}
    BY RevocationConstants
  <2> HIDE DEF effective, pre, answer
  <2>5. /\ revocation_state(p.mode, pre, effective)
             \in {"Pass", "Fail", "Indeterminate", "NotApplicable"}
        /\ revocation_state(p.mode, pre, effective) = "Pass" => effective = "Good"
    BY <2>3, <2>4 DEF revocation_state
  <2> QED
    BY <2>1, <2>2, <2>3, <2>5 DEF Typed
<1> QED
  BY <1>1, <1>2, <1>3

\* The CRL checker's answers are typed, and only a good status passes.
LEMMA CrlTyped ==
  ASSUME NEW t, NEW l, NEW time
  PROVE  Typed(check_crl_status(t, l, time))
BY DEF check_crl_status, NoAnswer, Answer, state, Typed

\* For all documents, policies and times both answers are typed, given for a
\* time already reached, and pass only on a good effective status.
THEOREM RevocationTypeCorrect == Spec => []TypeOK
<1>1. RevocationInv => TypeOK
  <2> SUFFICES ASSUME RevocationInv PROVE TypeOK
    OBVIOUS
  <2>1. Typed(NoAnswer)
    BY DEF NoAnswer, Typed
  <2>2. Typed(ocsp.answer) /\ Typed(crl_answer.answer)
    BY <2>1, OcspTyped, CrlTyped DEF RevocationInv
  <2> QED
    BY <2>2 DEF RevocationInv, TypeOK, Typed, Answers
<1> QED
  BY <1>1, RevocationInvariant, PTL

-----------------------------------------------------------------------------
(* The two checkers agree *)

\* What the OCSP checker says from prerequisites it trusts.
LEMMA TrustedOcsp ==
  ASSUME NEW t, NEW r \in Responses, NEW time \in Timestamps, NEW expected,
         NEW p \in Policies, p.mode # "NotRequired",
         ~check_ocsp_status(t, r, time, expected, p).error,
         prerequisites_pass(check_ocsp_status(t, r, time, expected, p).checks, expected),
         NEW i \in Matching(r), r.singles[i].status \in {"Good", "Revoked"}
  PROVE  check_ocsp_status(t, r, time, expected, p).revocation =
           IF r.singles[i].status = "Revoked" /\ r.singles[i].revocation_time <= time
             THEN "Fail" ELSE "Pass"
<1> DEFINE checks == ocsp_checks(t, r, time, expected, p)
           single == r.singles[CHOOSE k \in Matching(r) : TRUE]
           effective == certificate_status_at(single, time)
           pre == prerequisites_pass(checks, expected)
<1>1. r.kind # "unsuccessful" /\ ~ocsp_error(t, r, expected)
  <2>1. ~prerequisites_pass(unavailable_result.checks, expected)
    BY DEF unavailable_result, Answer, prerequisites_pass, CheckNames
  <2> QED
    BY <2>1 DEF check_ocsp_status, NoAnswer
<1>2. check_ocsp_status(t, r, time, expected, p) = ocsp_answer(t, r, time, expected, p)
  BY <1>1 DEF check_ocsp_status
<1>3. single = r.singles[i]
  <2>1. ~(Cardinality(Matching(r)) > 1)
    BY <1>1 DEF ocsp_error
  <2> QED
    BY <2>1, OneMatch
<1>4. /\ ocsp_answer(t, r, time, expected, p).checks = checks
      /\ ocsp_answer(t, r, time, expected, p).revocation
           = revocation_state(p.mode, pre, effective)
  BY DEF ocsp_answer, Answer
<1>5. pre
  BY <1>2, <1>4
<1>6. time \in Int /\ 0 <= time
  <2>1. checks.freshness = "Pass"
    <3> HIDE DEF checks
    <3> QED
      BY <1>5 DEF prerequisites_pass, CheckNames
  <2>2. PICK k \in Matching(r) : is_fresh(r.produced_at, r.singles[k], time, p)
    BY <2>1 DEF ocsp_checks, state
  <2> QED
    BY <2>2, RevocationConstants DEF is_fresh
<1>7. p.mode \in {"HardFail", "SoftFail"}
  BY RevocationConstants
<1>8. effective = IF r.singles[i].status = "Revoked" /\ r.singles[i].revocation_time <= time
                    THEN "Revoked" ELSE "Good"
  <2> HIDE DEF single
  <2> QED
    BY <1>3, <1>6 DEF certificate_status_at
<1> HIDE DEF effective, pre, checks
<1> QED
  BY <1>2, <1>4, <1>5, <1>7, <1>8 DEF revocation_state

\* What the CRL checker says when it trusts the list.
LEMMA TrustedCrl ==
  ASSUME NEW t, NEW l, NEW time, check_crl_status(t, l, time).revocation \in {"Pass", "Fail"}
  PROVE  check_crl_status(t, l, time).revocation =
           IF crl_revoked(l, time) THEN "Fail" ELSE "Pass"
BY DEF check_crl_status, NoAnswer, Answer, state

\* From the same record and for the same time the two checkers never contradict
\* each other, whatever the documents, when both trust theirs.
THEOREM CheckersNeverContradict == Spec => []CheckersAgree
<1>1. RevocationInv => CheckersAgree
  <2> SUFFICES ASSUME RevocationInv, SameRecord, ocsp.at = crl_answer.at, ~ocsp.answer.error,
                      prerequisites_pass(ocsp.answer.checks, nonce),
                      policy.mode # "NotRequired",
                      crl_answer.answer.revocation \in {"Pass", "Fail"}
               PROVE  ocsp.answer.revocation = crl_answer.answer.revocation
    BY DEF CheckersAgree
  <2> DEFINE dates == {entry.revocation_date : entry \in
                         {e \in crl.entries : e.same_serial /\ ~e.removed}}
             time == ocsp.at
  <2>1. PICK i \in DOMAIN response.singles :
          /\ response.singles[i].matches
          /\ dates = IF response.singles[i].status = "Revoked"
                       THEN {response.singles[i].revocation_time} ELSE {}
          /\ response.singles[i].status # "Unknown"
    BY DEF SameRecord
  <2>2. /\ response \in Responses /\ policy \in Policies /\ time \in Timestamps
        /\ ocsp.answer = check_ocsp_status(target, response, time, nonce, policy)
        /\ crl_answer.answer = check_crl_status(target, crl, time)
    BY DEF RevocationInv, NoAnswer
  <2>3. i \in Matching(response) /\ response.singles[i].status \in {"Good", "Revoked"}
    BY <2>1, <2>2, DocumentsAreTyped DEF Matching
  <2>4. ocsp.answer.revocation =
          IF response.singles[i].status = "Revoked" /\ response.singles[i].revocation_time <= time
            THEN "Fail" ELSE "Pass"
    BY <2>2, <2>3, TrustedOcsp
  <2>5. crl_revoked(crl, time) <=> \E date \in dates : date <= time
    BY DEF crl_revoked
  <2>6. (\E date \in dates : date <= time) <=>
          /\ response.singles[i].status = "Revoked"
          /\ response.singles[i].revocation_time <= time
    <3> HIDE DEF dates
    <3> QED
      BY <2>1
  <2> QED
    BY <2>2, <2>4, <2>5, <2>6, TrustedCrl
<1> QED
  BY <1>1, RevocationInvariant, PTL
=============================================================================
