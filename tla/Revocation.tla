----------------------------- MODULE Revocation -----------------------------
(***************************************************************************)
(* The two revocation checkers: check_ocsp_status of src/src/ocsp.rs and   *)
(* check_crl_status of src/src/pem.rs.  A caller holds one certificate     *)
(* with its issuer, one OCSP response and one CRL, and checks them, in any *)
(* order and again, as the validation time moves on.                       *)
(*                                                                         *)
(* A document is the set of answers the parsers and the signature          *)
(* verification give about it; an OCSP time is an unsigned 64-bit number   *)
(* of seconds, a validation time is signed, and the OCSP checker's sums    *)
(* saturate at MaxU64.                                                     *)
(***************************************************************************)
EXTENDS Integers, Sequences, FiniteSets

CONSTANTS
  MaxU64,        \* the largest unsigned 64-bit value
  Timestamps,    \* validation times, in seconds since the epoch
  Targets,       \* certificates with their issuer
  Responses,     \* OCSP responses
  Crls,          \* certificate revocation lists
  Policies,      \* OcspPolicy values
  Nonces,        \* expected nonces, None and BadNonce included
  Cases,         \* which of them a caller may hold together
  BadNonce,      \* not Base64, empty or longer than 32 bytes
  None

ASSUME RevocationConstants ==
  /\ MaxU64 \in Nat
  /\ Timestamps \subseteq {t \in Int : t <= MaxU64}
  /\ \A p \in Policies : /\ p.mode \in {"HardFail", "SoftFail", "NotRequired"}
                         /\ {p.max_age, p.clock_skew} \subseteq 0 .. MaxU64
  /\ None \notin Int
  /\ Cases \subseteq Targets \X Responses \X Crls \X Policies \X Nonces

\* What crypto_state makes of a signature verification.
Crypto == {"Pass", "Fail", "Indeterminate"}

\* The times inside an OCSP response are unsigned, those of a certificate or a
\* CRL are signed.
ASSUME DocumentsAreTyped ==
  /\ \A t \in Targets : t.issuer_signature \in Crypto
  /\ \A r \in Responses :
       /\ r.produced_at \in 0 .. MaxU64
       /\ r.signature_by_issuer \in Crypto
       /\ IsFiniteSet(DOMAIN r.singles)
       /\ \A i \in DOMAIN r.singles :
            /\ r.singles[i].status \in {"Good", "Revoked", "Unknown"}
            /\ {r.singles[i].revocation_time, r.singles[i].this_update} \subseteq 0 .. MaxU64
            /\ r.singles[i].next_update \in 0 .. MaxU64 \cup {None}
       /\ \A i \in DOMAIN r.certs :
            r.certs[i].not_before \in Int /\ r.certs[i].not_after \in Int
  /\ \A l \in Crls :
       /\ l.last_update \in Int
       /\ \A entry \in l.entries : entry.revocation_date \in Int

VARIABLES
  target, response, crl, policy, nonce,  \* what the caller holds
  now,         \* the validation time
  ocsp,        \* the last OCSP answer, with the time it was given for
  crl_answer   \* the last CRL answer, with the time it was given for

documents == <<target, response, crl, policy, nonce>>
vars == <<documents, now, ocsp, crl_answer>>

-----------------------------------------------------------------------------
(* OCSP *)

state(value) == IF value THEN "Pass" ELSE "Fail"

saturating_add(a, b) == IF a + b > MaxU64 THEN MaxU64 ELSE a + b
saturating_sub(a, b) == IF a < b THEN 0 ELSE a - b

\* Mutant: nextUpdate is not looked at.
NeverExpires(produced_at, single, time, p) ==
  /\ time >= 0
  /\ LET upper == saturating_add(time, p.clock_skew) IN
       produced_at <= upper /\ single.this_update <= upper
  /\ saturating_sub(time, single.this_update) <= p.max_age

is_fresh(produced_at, single, time, p) ==
  /\ time >= 0
  /\ LET upper == saturating_add(time, p.clock_skew) IN
       produced_at <= upper /\ single.this_update <= upper
  /\ saturating_sub(time, single.this_update) <= p.max_age
  /\ \/ single.next_update = None
     \/ time <= saturating_add(single.next_update, p.clock_skew)

\* Mutant: a revocation only counts at the very second it took effect.
RevokedOnceOnly(single, time) ==
  CASE single.status = "Revoked" /\ single.revocation_time # time -> "Good"
    [] OTHER -> single.status

\* effective_status_at_validation_time
certificate_status_at(single, time) ==
  CASE single.status = "Revoked" /\ ~(time >= 0 /\ single.revocation_time <= time) -> "Good"
    [] OTHER -> single.status

\* Mutant: an unknown status is not told from a good one.
UnknownIsGood(mode, prerequisites, effective) ==
  CASE mode = "NotRequired" -> "NotApplicable"
    [] mode = "SoftFail" /\ ~prerequisites -> "Indeterminate"
    [] mode = "HardFail" /\ ~prerequisites -> "Fail"
    [] OTHER -> IF effective = "Revoked" THEN "Fail" ELSE "Pass"

\* Mutant: soft-fail only excuses an unknown status.
SoftFailMeansFail(mode, prerequisites, effective) ==
  CASE mode = "NotRequired" -> "NotApplicable"
    [] mode = "SoftFail" /\ effective = "Unknown" -> "Indeterminate"
    [] mode # "NotRequired" /\ ~prerequisites -> "Fail"
    [] OTHER -> IF effective = "Good" THEN "Pass" ELSE "Fail"

revocation_state(mode, prerequisites, effective) ==
  CASE mode = "NotRequired" -> "NotApplicable"
    [] mode = "SoftFail" /\ (~prerequisites \/ effective = "Unknown") -> "Indeterminate"
    [] mode = "HardFail" /\ (~prerequisites \/ effective = "Unknown") -> "Fail"
    [] OTHER -> IF effective = "Revoked" THEN "Fail" ELSE "Pass"

\* No two extensions of one list have the same object identifier.
Distinct(extensions) ==
  \A i, j \in DOMAIN extensions : extensions[i].oid = extensions[j].oid => i = j

NonceExtensions(r) == SelectSeq(r.extensions, LAMBDA extension : extension.oid = "nonce")

\* The value of a nonce extension that does not parse equals no expected nonce.
check_nonce(r, expected) ==
  IF expected = None THEN "Indeterminate"
  ELSE state(Len(NonceExtensions(r)) = 1 /\ NonceExtensions(r)[1].value = expected)

ocsp_extensions_valid(r) ==
  \A list \in {r.extensions} \cup {r.singles[i].extensions : i \in DOMAIN r.singles} :
    Distinct(list) /\ \A i \in DOMAIN list : ~list[i].critical

\* Mutant: the extended key usage is not asked for.
AnyUsage(candidate, time, p) ==
  IF ~candidate.named_by_issuer THEN "Fail"
  ELSE IF candidate.issuer_signature # "Pass" THEN candidate.issuer_signature
  ELSE IF \/ time \notin candidate.not_before .. candidate.not_after
          \/ candidate.key_usage \in {"other", "malformed"} THEN "Fail"
  ELSE IF candidate.nocheck \/ p.delegated_responder_revocation = "Pass" THEN "Pass"
  ELSE "Indeterminate"

\* named_by_issuer: the issuer's name, and one signature algorithm inside and
\* outside.  A time ASN.1 cannot express is outside every validity period.
delegated_responder_state(candidate, time, p) ==
  IF ~candidate.named_by_issuer THEN "Fail"
  ELSE IF candidate.issuer_signature # "Pass" THEN candidate.issuer_signature
  ELSE IF \/ time \notin candidate.not_before .. candidate.not_after
          \/ candidate.extended_usage # "ocsp_signing"
          \/ candidate.key_usage \in {"other", "malformed"} THEN "Fail"
  ELSE IF candidate.nocheck \/ p.delegated_responder_revocation = "Pass" THEN "Pass"
  ELSE "Indeterminate"

\* The included certificates that the responder identifier names.
Named(r) == {i \in DOMAIN r.certs : r.certs[i].parses /\ r.certs[i].named_by_responder_id}

\* The issuer answers for itself; otherwise exactly one included certificate
\* must be the one the responder identifier names.
responder_state(r, time, p) ==
  IF r.issuer_is_responder THEN "Pass"
  ELSE IF Cardinality(Named(r)) # 1 THEN "Fail"
  ELSE delegated_responder_state(r.certs[CHOOSE i \in Named(r) : TRUE], time, p)

signature_state(r) ==
  IF r.issuer_is_responder THEN r.signature_by_issuer
  ELSE IF Cardinality(Named(r)) # 1 THEN "Indeterminate"
  ELSE r.certs[CHOOSE i \in Named(r) : TRUE].response_signature

issuer_state(t) == IF t.named_by_issuer THEN t.issuer_signature ELSE "Fail"

\* cert_id_matches of every SingleResponse.
Matching(r) == {i \in DOMAIN r.singles : r.singles[i].matches}

\* t.parses says that both certificates and the text of the validation time do.
ocsp_error(t, r, expected) ==
  \/ r.kind \in {"malformed", "unsupported_type"}
  \/ ~t.parses
  \/ expected = BadNonce
  \/ r.malformed_algorithm /\ (r.issuer_is_responder \/ Named(r) # {})
  \/ \E i \in DOMAIN r.singles : ~r.singles[i].known_digest
  \/ Cardinality(Matching(r)) > 1

Answer(checks, reported, effective, revocation) ==
  [error |-> FALSE, checks |-> checks, reported |-> reported, effective |-> effective,
   revocation |-> revocation]
NoAnswer == [error |-> TRUE, checks |-> <<>>, reported |-> "none", effective |-> "none",
             revocation |-> "none"]

CheckNames == {"signature", "responder", "issuer", "certificate_id", "freshness",
               "extensions", "nonce"}

unavailable_result == Answer([n \in CheckNames |-> "Indeterminate"],
                             "Unavailable", "Unavailable", "Indeterminate")

\* What check_ocsp_status finds about a response with at most one match.
ocsp_checks(t, r, time, expected, p) ==
  [signature      |-> signature_state(r),
   responder      |-> responder_state(r, time, p),
   issuer         |-> issuer_state(t),
   certificate_id |-> state(Matching(r) # {}),
   freshness      |-> state(\E i \in Matching(r) :
                              is_fresh(r.produced_at, r.singles[i], time, p)),
   extensions     |-> state(ocsp_extensions_valid(r)),
   nonce          |-> check_nonce(r, expected)]

prerequisites_pass(checks, expected) ==
  /\ \A name \in CheckNames \ {"nonce"} : checks[name] = "Pass"
  /\ expected = None \/ checks["nonce"] = "Pass"

ocsp_answer(t, r, time, expected, p) ==
  LET checks == ocsp_checks(t, r, time, expected, p)
      single == r.singles[CHOOSE i \in Matching(r) : TRUE]
      found  == Matching(r) # {}
      effective == IF found THEN certificate_status_at(single, time) ELSE "Unknown"
  IN  Answer(checks, IF found THEN single.status ELSE "Unknown", effective,
             revocation_state(p.mode, prerequisites_pass(checks, expected), effective))

\* A response that is not "successful" is answered before anything is read.
check_ocsp_status(t, r, time, expected, p) ==
  IF r.kind = "unsuccessful" THEN unavailable_result
  ELSE IF ocsp_error(t, r, expected) THEN NoAnswer
  ELSE ocsp_answer(t, r, time, expected, p)

-----------------------------------------------------------------------------
(* CRL *)

\* Delta CRLs, partial CRLs and indirect CRLs are refused, and so is a critical
\* extension that the parser does not know or cannot read.
extensions_supported(list, refused) ==
  /\ Distinct(list)
  /\ \A i \in DOMAIN list :
       list[i].oid \notin refused /\ (list[i].critical => list[i].understood)

validate_crl_extensions(l) ==
  /\ extensions_supported(l.extensions, {"delta_crl", "issuing_distribution_point"})
  /\ \A entry \in l.entries : extensions_supported(entry.extensions, {"certificate_issuer"})

crl_fresh(l, time) ==
  l.last_update <= time /\ l.next_update # None /\ time < l.next_update

crl_issuer_matches(t, l) ==
  t.named_by_issuer /\ l.named_by_issuer /\ t.issuer_signature = "Pass"

\* An issuer without the key usage extension may sign.
crl_signature_valid(t, l) ==
  l.algorithms_agree /\ t.crl_sign \in {"yes", "absent"} /\ l.signature = "Pass"

\* Mutant: an entry counts before its revocation date.
RevokedEarly(l, time) ==
  \E entry \in l.entries : ~entry.removed /\ entry.same_serial

crl_revoked(l, time) ==
  \E entry \in l.entries :
    entry.revocation_date <= time /\ ~entry.removed /\ entry.same_serial

\* The CRL result reports the checks only; both statuses here are `revoked`.
check_crl_status(t, l, time) ==
  IF ~t.parses \/ ~l.parses \/ ~validate_crl_extensions(l) THEN NoAnswer
  ELSE LET checks == [signature |-> state(crl_signature_valid(t, l)),
                      issuer    |-> state(crl_issuer_matches(t, l)),
                      freshness |-> state(crl_fresh(l, time))]
           revoked == crl_revoked(l, time)
           status == IF revoked THEN "Revoked" ELSE "Good"
       IN  Answer(checks, status, status,
                  IF \A name \in DOMAIN checks : checks[name] = "Pass"
                    THEN state(~revoked) ELSE "Indeterminate")

-----------------------------------------------------------------------------
(* The caller *)

Init ==
  /\ \E case \in Cases :
       /\ target = case[1] /\ response = case[2] /\ crl = case[3]
       /\ policy = case[4] /\ nonce = case[5]
  /\ now \in Timestamps
  /\ ocsp = [at |-> now, answer |-> NoAnswer]
  /\ crl_answer = [at |-> now, answer |-> NoAnswer]

CheckOcsp ==
  /\ ocsp' = [at |-> now,
              answer |-> check_ocsp_status(target, response, now, nonce, policy)]
  /\ UNCHANGED <<documents, now, crl_answer>>

CheckCrl ==
  /\ crl_answer' = [at |-> now, answer |-> check_crl_status(target, crl, now)]
  /\ UNCHANGED <<documents, now, ocsp>>

TimePasses ==
  /\ now' \in {t \in Timestamps : t > now}
  /\ UNCHANGED <<documents, ocsp, crl_answer>>

Next == CheckOcsp \/ CheckCrl \/ TimePasses

Spec == Init /\ [][Next]_vars

-----------------------------------------------------------------------------
(* Properties *)

Answers == {ocsp.answer, crl_answer.answer}

\* Both answers are typed and given for a time that has been reached, and only
\* a good effective status passes.
TypeOK ==
  /\ now \in Timestamps
  /\ {ocsp.at, crl_answer.at} \subseteq {t \in Timestamps : t <= now}
  /\ \A answer \in Answers :
       /\ answer.error \in BOOLEAN
       /\ ~answer.error =>
            /\ answer.effective \in {"Good", "Revoked", "Unknown", "Unavailable"}
            /\ answer.revocation \in {"Pass", "Fail", "Indeterminate", "NotApplicable"}
            /\ answer.revocation = "Pass" => answer.effective = "Good"

\* A delegated responder the issuer authorized, valid at the time.
Authorized(candidate, time) ==
  /\ candidate.named_by_responder_id
  /\ candidate.named_by_issuer
  /\ candidate.issuer_signature = "Pass"
  /\ candidate.not_before <= time /\ time <= candidate.not_after
  /\ candidate.extended_usage = "ocsp_signing"
  /\ candidate.nocheck \/ policy.delegated_responder_revocation = "Pass"

\* The response speaks of the certificate at the time, in plain arithmetic.
Current(single, time) ==
  /\ single.matches
  /\ response.produced_at <= time + policy.clock_skew
  /\ single.this_update <= time + policy.clock_skew
  /\ time - single.this_update <= policy.max_age
  /\ single.next_update # None => time <= single.next_update + policy.clock_skew

\* What a passed revocation check must rest on.
GoodIsEarned(time) ==
  /\ target.named_by_issuer /\ target.issuer_signature = "Pass"
  /\ \E i \in DOMAIN response.singles :
       /\ Current(response.singles[i], time)
       /\ \/ response.singles[i].status = "Good"
          \/ response.singles[i].status = "Revoked" /\ time < response.singles[i].revocation_time
  /\ \/ response.issuer_is_responder /\ response.signature_by_issuer = "Pass"
     \/ \E i \in DOMAIN response.certs : /\ Authorized(response.certs[i], time)
                                        /\ response.certs[i].response_signature = "Pass"
  /\ nonce # None => /\ Len(NonceExtensions(response)) = 1
                     /\ NonceExtensions(response)[1].value = nonce

\* A passed OCSP check is earned: signed by the issuer or by a responder it
\* authorized, about this certificate, current in plain arithmetic although
\* the code saturates, not revoked by then, and carrying the requested nonce.
OcspSound == ocsp.answer.revocation = "Pass" => GoodIsEarned(ocsp.at)

\* Under soft-fail only a trusted statement of revocation fails the check: a
\* bad, stale or unauthorized response never does (revocation_state).
SoftFailNeedsRevocation ==
  policy.mode = "SoftFail" /\ ocsp.answer.revocation = "Fail" =>
    /\ ocsp.answer.effective = "Revoked"
    /\ prerequisites_pass(ocsp.answer.checks, nonce)

\* A certificate found revoked stays so: checking the same documents for a
\* later time never finds it good again, by either checker.
RevokedStaysRevoked ==
  [][/\ ocsp.answer.effective = "Revoked" => ocsp'.answer.effective = "Revoked"
     /\ crl_answer.answer.effective = "Revoked" =>
          crl_answer'.answer.effective = "Revoked"]_vars

\* The two documents describe the same entry of the issuer's records.
SameRecord ==
  LET dates == {entry.revocation_date : entry \in
                  {e \in crl.entries : e.same_serial /\ ~e.removed}}
  IN  \E i \in DOMAIN response.singles :
        /\ response.singles[i].matches
        /\ dates = IF response.singles[i].status = "Revoked"
                     THEN {response.singles[i].revocation_time} ELSE {}
        /\ response.singles[i].status # "Unknown"

\* From the same record and for the same time, the two checkers never
\* contradict each other when both trust their document.
CheckersAgree ==
  /\ SameRecord
  /\ ocsp.at = crl_answer.at
  /\ ~ocsp.answer.error
  /\ prerequisites_pass(ocsp.answer.checks, nonce)
  /\ policy.mode # "NotRequired"
  /\ crl_answer.answer.revocation \in {"Pass", "Fail"}
  => ocsp.answer.revocation = crl_answer.answer.revocation

\* The test revocation_policy_modes_are_explicit (src/src/ocsp.rs line 718):
\* hard-fail without usable evidence is Fail, not-required is NotApplicable.
\* The answer for an unavailable responder looks at neither mode.
ModesAreExplicit ==
  ~ocsp.answer.error =>
    /\ policy.mode = "HardFail" => ocsp.answer.revocation # "Indeterminate"
    /\ policy.mode = "NotRequired" => ocsp.answer.revocation = "NotApplicable"
=============================================================================
