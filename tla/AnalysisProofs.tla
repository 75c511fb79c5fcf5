--------------------------- MODULE AnalysisProofs ---------------------------
(***************************************************************************)
(* Proofs about the analyses, for any number of odd results and replaced   *)
(* files.                                                                  *)
(***************************************************************************)
EXTENDS Analyses, EvaluationProofs, SequenceTheorems, FiniteSetTheorems

-----------------------------------------------------------------------------
(* Steps *)

\* What the operations can yield.
CrlAnswers ==
  {<<"Pass", "Pass">>, <<"Pass", "Fail">>, <<"Pass", "Indeterminate">>, <<"Fail", "Indeterminate">>}
ConformanceAnswers == {{c} : c \in {"binding", "dns_identity_overlap"}} \cup {{}}

LEMMA RunFields ==
  ASSUME NEW id, NEW what, NEW mode, NEW inputs, NEW nominal
  PROVE  LET s == Run(id, what, mode, inputs, nominal) IN
         /\ s.name = <<id, what>> /\ s.op = mode /\ s.nominal = nominal
         /\ s.others = StackVerdict \ {nominal} /\ s.inputs = inputs
BY DEF Run, Step

LEMMA DigestFields ==
  ASSUME NEW id, NEW what, NEW file
  PROVE  LET s == Digest(id, what, file) IN
         /\ s.name = <<id, what>> /\ s.op = "digest" /\ s.nominal = file \o <<"v1">>
         /\ s.others = {} /\ s.inputs.certificate = file /\ s.inputs = [certificate |-> file]
BY DEF Digest, Step, DigestOf, Unchanged, Range

\* Tuples of a file's name and a version, put together.
LEMMA Joined ==
  /\ \A a, b, c : <<a>> \o <<b, c>> = <<a, b, c>>
  /\ \A a, b, c : <<a, b>> \o <<c>> = <<a, b, c>>
  /\ \A a, b, c, d, e : <<a, b, c>> \o <<d, e>> = <<a, b, c, d, e>>
  /\ \A a, b, c, d, e, f : <<a, b, c, d, e>> \o <<f>> = <<a, b, c, d, e, f>>
<1>1. ASSUME NEW a, NEW b, NEW c PROVE <<a>> \o <<b, c>> = <<a, b, c>>
  <2>1. /\ <<a>> \in Seq({a, b, c}) /\ <<b, c>> \in Seq({a, b, c})
        /\ <<a, b, c>> \in Seq({a, b, c}) /\ <<a>> \o <<b, c>> \in Seq({a, b, c})
    OBVIOUS
  <2>2. /\ Len(<<a>> \o <<b, c>>) = 3
        /\ \A i \in 1 .. 3 : (<<a>> \o <<b, c>>)[i] = <<a, b, c>>[i]
    BY <2>1
  <2> QED
    BY <2>1, <2>2, SeqEqual
<1>2. ASSUME NEW a, NEW b, NEW c PROVE <<a, b>> \o <<c>> = <<a, b, c>>
  <2>1. /\ <<a, b>> \in Seq({a, b, c}) /\ <<c>> \in Seq({a, b, c})
        /\ <<a, b, c>> \in Seq({a, b, c}) /\ <<a, b>> \o <<c>> \in Seq({a, b, c})
    OBVIOUS
  <2>2. /\ Len(<<a, b>> \o <<c>>) = 3
        /\ \A i \in 1 .. 3 : (<<a, b>> \o <<c>>)[i] = <<a, b, c>>[i]
    BY <2>1
  <2> QED
    BY <2>1, <2>2, SeqEqual
<1>3. ASSUME NEW a, NEW b, NEW c, NEW d, NEW e
      PROVE  <<a, b, c>> \o <<d, e>> = <<a, b, c, d, e>>
  <2> DEFINE X == {a, b, c, d, e}
  <2>1. /\ <<a, b, c>> \in Seq(X) /\ <<d, e>> \in Seq(X)
        /\ <<a, b, c, d, e>> \in Seq(X) /\ <<a, b, c>> \o <<d, e>> \in Seq(X)
    OBVIOUS
  <2>2. /\ Len(<<a, b, c>> \o <<d, e>>) = 5
        /\ \A i \in 1 .. 5 : (<<a, b, c>> \o <<d, e>>)[i] = <<a, b, c, d, e>>[i]
    BY <2>1
  <2> QED
    BY <2>1, <2>2, SeqEqual
<1>4. ASSUME NEW a, NEW b, NEW c, NEW d, NEW e, NEW f
      PROVE  <<a, b, c, d, e>> \o <<f>> = <<a, b, c, d, e, f>>
  <2> DEFINE X == {a, b, c, d, e, f}
  <2>1. /\ <<a, b, c, d, e>> \in Seq(X) /\ <<f>> \in Seq(X)
        /\ <<a, b, c, d, e, f>> \in Seq(X) /\ <<a, b, c, d, e>> \o <<f>> \in Seq(X)
    OBVIOUS
  <2>2. /\ Len(<<a, b, c, d, e>> \o <<f>>) = 6
        /\ \A i \in 1 .. 6 : (<<a, b, c, d, e>> \o <<f>>)[i] = <<a, b, c, d, e, f>>[i]
    BY <2>1
  <2> QED
    BY <2>1, <2>2, SeqEqual
<1> QED
  BY <1>1, <1>2, <1>3, <1>4

\* The digest of a file as it was.
LEMMA NominalDigest ==
  ASSUME NEW f
  PROVE  DigestOf(<<f>>, Unchanged(<<f>>)) = f \o <<"v1">>
BY DEF DigestOf, Unchanged, Range

LEMMA EdgeFields ==
  ASSUME NEW id, NEW what, NEW file, NEW issuer
  PROVE  LET s == Edge(id, what, file, issuer) IN
         /\ s.name = <<id, what>> /\ s.op = "edge"
         /\ s.nominal = file \o <<"v1">> \o issuer \o <<"v1">>
         /\ s.others = {} /\ s.inputs.certificate = file /\ s.inputs.issuer = issuer
         /\ s.inputs = [certificate |-> file, issuer |-> issuer]
<1> DEFINE v == Unchanged(<<file, issuer>>)
           edge == DigestOf(<<file, issuer>>, v)
<1>1. v[file] = "v1" /\ v[issuer] = "v1"
  BY DEF Unchanged, Range
<1>2. edge = file \o <<"v1">> \o issuer \o <<"v1">>
  <2> HIDE DEF v
  <2> QED
    BY <1>1 DEF DigestOf
<1>3. Edge(id, what, file, issuer)
        = Step(id, what, "edge", [certificate |-> file, issuer |-> issuer], edge, {})
  BY DEF Edge
<1> HIDE DEF edge
<1> QED
  BY <1>2, <1>3 DEF Step

LEMMA SelectFields ==
  ASSUME NEW leaf, NEW intermediate, NEW root
  PROVE  LET s == Select(leaf, intermediate, root) IN
         /\ s.name = <<"path", "selected">> /\ s.op = "select"
         /\ s.nominal = <<leaf \o <<"v1">>, intermediate \o <<"v1">>, root \o <<"v1">>>>
         /\ s.others = {}
         /\ s.inputs = [leaf |-> leaf, intermediate |-> intermediate, root |-> root]
<1> DEFINE l == DigestOf(<<leaf>>, Unchanged(<<leaf>>))
           m == DigestOf(<<intermediate>>, Unchanged(<<intermediate>>))
           n == DigestOf(<<root>>, Unchanged(<<root>>))
<1>1. l = leaf \o <<"v1">> /\ m = intermediate \o <<"v1">> /\ n = root \o <<"v1">>
  BY NominalDigest
<1>2. Select(leaf, intermediate, root)
        = Step("path", "selected", "select",
               [leaf |-> leaf, intermediate |-> intermediate, root |-> root], <<l, m, n>>, {})
  BY DEF Select
<1> HIDE DEF l, m, n
<1> QED
  BY <1>1, <1>2 DEF Step

LEMMA CheckFields ==
  /\ \A id, what, file : LET s == Validity(id, what, file) IN
       s.name = <<id, what>> /\ s.op = "validity" /\ s.nominal = "Pass" /\ s.others = {"Fail"}
  /\ \A id, what, certificate, issuer, crl, nominal :
       LET s == CrlStatus(id, what, certificate, issuer, crl, nominal) IN
       /\ s.name = <<id, what>> /\ s.op = "crl_status" /\ s.nominal = nominal
       /\ s.others = CrlAnswers \ {nominal}
  /\ \A id, what, reference, related, nominal :
       LET s == Conformance(id, what, reference, related, nominal) IN
       /\ s.name = <<id, what>> /\ s.op = "conformance" /\ s.nominal = nominal
       /\ s.others = ConformanceAnswers \ {nominal}
  /\ \A id, what, reference, related, nominal :
       LET s == Binding(id, what, reference, related, nominal) IN
       /\ s.name = <<id, what>> /\ s.op = "binding" /\ s.nominal = nominal
       /\ s.others = {"Pass", "Fail"} \ {nominal}
  /\ \A id, file : LET s == Corrupt(id, file) IN
       /\ s.name = <<id, "corrupt">> /\ s.op = "corrupt" /\ s.nominal = "written" /\ s.others = {}
  /\ \A role, place : LET s == Inspect(<<role, place>>) IN
       /\ s.name = <<"inspect", role, place>> /\ s.op = "inspect" /\ s.nominal = "expected"
       /\ s.others = {"other"}
BY Joined DEF Validity, CrlStatus, Conformance, Binding, Corrupt, Inspect, Step, CrlAnswers,
   ConformanceAnswers

LEMMA BuilderFields ==
  ASSUME NEW id, NEW what, NEW roots, NEW intermediates, NEW leaf, NEW nominal
  PROVE  LET s == Builder(id, what, roots, intermediates, leaf, nominal) IN
         /\ s.name = <<id, what>> /\ s.op = "PathBuilder" /\ s.nominal = nominal
BY DEF Builder, Step

LEMMA HashFields ==
  /\ \A id, what, file : LET s == Digest(id, what, file) IN
       s.name = <<id, what>> /\ s.op = "digest"
  /\ \A id, what, file, issuer : LET s == Edge(id, what, file, issuer) IN
       s.name = <<id, what>> /\ s.op = "edge"
  /\ \A leaf, intermediate, root : LET s == Select(leaf, intermediate, root) IN
       s.name = <<"path", "selected">> /\ s.op = "select" /\ DOMAIN s.nominal = 1 .. 3
BY DEF Digest, Edge, Select, Step

LEMMA ConformanceFields ==
  ASSUME NEW s, NEW id, NEW what, NEW reference, NEW related, NEW nominal,
         s = Conformance(id, what, reference, related, nominal)
  PROVE  /\ s.name = <<id, what>> /\ s.op = "conformance" /\ s.nominal = nominal
         /\ s.others = ConformanceAnswers \ {nominal}
BY CheckFields

-----------------------------------------------------------------------------
(* Sequences of steps *)

\* A sequence of steps with different names, made of these words.
Listed(steps, ids, words) ==
  /\ \E X : steps \in Seq(X)
  /\ \A i \in DOMAIN steps : steps[i].name[1] \in ids /\ steps[i].name[2] \in words
  /\ \A i, j \in DOMAIN steps : steps[i].name = steps[j].name => i = j

\* Some step is like this one.
Does(steps, id, what, ops, nominal, others) ==
  \E i \in DOMAIN steps :
    /\ steps[i].name = <<id, what>> /\ steps[i].op \in ops
    /\ steps[i].nominal = nominal /\ steps[i].others = others

Runs(steps, id, what, verdict) ==
  Does(steps, id, what, Modes, verdict, StackVerdict \ {verdict})
Checked(steps, id, what) == Does(steps, id, what, {"validity"}, "Pass", {"Fail"})
Hashes(steps, id, what) ==
  \E i \in DOMAIN steps : steps[i].name = <<id, what>> /\ steps[i].op \in {"digest", "edge"}
Selects(steps) ==
  \E i \in DOMAIN steps : /\ steps[i].name = <<"path", "selected">> /\ steps[i].op = "select"
                          /\ DOMAIN steps[i].nominal = 1 .. 3

LEMMA Concatenation ==
  ASSUME NEW s, NEW t, \E X : s \in Seq(X), \E X : t \in Seq(X)
  PROVE  /\ \E X : s \o t \in Seq(X)
         /\ Len(s) \in Nat /\ Len(t) \in Nat /\ Len(s \o t) = Len(s) + Len(t)
         /\ DOMAIN s = 1 .. Len(s) /\ DOMAIN t = 1 .. Len(t)
         /\ DOMAIN (s \o t) = 1 .. Len(s) + Len(t)
         /\ \A i \in 1 .. Len(s) + Len(t) :
              /\ i <= Len(s) => i \in DOMAIN s /\ (s \o t)[i] = s[i]
              /\ ~(i <= Len(s)) => i - Len(s) \in DOMAIN t /\ (s \o t)[i] = t[i - Len(s)]
<1>1. PICK X : s \in Seq(X)
  OBVIOUS
<1>2. PICK Y : t \in Seq(Y)
  OBVIOUS
<1>3. s \in Seq(X \cup Y) /\ t \in Seq(X \cup Y)
  BY <1>1, <1>2
<1> QED
  BY <1>3

\* Every element of a concatenation is one of its parts', and the other way round.
LEMMA ConcatElements ==
  ASSUME NEW s, NEW t, \E X : s \in Seq(X), \E X : t \in Seq(X)
  PROVE  /\ \A i \in DOMAIN s : i \in DOMAIN (s \o t) /\ (s \o t)[i] = s[i]
         /\ \A i \in DOMAIN t : Len(s) + i \in DOMAIN (s \o t) /\ (s \o t)[Len(s) + i] = t[i]
<1> DEFINE st == s \o t
<1>1. /\ Len(s) \in Nat /\ Len(t) \in Nat
      /\ DOMAIN s = 1 .. Len(s) /\ DOMAIN t = 1 .. Len(t)
      /\ DOMAIN st = 1 .. Len(s) + Len(t)
      /\ \A i \in 1 .. Len(s) + Len(t) :
              /\ i <= Len(s) => i \in DOMAIN s /\ st[i] = s[i]
              /\ ~(i <= Len(s)) => i - Len(s) \in DOMAIN t /\ st[i] = t[i - Len(s)]
  BY Concatenation
<1> HIDE DEF st
<1>2. ASSUME NEW i \in DOMAIN t PROVE Len(s) + i \in DOMAIN st /\ st[Len(s) + i] = t[i]
  <2>1. Len(s) + i \in 1 .. Len(s) + Len(t) /\ ~(Len(s) + i <= Len(s)) /\ (Len(s) + i) - Len(s) = i
    BY <1>1
  <2> QED
    BY <1>1, <2>1
<1>3. ASSUME NEW i \in DOMAIN s PROVE i \in DOMAIN st /\ st[i] = s[i]
  BY <1>1
<1> QED
  BY <1>2, <1>3 DEF st

\* Two sequences of steps that share no name, one after the other.
LEMMA ListedConcat ==
  ASSUME NEW s, NEW t, NEW A, NEW B, NEW V, NEW W, Listed(s, A, V), Listed(t, B, W),
         A \cap B = {} \/ V \cap W = {},
         NEW C, NEW Z, A \subseteq C, B \subseteq C, V \subseteq Z, W \subseteq Z
  PROVE  Listed(s \o t, C, Z)
<1> DEFINE st == s \o t
<1>1. /\ \E X : st \in Seq(X)
      /\ Len(s) \in Nat /\ Len(t) \in Nat /\ Len(st) = Len(s) + Len(t)
      /\ DOMAIN s = 1 .. Len(s) /\ DOMAIN t = 1 .. Len(t)
      /\ DOMAIN st = 1 .. Len(s) + Len(t)
      /\ \A i \in 1 .. Len(s) + Len(t) :
              /\ i <= Len(s) => i \in DOMAIN s /\ st[i] = s[i]
              /\ ~(i <= Len(s)) => i - Len(s) \in DOMAIN t /\ st[i] = t[i - Len(s)]
  BY Concatenation DEF Listed
<1> HIDE DEF st
<1>3. ASSUME NEW i \in DOMAIN st
      PROVE  /\ st[i].name[1] \in C /\ st[i].name[2] \in Z
             /\ i <= Len(s) => st[i].name[1] \in A /\ st[i].name[2] \in V
             /\ ~(i <= Len(s)) => st[i].name[1] \in B /\ st[i].name[2] \in W
  BY <1>1 DEF Listed
<1>4. ASSUME NEW i \in DOMAIN st, NEW j \in DOMAIN st, st[i].name = st[j].name PROVE i = j
  <2>1. i <= Len(s) <=> j <= Len(s)
    BY <1>3, <1>4
  <2>2. CASE i <= Len(s)
    BY <1>1, <1>4, <2>1, <2>2 DEF Listed
  <2>3. CASE ~(i <= Len(s))
    <3>1. /\ i - Len(s) \in DOMAIN t /\ j - Len(s) \in DOMAIN t
          /\ t[i - Len(s)].name = t[j - Len(s)].name
      BY <1>1, <1>4, <2>1, <2>3
    <3>2. i - Len(s) = j - Len(s)
      BY <3>1, Zenon DEF Listed
    <3> QED
      BY <3>2, <1>1
  <2> QED
    BY <2>2, <2>3
<1>5. Listed(st, C, Z)
  BY <1>1, <1>3, <1>4 DEF Listed
<1> QED
  BY <1>5 DEF st

\* Every step of one sequence is a step of the other.
Part(s, t) == \A i \in DOMAIN s : \E j \in DOMAIN t : t[j] = s[i]

\* What a step of a part does, a step of the whole does.
LEMMA PartDoes ==
  ASSUME NEW s, NEW t, Part(s, t), NEW id, NEW what, NEW ops, NEW nominal, NEW others,
         Does(s, id, what, ops, nominal, others)
  PROVE  Does(t, id, what, ops, nominal, others)
BY DEF Does, Part

LEMMA PartRuns ==
  ASSUME NEW s, NEW t, Part(s, t), NEW id, NEW what, NEW v, Runs(s, id, what, v)
  PROVE  Runs(t, id, what, v)
BY PartDoes DEF Runs

LEMMA PartChecked ==
  ASSUME NEW s, NEW t, Part(s, t), NEW id, NEW what, Checked(s, id, what)
  PROVE  Checked(t, id, what)
BY PartDoes DEF Checked

LEMMA PartHashes ==
  ASSUME NEW s, NEW t, Part(s, t), NEW id, NEW what, Hashes(s, id, what)
  PROVE  Hashes(t, id, what)
BY DEF Hashes, Part

LEMMA PartSelects ==
  ASSUME NEW s, NEW t, Part(s, t), Selects(s)
  PROVE  Selects(t)
BY DEF Selects, Part

LEMMA ConcatParts ==
  ASSUME NEW s, NEW t, NEW A, NEW B, NEW V, NEW W, Listed(s, A, V), Listed(t, B, W)
  PROVE  Part(s, s \o t) /\ Part(t, s \o t)
<1> DEFINE st == s \o t
<1>1. /\ \A i \in DOMAIN s : i \in DOMAIN st /\ st[i] = s[i]
      /\ \A i \in DOMAIN t : Len(s) + i \in DOMAIN st /\ st[Len(s) + i] = t[i]
  BY ConcatElements DEF Listed
<1> HIDE DEF st
<1>2. Part(s, st) /\ Part(t, st)
  BY <1>1 DEF Part
<1> QED
  BY <1>2 DEF st

LEMMA PartOfPart ==
  ASSUME NEW s, NEW t, NEW u, Part(s, t), Part(t, u)
  PROVE  Part(s, u)
BY DEF Part

\* Steps named after these things.
Grouped(steps, ids) == \E words : Listed(steps, ids, words)

\* Steps about different things.
LEMMA GroupedConcat ==
  ASSUME NEW s, NEW t, NEW A, NEW B, Grouped(s, A), Grouped(t, B), A \cap B = {}
  PROVE  Grouped(s \o t, A \cup B) /\ Part(s, s \o t) /\ Part(t, s \o t)
<1>1. PICK V : Listed(s, A, V)
  BY DEF Grouped
<1>2. PICK W : Listed(t, B, W)
  BY DEF Grouped
<1>3. A \subseteq A \cup B /\ B \subseteq A \cup B /\ V \subseteq V \cup W /\ W \subseteq V \cup W
  OBVIOUS
<1>4. Listed(s \o t, A \cup B, V \cup W)
  BY <1>1, <1>2, <1>3, ListedConcat
<1>5. Part(s, s \o t) /\ Part(t, s \o t)
  BY <1>1, <1>2, ConcatParts
<1> QED
  BY <1>4, <1>5 DEF Grouped

\* Inspections, runs of whole paths, the three positions and the anchor.
LEMMA PathTable ==
  ASSUME NEW c, NEW e, NEW m, NEW r, NEW d,
         Grouped(c, {"inspect", "path"}), Grouped(e, {"EndEntity"}), Grouped(m, {"Intermediate"}),
         Grouped(r, {"TrustAnchor"}), Grouped(d, {"anchor"})
  PROVE  LET T == c \o e \o m \o r \o d IN
         /\ Grouped(T, {"inspect", "path", "EndEntity", "Intermediate", "TrustAnchor", "anchor"})
         /\ Part(c, T) /\ Part(e, T) /\ Part(m, T) /\ Part(d, T)
<1> DEFINE t1 == c \o e
           t2 == t1 \o m
           t3 == t2 \o r
           T == t3 \o d
           I1 == {"inspect", "path"} \cup {"EndEntity"}
           I2 == I1 \cup {"Intermediate"}
           I3 == I2 \cup {"TrustAnchor"}
           I4 == I3 \cup {"anchor"}
<1>1. Grouped(t1, I1) /\ Part(c, t1) /\ Part(e, t1)
  <2>1. {"inspect", "path"} \cap {"EndEntity"} = {}
    OBVIOUS
  <2> QED
    BY <2>1, GroupedConcat
<1> HIDE DEF t1
<1>2. Grouped(t2, I2) /\ Part(t1, t2) /\ Part(m, t2)
  <2>1. I1 \cap {"Intermediate"} = {}
    OBVIOUS
  <2> QED
    BY <1>1, <2>1, GroupedConcat
<1> HIDE DEF t2
<1>3. Grouped(t3, I3) /\ Part(t2, t3)
  <2>1. I2 \cap {"TrustAnchor"} = {}
    OBVIOUS
  <2> QED
    BY <1>2, <2>1, GroupedConcat
<1> HIDE DEF t3
<1>4. Grouped(T, I4) /\ Part(t3, T) /\ Part(d, T)
  <2>1. I3 \cap {"anchor"} = {}
    OBVIOUS
  <2> QED
    BY <1>3, <2>1, GroupedConcat
<1>5. I4 = {"inspect", "path", "EndEntity", "Intermediate", "TrustAnchor", "anchor"}
  OBVIOUS
<1> HIDE DEF T, I1, I2, I3, I4
<1>6. Part(t2, T) /\ Part(t1, T) /\ Part(m, T) /\ Part(c, T) /\ Part(e, T)
  BY <1>1, <1>2, <1>3, <1>4, PartOfPart
<1>7. T = c \o e \o m \o r \o d
  BY DEF T, t3, t2, t1
<1> QED
  BY <1>4, <1>5, <1>6, <1>7

-----------------------------------------------------------------------------
(* The parts of the tables *)

LEMMA InspectChainListed ==
  ASSUME NEW role
  PROVE  Listed(InspectChain(role), {"inspect"}, {role})
<1> DEFINE s == InspectChain(role)
<1>1. DOMAIN s = 1 .. 3 /\ s \in Seq(Range(s))
  BY DEF Range, InspectChain
<1>2. /\ s[1].name = <<"inspect", role, "root">> /\ s[2].name = <<"inspect", role, "intermediate">>
      /\ s[3].name = <<"inspect", role, "leaf">>
  BY CheckFields DEF InspectChain
<1> HIDE DEF s
<1>3. \A i, j \in DOMAIN s : s[i].name = s[j].name => i = j
  BY <1>1, <1>2
<1>4. \A i \in DOMAIN s : s[i].name[1] = "inspect" /\ s[i].name[2] = role
  BY <1>1, <1>2
<1> QED
  BY <1>1, <1>3, <1>4 DEF s, Listed

LEMMA ValidPathListed ==
  ASSUME NEW what, what # "selected", NEW role
  PROVE  /\ Listed(ValidPath(what, role), {"path"}, {what, "selected"})
         /\ Runs(ValidPath(what, role), "path", what, "Accept") /\ Selects(ValidPath(what, role))
<1> DEFINE s == ValidPath(what, role)
<1>1. DOMAIN s = 1 .. 2 /\ s \in Seq(Range(s))
  BY DEF Range, ValidPath
<1>2. /\ s[1].name = <<"path", what>> /\ s[1].op = "Path" /\ s[1].nominal = "Accept"
      /\ s[1].others = StackVerdict \ {"Accept"}
      /\ s[2].name = <<"path", "selected">> /\ s[2].op = "select" /\ DOMAIN s[2].nominal = 1 .. 3
  BY RunFields, HashFields DEF ValidPath
<1> HIDE DEF s
<1>3. \A i, j \in DOMAIN s : s[i].name = s[j].name => i = j
  BY <1>1, <1>2
<1>4. \A i \in DOMAIN s : s[i].name[1] = "path" /\ s[i].name[2] \in {what, "selected"}
  BY <1>1, <1>2
<1>5. Runs(s, "path", what, "Accept") /\ Selects(s)
  BY <1>1, <1>2 DEF Runs, Does, Modes, Selects
<1> QED
  BY <1>1, <1>3, <1>4, <1>5 DEF s, Listed

LEMMA IdentityListed ==
  ASSUME NEW role, NEW p \in PathPosition
  PROVE  /\ Listed(Identity(role, p), {p}, {"digest", "edge"})
         /\ Hashes(Identity(role, p), p, "digest")
         /\ p # "TrustAnchor" => Hashes(Identity(role, p), p, "edge")
<1> DEFINE d == <<Digest(p, "digest", At(role, p))>>
           e == <<Edge(p, "edge", At(role, p), IssuerAt(role, p))>>
           n == <<>>
<1>1. d[1].name = <<p, "digest">> /\ d[1].op = "digest" /\ DOMAIN d = {1} /\ d \in Seq(Range(d))
  BY HashFields DEF Range
<1>2. e[1].name = <<p, "edge">> /\ e[1].op = "edge" /\ DOMAIN e = {1} /\ e \in Seq(Range(e))
  BY HashFields DEF Range
<1>3. Identity(role, p) = d \o (IF p = "TrustAnchor" THEN n ELSE e)
  BY DEF Identity
<1>4. n \in Seq({}) /\ DOMAIN n = {}
  OBVIOUS
<1> HIDE DEF d, e, n
<1>5. Listed(d, {p}, {"digest"}) /\ Hashes(d, p, "digest")
  BY <1>1 DEF Listed, Hashes
<1>6. Listed(e, {p}, {"edge"}) /\ Hashes(e, p, "edge")
  BY <1>2 DEF Listed, Hashes
<1>7. Listed(n, {p}, {"edge"})
  BY <1>4 DEF Listed
<1>8. {"digest"} \cap {"edge"} = {} /\ {"digest"} \cup {"edge"} = {"digest", "edge"}
        /\ {p} \cup {p} = {p}
  OBVIOUS
<1>9. CASE p = "TrustAnchor"
  <2>1. Identity(role, p) = d \o n
    BY <1>3, <1>9
  <2>2. Listed(d \o n, {p}, {"digest", "edge"}) /\ Part(d, d \o n)
    BY <1>5, <1>7, <1>8, ListedConcat, ConcatParts
  <2> QED
    BY <1>5, <1>9, <2>1, <2>2, PartHashes
<1>10. CASE p # "TrustAnchor"
  <2>1. Identity(role, p) = d \o e
    BY <1>3, <1>10
  <2>2. Listed(d \o e, {p}, {"digest", "edge"}) /\ Part(d, d \o e) /\ Part(e, d \o e)
    BY <1>5, <1>6, <1>8, ListedConcat, ConcatParts
  <2> QED
    BY <1>5, <1>6, <1>10, <2>1, <2>2, PartHashes
<1> QED
  BY <1>9, <1>10

AtomicSignatures ==
  {"valid_signature", "invalid_classical_signature", "invalid_post_quantum_signature",
   "invalid_classical_path", "invalid_post_quantum_path"}

\* What the table does about a certificate that is not the anchor.
AtomicAt(T, p) ==
  /\ Hashes(T, p, "digest") /\ Hashes(T, p, "edge") /\ Runs(T, p, "valid_signature", "Accept")
  /\ Runs(T, p, "invalid_classical_signature", "Reject")
  /\ Runs(T, p, "invalid_post_quantum_signature", "Reject")
  /\ Runs(T, p, "invalid_classical_path", "Reject")
  /\ Runs(T, p, "invalid_post_quantum_path", "Reject") /\ Checked(T, p, "validity")
  /\ Runs(T, p, "crl", "Accept")

LEMMA AtomicPosition ==
  ASSUME NEW p \in PathPosition
  PROVE  LET s == atomic_position_steps(p) IN
         /\ Listed(s, {p}, AtomicSignatures \cup {"digest", "edge", "validity", "crl"})
         /\ p # "TrustAnchor" => AtomicAt(s, p)
<1> DEFINE
      Direct(what, c, w) ==
        Run(p, what, "CertificateSignature", direct(<<"atomic", "root">>, IssuerAt("atomic", p),
          c), w)
      Replaced(what, other) ==
        Run(p, what, "Path", path_with_replacement("atomic", p, other), IfNotAnchor(p, "Reject"))
      a == <<Direct("valid_signature", At("atomic", p), "Accept"),
             Direct("invalid_classical_signature", At("invalid_classical", p), "Reject"),
             Direct("invalid_post_quantum_signature", At("invalid_post_quantum", p), "Reject"),
             Replaced("invalid_classical_path", "invalid_classical"),
             Replaced("invalid_post_quantum_path", "invalid_post_quantum")>>
      i == Identity("atomic", p)
      b == <<Validity(p, "validity", At("atomic", p)),
             Run(p, "crl", "CrlStatus",
                 crl_run(<<"atomic", "root">>, IssuerAt("atomic", p), At("atomic", p),
                         IssuerAt("crl", p)), "Accept")>>
      v == IfNotAnchor(p, "Reject")
<1>1. atomic_position_steps(p) = a \o i \o b
  BY DEF atomic_position_steps
<1>2. DOMAIN a = 1 .. 5 /\ a \in Seq(Range(a)) /\ DOMAIN b = 1 .. 2 /\ b \in Seq(Range(b))
  BY DEF Range
<1>3. /\ a[1].name = <<p, "valid_signature">> /\ a[1].op = "CertificateSignature"
      /\ a[1].nominal = "Accept" /\ a[1].others = StackVerdict \ {"Accept"}
      /\ a[2].name = <<p, "invalid_classical_signature">> /\ a[2].op = "CertificateSignature"
      /\ a[2].nominal = "Reject" /\ a[2].others = StackVerdict \ {"Reject"}
      /\ a[3].name = <<p, "invalid_post_quantum_signature">> /\ a[3].op = "CertificateSignature"
      /\ a[3].nominal = "Reject" /\ a[3].others = StackVerdict \ {"Reject"}
      /\ a[4].name = <<p, "invalid_classical_path">> /\ a[4].op = "Path" /\ a[4].nominal = v
      /\ a[4].others = StackVerdict \ {v} /\ a[5].name = <<p, "invalid_post_quantum_path">>
      /\ a[5].op = "Path" /\ a[5].nominal = v /\ a[5].others = StackVerdict \ {v}
  BY RunFields
<1>4. /\ b[1].name = <<p, "validity">> /\ b[1].op = "validity" /\ b[1].nominal = "Pass"
      /\ b[1].others = {"Fail"} /\ b[2].name = <<p, "crl">> /\ b[2].op = "CrlStatus"
      /\ b[2].nominal = "Accept" /\ b[2].others = StackVerdict \ {"Accept"}
  BY CheckFields, RunFields
<1>5. /\ Listed(i, {p}, {"digest", "edge"}) /\ Hashes(i, p, "digest")
      /\ p # "TrustAnchor" => Hashes(i, p, "edge")
  BY IdentityListed
<1> HIDE DEF a, b, i, v
<1>6. /\ \A k \in DOMAIN a : a[k].name[1] \in {p} /\ a[k].name[2] \in AtomicSignatures
      /\ \A k, l \in DOMAIN a : a[k].name = a[l].name => k = l
  BY <1>2, <1>3 DEF AtomicSignatures
<1>7. Listed(a, {p}, AtomicSignatures)
  BY <1>2, <1>6 DEF Listed
<1>8. Listed(b, {p}, {"validity", "crl"})
  BY <1>2, <1>4 DEF Listed
<1>9. /\ Runs(a, p, "valid_signature", "Accept")
      /\ Runs(a, p, "invalid_classical_signature", "Reject")
      /\ Runs(a, p, "invalid_post_quantum_signature", "Reject")
      /\ Runs(a, p, "invalid_classical_path", v) /\ Runs(a, p, "invalid_post_quantum_path", v)
  BY <1>2, <1>3 DEF Runs, Does, Checked, Hashes, Modes
<1>10. /\ Checked(b, p, "validity") /\ Runs(b, p, "crl", "Accept")
  BY <1>2, <1>4 DEF Runs, Does, Checked, Hashes, Modes
<1>11. Listed(a \o i, {p}, AtomicSignatures \cup {"digest", "edge"})
  BY <1>5, <1>7, ListedConcat DEF AtomicSignatures
<1>12. Listed(a \o i \o b, {p}, AtomicSignatures \cup {"digest", "edge", "validity", "crl"})
  BY <1>8, <1>11, ListedConcat DEF AtomicSignatures
<1>13. Part(a, a \o i \o b) /\ Part(i, a \o i \o b) /\ Part(b, a \o i \o b)
  BY <1>5, <1>7, <1>8, <1>11, ConcatParts, PartOfPart
<1>14. ASSUME p # "TrustAnchor" PROVE AtomicAt(a \o i \o b, p)
  <2>1. v = "Reject"
    BY <1>14 DEF v, IfNotAnchor
  <2> QED
    BY <1>5, <1>9, <1>10, <1>13, <1>14, <2>1, PartDoes, PartRuns, PartChecked, PartHashes
    DEF AtomicAt
<1> QED
  BY <1>1, <1>12, <1>14

CatalystSignatures ==
  {"valid_alternative", "invalid_alternative", "invalid_alternative_path", "corrupt",
   "invalid_classical_path", "valid_default"}

\* What the table does about a certificate that is not the anchor.
CatalystAt(T, p) ==
  /\ Hashes(T, p, "digest") /\ Hashes(T, p, "edge") /\ Runs(T, p, "valid_alternative", "Accept")
  /\ Runs(T, p, "invalid_alternative", "Reject")
  /\ Runs(T, p, "invalid_alternative_path", "Accept")
  /\ Runs(T, p, "invalid_classical_path", "Reject") /\ Runs(T, p, "valid_default", "Accept")
  /\ Does(T, p, "crl_status", {"crl_status"}, <<"Pass", "Pass">>, CrlAnswers \ {<<"Pass", "Pass">>})
  /\ Checked(T, p, "validity")

LEMMA CatalystPosition ==
  ASSUME NEW p \in PathPosition
  PROVE  LET s == catalyst_position_steps(p) IN
         /\ Listed(s, {p}, CatalystSignatures \cup {"digest", "edge", "crl_status", "validity"})
         /\ p # "TrustAnchor" => CatalystAt(s, p)
<1> DEFINE
      Direct(what, c, w) ==
        Run(p, what, "AlternativeSignature",
            direct(<<"catalyst", "root">>, IssuerAt("catalyst", p), c), w)
      a == <<Direct("valid_alternative", At("catalyst", p), "Accept"),
             Direct("invalid_alternative", At("invalid_alternative", p), "Reject"),
             Run(p, "invalid_alternative_path", "Path",
                 path_with_replacement("catalyst", p, "invalid_alternative"), "Accept"),
             Corrupt(p, At("catalyst", p)),
             Run(p, "invalid_classical_path", "Path",
                 path_with_replacement("catalyst", p, "corrupted"), IfNotAnchor(p, "Reject")),
             Run(p, "valid_default", "Path", Hierarchy("catalyst"), "Accept")>>
      i == Identity("catalyst", p)
      b == <<CrlStatus(p, "crl_status", At("catalyst", p), IssuerAt("catalyst", p),
                       IssuerAt("crl", p), <<"Pass", "Pass">>),
             Validity(p, "validity", At("catalyst", p))>>
      v == IfNotAnchor(p, "Reject")
<1>1. catalyst_position_steps(p) = a \o i \o b
  BY DEF catalyst_position_steps
<1>2. DOMAIN a = 1 .. 6 /\ a \in Seq(Range(a)) /\ DOMAIN b = 1 .. 2 /\ b \in Seq(Range(b))
  BY DEF Range
<1>3. /\ a[1].name = <<p, "valid_alternative">> /\ a[1].op = "AlternativeSignature"
      /\ a[1].nominal = "Accept" /\ a[1].others = StackVerdict \ {"Accept"}
      /\ a[2].name = <<p, "invalid_alternative">> /\ a[2].op = "AlternativeSignature"
      /\ a[2].nominal = "Reject" /\ a[2].others = StackVerdict \ {"Reject"}
      /\ a[3].name = <<p, "invalid_alternative_path">> /\ a[3].op = "Path"
      /\ a[3].nominal = "Accept" /\ a[3].others = StackVerdict \ {"Accept"}
      /\ a[4].name = <<p, "corrupt">> /\ a[5].name = <<p, "invalid_classical_path">>
      /\ a[5].op = "Path" /\ a[5].nominal = v /\ a[5].others = StackVerdict \ {v}
      /\ a[6].name = <<p, "valid_default">> /\ a[6].op = "Path" /\ a[6].nominal = "Accept"
      /\ a[6].others = StackVerdict \ {"Accept"}
  <2>1. /\ a[4].name = <<p, "corrupt">>
    BY CheckFields
  <2>2. /\ a[1].name = <<p, "valid_alternative">> /\ a[1].op = "AlternativeSignature"
        /\ a[1].nominal = "Accept" /\ a[1].others = StackVerdict \ {"Accept"}
        /\ a[2].name = <<p, "invalid_alternative">> /\ a[2].op = "AlternativeSignature"
        /\ a[2].nominal = "Reject" /\ a[2].others = StackVerdict \ {"Reject"}
        /\ a[3].name = <<p, "invalid_alternative_path">> /\ a[3].op = "Path"
        /\ a[3].nominal = "Accept" /\ a[3].others = StackVerdict \ {"Accept"}
        /\ a[5].name = <<p, "invalid_classical_path">> /\ a[5].op = "Path" /\ a[5].nominal = v
        /\ a[5].others = StackVerdict \ {v} /\ a[6].name = <<p, "valid_default">>
        /\ a[6].op = "Path" /\ a[6].nominal = "Accept" /\ a[6].others = StackVerdict \ {"Accept"}
    BY RunFields
  <2> QED
    BY <2>1, <2>2
<1>4. /\ b[1].name = <<p, "crl_status">> /\ b[1].op = "crl_status"
      /\ b[1].nominal = <<"Pass", "Pass">> /\ b[1].others = CrlAnswers \ {<<"Pass", "Pass">>}
      /\ b[2].name = <<p, "validity">> /\ b[2].op = "validity" /\ b[2].nominal = "Pass"
      /\ b[2].others = {"Fail"}
  BY CheckFields
<1>5. /\ Listed(i, {p}, {"digest", "edge"}) /\ Hashes(i, p, "digest")
      /\ p # "TrustAnchor" => Hashes(i, p, "edge")
  BY IdentityListed
<1> HIDE DEF a, b, i, v
<1>6. /\ \A k \in DOMAIN a : a[k].name[1] \in {p} /\ a[k].name[2] \in CatalystSignatures
      /\ \A k, l \in DOMAIN a : a[k].name = a[l].name => k = l
  BY <1>2, <1>3 DEF CatalystSignatures
<1>7. Listed(a, {p}, CatalystSignatures)
  BY <1>2, <1>6 DEF Listed
<1>8. Listed(b, {p}, {"crl_status", "validity"})
  BY <1>2, <1>4 DEF Listed
<1>9. /\ Runs(a, p, "valid_alternative", "Accept") /\ Runs(a, p, "invalid_alternative", "Reject")
      /\ Runs(a, p, "invalid_alternative_path", "Accept")
      /\ Runs(a, p, "invalid_classical_path", v) /\ Runs(a, p, "valid_default", "Accept")
  BY <1>2, <1>3 DEF Runs, Does, Checked, Hashes, Modes
<1>10. /\ Does(b, p, "crl_status", {"crl_status"}, <<"Pass", "Pass">>,
            CrlAnswers \ {<<"Pass", "Pass">>})
      /\ Checked(b, p, "validity")
  BY <1>2, <1>4 DEF Runs, Does, Checked, Hashes, Modes
<1>11. Listed(a \o i, {p}, CatalystSignatures \cup {"digest", "edge"})
  BY <1>5, <1>7, ListedConcat DEF CatalystSignatures
<1>12. Listed(a \o i \o b, {p}, CatalystSignatures \cup {"digest", "edge", "crl_status",
         "validity"})
  BY <1>8, <1>11, ListedConcat DEF CatalystSignatures
<1>13. Part(a, a \o i \o b) /\ Part(i, a \o i \o b) /\ Part(b, a \o i \o b)
  BY <1>5, <1>7, <1>8, <1>11, ConcatParts, PartOfPart
<1>14. ASSUME p # "TrustAnchor" PROVE CatalystAt(a \o i \o b, p)
  <2>1. v = "Reject"
    BY <1>14 DEF v, IfNotAnchor
  <2> QED
    BY <1>5, <1>9, <1>10, <1>13, <1>14, <2>1, PartDoes, PartRuns, PartChecked, PartHashes
    DEF CatalystAt
<1> QED
  BY <1>1, <1>12, <1>14

ChameleonSignatures ==
  {"base_signature", "invalid_base_signature", "delta_signature", "invalid_delta_signature",
   "invalid_base_path", "invalid_delta_path"}

\* What the table does about a certificate that is not the anchor.
ChameleonAt(T, p) ==
  /\ Hashes(T, p, "digest") /\ Hashes(T, p, "edge") /\ Runs(T, p, "base_signature", "Accept")
  /\ Runs(T, p, "invalid_base_signature", "Reject") /\ Runs(T, p, "delta_signature", "Accept")
  /\ Runs(T, p, "invalid_delta_signature", "Reject") /\ Runs(T, p, "invalid_base_path", "Reject")
  /\ Runs(T, p, "invalid_delta_path", "Accept") /\ Checked(T, p, "base_validity")
  /\ Checked(T, p, "delta_validity") /\ Runs(T, p, "base_crl", "Accept")
  /\ Runs(T, p, "delta_crl", "Accept")

LEMMA ChameleonPosition ==
  ASSUME NEW p \in PathPosition
  PROVE  LET s == chameleon_position_steps(p) IN
         /\ Listed(s, {p}, ChameleonSignatures \cup {"digest", "edge", "base_validity",
              "delta_validity", "base_crl", "delta_crl"})
         /\ p # "TrustAnchor" => ChameleonAt(s, p)
<1> DEFINE
      base == At("base", p)
      issuer == IssuerAt("base", p)
      Signature(what, mode, c, w) == Run(p, what, mode, direct(issuer, issuer, c), w)
      Replaced(what, other, w) ==
        Run(p, what, "Path", path_with_replacement("base", p, other), w)
      a == <<Signature("base_signature", "CertificateSignature", base, "Accept"),
             Signature("invalid_base_signature", "CertificateSignature", At("invalid_base", p),
                       "Reject"),
             Signature("delta_signature", "DeltaSignature", base, "Accept"),
             Signature("invalid_delta_signature", "DeltaSignature", At("invalid_delta_base", p),
                       "Reject"),
             Replaced("invalid_base_path", "invalid_base", IfNotAnchor(p, "Reject")),
             Replaced("invalid_delta_path", "invalid_delta_base", "Accept")>>
      i == Identity("base", p)
      b == <<Validity(p, "base_validity", base), Validity(p, "delta_validity", At("delta", p)),
             Run(p, "base_crl", "CrlStatus",
                 crl_run(issuer, issuer, base, IssuerAt("base_crl", p)), "Accept"),
             Run(p, "delta_crl", "CrlStatus",
                 crl_run(IssuerAt("delta", p), IssuerAt("delta", p), At("delta", p),
                         IssuerAt("delta_crl", p)), "Accept")>>
      v == IfNotAnchor(p, "Reject")
<1>1. chameleon_position_steps(p) = a \o i \o b
  BY DEF chameleon_position_steps
<1>2. DOMAIN a = 1 .. 6 /\ a \in Seq(Range(a)) /\ DOMAIN b = 1 .. 4 /\ b \in Seq(Range(b))
  BY DEF Range
<1>3. /\ a[1].name = <<p, "base_signature">> /\ a[1].op = "CertificateSignature"
      /\ a[1].nominal = "Accept" /\ a[1].others = StackVerdict \ {"Accept"}
      /\ a[2].name = <<p, "invalid_base_signature">> /\ a[2].op = "CertificateSignature"
      /\ a[2].nominal = "Reject" /\ a[2].others = StackVerdict \ {"Reject"}
      /\ a[3].name = <<p, "delta_signature">> /\ a[3].op = "DeltaSignature"
      /\ a[3].nominal = "Accept" /\ a[3].others = StackVerdict \ {"Accept"}
      /\ a[4].name = <<p, "invalid_delta_signature">> /\ a[4].op = "DeltaSignature"
      /\ a[4].nominal = "Reject" /\ a[4].others = StackVerdict \ {"Reject"}
      /\ a[5].name = <<p, "invalid_base_path">> /\ a[5].op = "Path" /\ a[5].nominal = v
      /\ a[5].others = StackVerdict \ {v} /\ a[6].name = <<p, "invalid_delta_path">>
      /\ a[6].op = "Path" /\ a[6].nominal = "Accept" /\ a[6].others = StackVerdict \ {"Accept"}
  BY RunFields
<1>4. /\ b[1].name = <<p, "base_validity">> /\ b[1].op = "validity" /\ b[1].nominal = "Pass"
      /\ b[1].others = {"Fail"} /\ b[2].name = <<p, "delta_validity">> /\ b[2].op = "validity"
      /\ b[2].nominal = "Pass" /\ b[2].others = {"Fail"} /\ b[3].name = <<p, "base_crl">>
      /\ b[3].op = "CrlStatus" /\ b[3].nominal = "Accept"
      /\ b[3].others = StackVerdict \ {"Accept"} /\ b[4].name = <<p, "delta_crl">>
      /\ b[4].op = "CrlStatus" /\ b[4].nominal = "Accept"
      /\ b[4].others = StackVerdict \ {"Accept"}
  BY CheckFields, RunFields
<1>5. /\ Listed(i, {p}, {"digest", "edge"}) /\ Hashes(i, p, "digest")
      /\ p # "TrustAnchor" => Hashes(i, p, "edge")
  BY IdentityListed
<1> HIDE DEF a, b, i, v
<1>6. /\ \A k \in DOMAIN a : a[k].name[1] \in {p} /\ a[k].name[2] \in ChameleonSignatures
      /\ \A k, l \in DOMAIN a : a[k].name = a[l].name => k = l
  BY <1>2, <1>3 DEF ChameleonSignatures
<1>7. Listed(a, {p}, ChameleonSignatures)
  BY <1>2, <1>6 DEF Listed
<1>8. Listed(b, {p}, {"base_validity", "delta_validity", "base_crl", "delta_crl"})
  BY <1>2, <1>4 DEF Listed
<1>9. /\ Runs(a, p, "base_signature", "Accept") /\ Runs(a, p, "invalid_base_signature", "Reject")
      /\ Runs(a, p, "delta_signature", "Accept")
      /\ Runs(a, p, "invalid_delta_signature", "Reject") /\ Runs(a, p, "invalid_base_path", v)
      /\ Runs(a, p, "invalid_delta_path", "Accept")
  BY <1>2, <1>3 DEF Runs, Does, Checked, Hashes, Modes
<1>10. /\ Checked(b, p, "base_validity") /\ Checked(b, p, "delta_validity")
      /\ Runs(b, p, "base_crl", "Accept") /\ Runs(b, p, "delta_crl", "Accept")
  BY <1>2, <1>4 DEF Runs, Does, Checked, Hashes, Modes
<1>11. Listed(a \o i, {p}, ChameleonSignatures \cup {"digest", "edge"})
  BY <1>5, <1>7, ListedConcat DEF ChameleonSignatures
<1>12. Listed(a \o i \o b, {p}, ChameleonSignatures \cup {"digest", "edge", "base_validity",
         "delta_validity", "base_crl", "delta_crl"})
  BY <1>8, <1>11, ListedConcat DEF ChameleonSignatures
<1>13. Part(a, a \o i \o b) /\ Part(i, a \o i \o b) /\ Part(b, a \o i \o b)
  BY <1>5, <1>7, <1>8, <1>11, ConcatParts, PartOfPart
<1>14. ASSUME p # "TrustAnchor" PROVE ChameleonAt(a \o i \o b, p)
  <2>1. v = "Reject"
    BY <1>14 DEF v, IfNotAnchor
  <2> QED
    BY <1>5, <1>9, <1>10, <1>13, <1>14, <2>1, PartDoes, PartRuns, PartChecked, PartHashes
    DEF ChameleonAt
<1> QED
  BY <1>1, <1>12, <1>14

PureSignatures ==
  {"signature", "invalid_signature", "invalid_path"}

\* What the table does about a certificate that is not the anchor.
PureAt(T, p) ==
  /\ Hashes(T, p, "digest") /\ Hashes(T, p, "edge") /\ Runs(T, p, "signature", "Accept")
  /\ Runs(T, p, "invalid_signature", "Reject") /\ Runs(T, p, "invalid_path", "Reject")
  /\ Checked(T, p, "validity") /\ Runs(T, p, "crl", "Accept")

LEMMA PurePosition ==
  ASSUME NEW p \in PathPosition
  PROVE  LET s == pure_position_steps(p) IN
         /\ Listed(s, {p}, PureSignatures \cup {"digest", "edge", "validity", "crl"})
         /\ p # "TrustAnchor" => PureAt(s, p)
<1> DEFINE
      Direct(what, c, w) ==
        Run(p, what, "CertificateSignature", direct(IssuerAt("pure", p), IssuerAt("pure", p), c), w)
      a == <<Direct("signature", At("pure", p), "Accept"),
             Direct("invalid_signature", At("invalid", p), "Reject"),
             Run(p, "invalid_path", "Path", path_with_replacement("pure", p, "invalid"),
                 IfNotAnchor(p, "Reject"))>>
      i == Identity("pure", p)
      b == <<Validity(p, "validity", At("pure", p)),
             Run(p, "crl", "CrlStatus",
                 crl_run(IssuerAt("pure", p), IssuerAt("pure", p), At("pure", p),
                         IssuerAt("crl", p)), "Accept")>>
      v == IfNotAnchor(p, "Reject")
<1>1. pure_position_steps(p) = a \o i \o b
  BY DEF pure_position_steps
<1>2. DOMAIN a = 1 .. 3 /\ a \in Seq(Range(a)) /\ DOMAIN b = 1 .. 2 /\ b \in Seq(Range(b))
  BY DEF Range
<1>3. /\ a[1].name = <<p, "signature">> /\ a[1].op = "CertificateSignature"
      /\ a[1].nominal = "Accept" /\ a[1].others = StackVerdict \ {"Accept"}
      /\ a[2].name = <<p, "invalid_signature">> /\ a[2].op = "CertificateSignature"
      /\ a[2].nominal = "Reject" /\ a[2].others = StackVerdict \ {"Reject"}
      /\ a[3].name = <<p, "invalid_path">> /\ a[3].op = "Path" /\ a[3].nominal = v
      /\ a[3].others = StackVerdict \ {v}
  BY RunFields
<1>4. /\ b[1].name = <<p, "validity">> /\ b[1].op = "validity" /\ b[1].nominal = "Pass"
      /\ b[1].others = {"Fail"} /\ b[2].name = <<p, "crl">> /\ b[2].op = "CrlStatus"
      /\ b[2].nominal = "Accept" /\ b[2].others = StackVerdict \ {"Accept"}
  BY CheckFields, RunFields
<1>5. /\ Listed(i, {p}, {"digest", "edge"}) /\ Hashes(i, p, "digest")
      /\ p # "TrustAnchor" => Hashes(i, p, "edge")
  BY IdentityListed
<1> HIDE DEF a, b, i, v
<1>6. /\ \A k \in DOMAIN a : a[k].name[1] \in {p} /\ a[k].name[2] \in PureSignatures
      /\ \A k, l \in DOMAIN a : a[k].name = a[l].name => k = l
  BY <1>2, <1>3 DEF PureSignatures
<1>7. Listed(a, {p}, PureSignatures)
  BY <1>2, <1>6 DEF Listed
<1>8. Listed(b, {p}, {"validity", "crl"})
  BY <1>2, <1>4 DEF Listed
<1>9. /\ Runs(a, p, "signature", "Accept") /\ Runs(a, p, "invalid_signature", "Reject")
      /\ Runs(a, p, "invalid_path", v)
  BY <1>2, <1>3 DEF Runs, Does, Checked, Hashes, Modes
<1>10. /\ Checked(b, p, "validity") /\ Runs(b, p, "crl", "Accept")
  BY <1>2, <1>4 DEF Runs, Does, Checked, Hashes, Modes
<1>11. Listed(a \o i, {p}, PureSignatures \cup {"digest", "edge"})
  BY <1>5, <1>7, ListedConcat DEF PureSignatures
<1>12. Listed(a \o i \o b, {p}, PureSignatures \cup {"digest", "edge", "validity", "crl"})
  BY <1>8, <1>11, ListedConcat DEF PureSignatures
<1>13. Part(a, a \o i \o b) /\ Part(i, a \o i \o b) /\ Part(b, a \o i \o b)
  BY <1>5, <1>7, <1>8, <1>11, ConcatParts, PartOfPart
<1>14. ASSUME p # "TrustAnchor" PROVE PureAt(a \o i \o b, p)
  <2>1. v = "Reject"
    BY <1>14 DEF v, IfNotAnchor
  <2> QED
    BY <1>5, <1>9, <1>10, <1>13, <1>14, <2>1, PartDoes, PartRuns, PartChecked, PartHashes
    DEF PureAt
<1> QED
  BY <1>1, <1>12, <1>14
RelatedSignatures ==
  {"conformance", "invalid_binding", "classical_signature", "invalid_classical_signature",
   "post_quantum_signature", "invalid_post_quantum_signature", "invalid_classical_path",
   "invalid_binding_path", "invalid_post_quantum_path", "digest", "post_quantum_digest"}

\* What the table does about a certificate that is not the anchor.
RelatedAt(T, p) ==
  /\ Hashes(T, p, "edge")
  /\ Does(T, p, "conformance", {"conformance"}, related_failures(p),
       ConformanceAnswers \ {related_failures(p)})
  /\ Does(T, p, "invalid_binding", {"binding"}, "Fail", {"Pass", "Fail"} \ {"Fail"})
  /\ Runs(T, p, "classical_signature", "Accept")
  /\ Runs(T, p, "invalid_classical_signature", "Reject")
  /\ Runs(T, p, "post_quantum_signature", "Accept")
  /\ Runs(T, p, "invalid_post_quantum_signature", "Reject")
  /\ Runs(T, p, "invalid_classical_path", "Reject")
  /\ Runs(T, p, "invalid_binding_path", "Accept")
  /\ Runs(T, p, "invalid_post_quantum_path", "Reject") /\ Hashes(T, p, "digest")
  /\ Hashes(T, p, "post_quantum_digest") /\ Checked(T, p, "classical_validity")
  /\ Checked(T, p, "post_quantum_validity") /\ Runs(T, p, "classical_crl", "Accept")
  /\ Runs(T, p, "post_quantum_crl", "Accept")

LEMMA RelatedPosition ==
  ASSUME NEW p \in PathPosition
  PROVE  LET s == related_position_steps(p) IN
         /\ Listed(s, {p}, RelatedSignatures \cup {"edge", "classical_validity",
              "post_quantum_validity", "classical_crl", "post_quantum_crl"})
         /\ p # "TrustAnchor" => RelatedAt(s, p)
<1> DEFINE
      classical == At("classical", p)
      post_quantum == At("post_quantum", p)
      classical_issuer == IssuerAt("classical", p)
      post_quantum_issuer == IssuerAt("post_quantum", p)
      Direct(what, issuer, c, w) ==
        Run(p, what, "CertificateSignature", direct(issuer, issuer, c), w)
      a == <<Conformance(p, "conformance", classical, post_quantum, related_failures(p)),
             Binding(p, "invalid_binding", At("invalid_binding", p), post_quantum, "Fail"),
             Direct("classical_signature", classical_issuer, classical, "Accept"),
             Direct("invalid_classical_signature", classical_issuer, At("invalid_classical", p),
                    "Reject"),
             Direct("post_quantum_signature", post_quantum_issuer, post_quantum, "Accept"),
             Direct("invalid_post_quantum_signature", post_quantum_issuer,
                    At("invalid_post_quantum", p), "Reject"),
             Run(p, "invalid_classical_path", "Path",
                 path_with_replacement("classical", p, "invalid_classical"),
                 IfNotAnchor(p, "Reject")),
             Run(p, "invalid_binding_path", "Path",
                 path_with_replacement("classical", p, "invalid_binding"), "Accept"),
             Run(p, "invalid_post_quantum_path", "Path",
                 path_with_replacement("post_quantum", p, "invalid_post_quantum"),
                 IfNotAnchor(p, "Reject")),
             Digest(p, "digest", classical), Digest(p, "post_quantum_digest", post_quantum)>>
      i == IF p = "TrustAnchor" THEN <<>> ELSE <<Edge(p, "edge", classical, classical_issuer)>>
      b == <<Validity(p, "classical_validity", classical),
             Validity(p, "post_quantum_validity", post_quantum),
             Run(p, "classical_crl", "CrlStatus",
                 crl_run(classical_issuer, classical_issuer, classical,
                         IssuerAt("classical_crl", p)), "Accept"),
             Run(p, "post_quantum_crl", "CrlStatus",
                 crl_run(post_quantum_issuer, post_quantum_issuer, post_quantum,
                         IssuerAt("post_quantum_crl", p)), "Accept")>>
      v == IfNotAnchor(p, "Reject")
<1>1. related_position_steps(p) = a \o i \o b
  BY DEF related_position_steps
<1>2. DOMAIN a = 1 .. 11 /\ a \in Seq(Range(a)) /\ DOMAIN b = 1 .. 4 /\ b \in Seq(Range(b))
  BY DEF Range
<1>3. /\ a[1].name = <<p, "conformance">> /\ a[1].op = "conformance"
      /\ a[1].nominal = related_failures(p)
      /\ a[1].others = ConformanceAnswers \ {related_failures(p)}
      /\ a[2].name = <<p, "invalid_binding">> /\ a[2].op = "binding" /\ a[2].nominal = "Fail"
      /\ a[2].others = {"Pass", "Fail"} \ {"Fail"} /\ a[3].name = <<p, "classical_signature">>
      /\ a[3].op = "CertificateSignature" /\ a[3].nominal = "Accept"
      /\ a[3].others = StackVerdict \ {"Accept"}
      /\ a[4].name = <<p, "invalid_classical_signature">> /\ a[4].op = "CertificateSignature"
      /\ a[4].nominal = "Reject" /\ a[4].others = StackVerdict \ {"Reject"}
      /\ a[5].name = <<p, "post_quantum_signature">> /\ a[5].op = "CertificateSignature"
      /\ a[5].nominal = "Accept" /\ a[5].others = StackVerdict \ {"Accept"}
      /\ a[6].name = <<p, "invalid_post_quantum_signature">> /\ a[6].op = "CertificateSignature"
      /\ a[6].nominal = "Reject" /\ a[6].others = StackVerdict \ {"Reject"}
      /\ a[7].name = <<p, "invalid_classical_path">> /\ a[7].op = "Path" /\ a[7].nominal = v
      /\ a[7].others = StackVerdict \ {v} /\ a[8].name = <<p, "invalid_binding_path">>
      /\ a[8].op = "Path" /\ a[8].nominal = "Accept" /\ a[8].others = StackVerdict \ {"Accept"}
      /\ a[9].name = <<p, "invalid_post_quantum_path">> /\ a[9].op = "Path" /\ a[9].nominal = v
      /\ a[9].others = StackVerdict \ {v} /\ a[10].name = <<p, "digest">> /\ a[10].op = "digest"
      /\ a[11].name = <<p, "post_quantum_digest">> /\ a[11].op = "digest"
  <2>1. /\ a[1].name = <<p, "conformance">> /\ a[1].op = "conformance"
        /\ a[1].nominal = related_failures(p)
        /\ a[1].others = ConformanceAnswers \ {related_failures(p)}
        /\ a[2].name = <<p, "invalid_binding">> /\ a[2].op = "binding" /\ a[2].nominal = "Fail"
        /\ a[2].others = {"Pass", "Fail"} \ {"Fail"}
    BY CheckFields
  <2>2. /\ a[10].name = <<p, "digest">> /\ a[10].op = "digest"
        /\ a[11].name = <<p, "post_quantum_digest">> /\ a[11].op = "digest"
    BY HashFields
  <2>3. /\ a[3].name = <<p, "classical_signature">> /\ a[3].op = "CertificateSignature"
        /\ a[3].nominal = "Accept" /\ a[3].others = StackVerdict \ {"Accept"}
        /\ a[4].name = <<p, "invalid_classical_signature">> /\ a[4].op = "CertificateSignature"
        /\ a[4].nominal = "Reject" /\ a[4].others = StackVerdict \ {"Reject"}
        /\ a[5].name = <<p, "post_quantum_signature">> /\ a[5].op = "CertificateSignature"
        /\ a[5].nominal = "Accept" /\ a[5].others = StackVerdict \ {"Accept"}
        /\ a[6].name = <<p, "invalid_post_quantum_signature">> /\ a[6].op = "CertificateSignature"
        /\ a[6].nominal = "Reject" /\ a[6].others = StackVerdict \ {"Reject"}
    BY RunFields
  <2>4. /\ a[7].name = <<p, "invalid_classical_path">> /\ a[7].op = "Path" /\ a[7].nominal = v
        /\ a[7].others = StackVerdict \ {v} /\ a[8].name = <<p, "invalid_binding_path">>
        /\ a[8].op = "Path" /\ a[8].nominal = "Accept" /\ a[8].others = StackVerdict \ {"Accept"}
        /\ a[9].name = <<p, "invalid_post_quantum_path">> /\ a[9].op = "Path" /\ a[9].nominal = v
        /\ a[9].others = StackVerdict \ {v}
    BY RunFields
  <2> QED
    BY <2>1, <2>2, <2>3, <2>4
<1>4. /\ b[1].name = <<p, "classical_validity">> /\ b[1].op = "validity" /\ b[1].nominal = "Pass"
      /\ b[1].others = {"Fail"} /\ b[2].name = <<p, "post_quantum_validity">>
      /\ b[2].op = "validity" /\ b[2].nominal = "Pass" /\ b[2].others = {"Fail"}
      /\ b[3].name = <<p, "classical_crl">> /\ b[3].op = "CrlStatus" /\ b[3].nominal = "Accept"
      /\ b[3].others = StackVerdict \ {"Accept"} /\ b[4].name = <<p, "post_quantum_crl">>
      /\ b[4].op = "CrlStatus" /\ b[4].nominal = "Accept"
      /\ b[4].others = StackVerdict \ {"Accept"}
  BY CheckFields, RunFields
<1>5. Listed(i, {p}, {"edge"}) /\ (p # "TrustAnchor" => Hashes(i, p, "edge"))
  <2> DEFINE e == <<Edge(p, "edge", classical, classical_issuer)>>
             n == <<>>
  <2>1. e[1].name = <<p, "edge">> /\ e[1].op = "edge" /\ DOMAIN e = {1} /\ e \in Seq(Range(e))
    BY HashFields DEF Range
  <2>2. n \in Seq({}) /\ DOMAIN n = {}
    OBVIOUS
  <2>3. i = IF p = "TrustAnchor" THEN n ELSE e
    OBVIOUS
  <2> HIDE DEF e, n, i
  <2> QED
    BY <2>1, <2>2, <2>3 DEF Listed, Hashes
<1> HIDE DEF a, b, i, v
<1>6. /\ \A k \in DOMAIN a : a[k].name[1] \in {p} /\ a[k].name[2] \in RelatedSignatures
      /\ \A k, l \in DOMAIN a : a[k].name = a[l].name => k = l
  BY <1>2, <1>3 DEF RelatedSignatures
<1>7. Listed(a, {p}, RelatedSignatures)
  BY <1>2, <1>6 DEF Listed
<1>8. Listed(b, {p}, {"classical_validity", "post_quantum_validity", "classical_crl",
        "post_quantum_crl"})
  BY <1>2, <1>4 DEF Listed
<1>9. /\ Does(a, p, "conformance", {"conformance"}, related_failures(p),
           ConformanceAnswers \ {related_failures(p)})
      /\ Does(a, p, "invalid_binding", {"binding"}, "Fail", {"Pass", "Fail"} \ {"Fail"})
      /\ Runs(a, p, "classical_signature", "Accept")
      /\ Runs(a, p, "invalid_classical_signature", "Reject")
      /\ Runs(a, p, "post_quantum_signature", "Accept")
      /\ Runs(a, p, "invalid_post_quantum_signature", "Reject")
      /\ Runs(a, p, "invalid_classical_path", v) /\ Runs(a, p, "invalid_binding_path", "Accept")
      /\ Runs(a, p, "invalid_post_quantum_path", v) /\ Hashes(a, p, "digest")
      /\ Hashes(a, p, "post_quantum_digest")
  BY <1>2, <1>3 DEF Runs, Does, Checked, Hashes, Modes
<1>10. /\ Checked(b, p, "classical_validity") /\ Checked(b, p, "post_quantum_validity")
      /\ Runs(b, p, "classical_crl", "Accept") /\ Runs(b, p, "post_quantum_crl", "Accept")
  BY <1>2, <1>4 DEF Runs, Does, Checked, Hashes, Modes
<1>11. Listed(a \o i, {p}, RelatedSignatures \cup {"edge"})
  BY <1>5, <1>7, ListedConcat DEF RelatedSignatures
<1>12. Listed(a \o i \o b, {p}, RelatedSignatures \cup {"edge", "classical_validity",
         "post_quantum_validity", "classical_crl", "post_quantum_crl"})
  BY <1>8, <1>11, ListedConcat DEF RelatedSignatures
<1>13. Part(a, a \o i \o b) /\ Part(i, a \o i \o b) /\ Part(b, a \o i \o b)
  BY <1>5, <1>7, <1>8, <1>11, ConcatParts, PartOfPart
<1>14. ASSUME p # "TrustAnchor" PROVE RelatedAt(a \o i \o b, p)
  <2>1. v = "Reject"
    BY <1>14 DEF v, IfNotAnchor
  <2> QED
    BY <1>5, <1>9, <1>10, <1>13, <1>14, <2>1, PartDoes, PartRuns, PartChecked, PartHashes
    DEF RelatedAt
<1> QED
  BY <1>1, <1>12, <1>14

\* The five path-scope tables: what they do of each kind, and no two steps
\* share a name.
TableIds == {"inspect", "path", "EndEntity", "Intermediate", "TrustAnchor", "anchor"}

LEMMA OneRun ==
  ASSUME NEW what, NEW hierarchy, NEW r, r = <<Run("path", what, "Path", hierarchy, "Accept")>>
  PROVE  Listed(r, {"path"}, {what}) /\ Runs(r, "path", what, "Accept")
<1>1. /\ r[1].name = <<"path", what>> /\ r[1].op = "Path" /\ r[1].nominal = "Accept"
      /\ r[1].others = StackVerdict \ {"Accept"} /\ DOMAIN r = {1} /\ r \in Seq(Range(r))
  BY RunFields DEF Range
<1> QED
  BY <1>1 DEF Listed, Runs, Does, Modes

LEMMA AnchorListed ==
  ASSUME NEW file, NEW d, d = <<Digest("anchor", "digest", file)>>
  PROVE  Grouped(d, {"anchor"}) /\ Hashes(d, "anchor", "digest")
<1>1. d[1].name = <<"anchor", "digest">> /\ d[1].op = "digest" /\ DOMAIN d = {1}
        /\ d \in Seq(Range(d))
  BY HashFields DEF Range
<1>2. Listed(d, {"anchor"}, {"digest"})
  BY <1>1 DEF Listed
<1> QED
  BY <1>1, <1>2 DEF Grouped, Hashes

LEMMA AtomicPart ==
  ASSUME NEW s, NEW t, NEW p, Part(s, t), AtomicAt(s, p)
  PROVE  AtomicAt(t, p)
BY PartDoes, PartRuns, PartChecked, PartHashes DEF AtomicAt

LEMMA AtomicTable ==
  LET T == atomic_steps IN
  /\ Grouped(T, TableIds)
  /\ Runs(T, "path", "valid_path", "Accept")
  /\ Hashes(T, "anchor", "digest") /\ Selects(T)
  /\ AtomicAt(T, "EndEntity") /\ AtomicAt(T, "Intermediate")
<1> DEFINE
      i1 == InspectChain("atomic")
      i2 == InspectChain("invalid_classical")
      i3 == InspectChain("invalid_post_quantum")
      c2 == i1 \o i2
      c3 == c2 \o i3
      w == ValidPath("valid_path", "atomic")
      v == c3 \o w
      e == atomic_position_steps("EndEntity")
      m == atomic_position_steps("Intermediate")
      r == atomic_position_steps("TrustAnchor")
      d == <<Digest("anchor", "digest", <<"atomic", "root">>)>>
<1>1. atomic_steps = v \o e \o m \o r \o d
  BY DEF atomic_steps, atomic_controls
<1>2. /\ Listed(i1, {"inspect"}, {"atomic"})
      /\ Listed(i2, {"inspect"}, {"invalid_classical"})
      /\ Listed(i3, {"inspect"}, {"invalid_post_quantum"})
  BY InspectChainListed
<1>3. /\ Listed(w, {"path"}, {"valid_path", "selected"}) /\ Runs(w, "path", "valid_path", "Accept")
      /\ Selects(w)
  BY ValidPathListed
<1>4. Grouped(d, {"anchor"}) /\ Hashes(d, "anchor", "digest")
  BY AnchorListed
<1>5. /\ Grouped(e, {"EndEntity"}) /\ AtomicAt(e, "EndEntity")
      /\ Grouped(m, {"Intermediate"}) /\ AtomicAt(m, "Intermediate")
      /\ Grouped(r, {"TrustAnchor"})
  BY AtomicPosition DEF Grouped, PathPosition
<1> HIDE DEF i1, i2, i3, w, e, m, r, d
<1>6. Listed(c2, {"inspect"}, {"atomic", "invalid_classical"})
  BY <1>2, ListedConcat
<1>7. Listed(c3, {"inspect"}, {"atomic", "invalid_classical", "invalid_post_quantum"})
  BY <1>2, <1>6, ListedConcat
<1> HIDE DEF c2, c3
<1>8. Listed(v, {"inspect", "path"}, {"atomic", "invalid_classical", "invalid_post_quantum",
        "valid_path", "selected"}) /\ Part(w, v)
  BY <1>3, <1>7, ListedConcat, ConcatParts
<1>9. Runs(v, "path", "valid_path", "Accept") /\ Selects(v)
  BY <1>3, <1>8, PartRuns, PartSelects
<1> HIDE DEF v
<1> DEFINE T == v \o e \o m \o r \o d
<1>10. Grouped(T, TableIds) /\ Part(v, T) /\ Part(e, T) /\ Part(m, T) /\ Part(d, T)
  <2>1. Grouped(v, {"inspect", "path"})
    BY <1>8 DEF Grouped
  <2> QED
    BY <1>4, <1>5, <2>1, PathTable DEF TableIds
<1> HIDE DEF T
<1>11. /\ Runs(T, "path", "valid_path", "Accept") /\ Hashes(T, "anchor", "digest")
       /\ Selects(T)
  BY <1>4, <1>9, <1>10, PartRuns, PartHashes, PartSelects
<1>12. AtomicAt(T, "EndEntity") /\ AtomicAt(T, "Intermediate")
  BY <1>5, <1>10, AtomicPart
<1> QED
  BY <1>1, <1>10, <1>11, <1>12 DEF T

LEMMA CatalystPart ==
  ASSUME NEW s, NEW t, NEW p, Part(s, t), CatalystAt(s, p)
  PROVE  CatalystAt(t, p)
BY PartDoes, PartRuns, PartChecked, PartHashes DEF CatalystAt

LEMMA CatalystTable ==
  LET T == catalyst_steps IN
  /\ Grouped(T, TableIds)
  /\ Runs(T, "path", "valid_path", "Accept")
  /\ Hashes(T, "anchor", "digest") /\ Selects(T)
  /\ CatalystAt(T, "EndEntity") /\ CatalystAt(T, "Intermediate")
<1> DEFINE
      i1 == InspectChain("catalyst")
      i2 == InspectChain("invalid_alternative")
      c2 == i1 \o i2
      w == ValidPath("valid_path", "catalyst")
      v == c2 \o w
      e == catalyst_position_steps("EndEntity")
      m == catalyst_position_steps("Intermediate")
      r == catalyst_position_steps("TrustAnchor")
      d == <<Digest("anchor", "digest", <<"catalyst", "root">>)>>
<1>1. catalyst_steps = v \o e \o m \o r \o d
  BY DEF catalyst_steps, catalyst_controls
<1>2. /\ Listed(i1, {"inspect"}, {"catalyst"})
      /\ Listed(i2, {"inspect"}, {"invalid_alternative"})
  BY InspectChainListed
<1>3. /\ Listed(w, {"path"}, {"valid_path", "selected"}) /\ Runs(w, "path", "valid_path", "Accept")
      /\ Selects(w)
  BY ValidPathListed
<1>4. Grouped(d, {"anchor"}) /\ Hashes(d, "anchor", "digest")
  BY AnchorListed
<1>5. /\ Grouped(e, {"EndEntity"}) /\ CatalystAt(e, "EndEntity")
      /\ Grouped(m, {"Intermediate"}) /\ CatalystAt(m, "Intermediate")
      /\ Grouped(r, {"TrustAnchor"})
  BY CatalystPosition DEF Grouped, PathPosition
<1> HIDE DEF i1, i2, w, e, m, r, d
<1>6. Listed(c2, {"inspect"}, {"catalyst", "invalid_alternative"})
  BY <1>2, ListedConcat
<1> HIDE DEF c2
<1>7. Listed(v, {"inspect", "path"}, {"catalyst", "invalid_alternative", "valid_path",
        "selected"}) /\ Part(w, v)
  BY <1>3, <1>6, ListedConcat, ConcatParts
<1>8. Runs(v, "path", "valid_path", "Accept") /\ Selects(v)
  BY <1>3, <1>7, PartRuns, PartSelects
<1> HIDE DEF v
<1> DEFINE T == v \o e \o m \o r \o d
<1>9. Grouped(T, TableIds) /\ Part(v, T) /\ Part(e, T) /\ Part(m, T) /\ Part(d, T)
  <2>1. Grouped(v, {"inspect", "path"})
    BY <1>7 DEF Grouped
  <2> QED
    BY <1>4, <1>5, <2>1, PathTable DEF TableIds
<1> HIDE DEF T
<1>10. /\ Runs(T, "path", "valid_path", "Accept") /\ Hashes(T, "anchor", "digest")
       /\ Selects(T)
  BY <1>4, <1>8, <1>9, PartRuns, PartHashes, PartSelects
<1>11. CatalystAt(T, "EndEntity") /\ CatalystAt(T, "Intermediate")
  BY <1>5, <1>9, CatalystPart
<1> QED
  BY <1>1, <1>9, <1>10, <1>11 DEF T

LEMMA ChameleonPart ==
  ASSUME NEW s, NEW t, NEW p, Part(s, t), ChameleonAt(s, p)
  PROVE  ChameleonAt(t, p)
BY PartDoes, PartRuns, PartChecked, PartHashes DEF ChameleonAt

LEMMA ChameleonTable ==
  LET T == chameleon_steps IN
  /\ Grouped(T, TableIds)
  /\ Runs(T, "path", "base_path", "Accept")
  /\ Runs(T, "path", "delta_path", "Accept")
  /\ Hashes(T, "anchor", "digest") /\ Selects(T)
  /\ ChameleonAt(T, "EndEntity") /\ ChameleonAt(T, "Intermediate")
<1> DEFINE
      i1 == InspectChain("base")
      i2 == InspectChain("invalid_delta_base")
      i3 == InspectChain("invalid_base")
      i4 == InspectChain("delta")
      c2 == i1 \o i2
      c3 == c2 \o i3
      c4 == c3 \o i4
      w == ValidPath("base_path", "base")
      v == c4 \o w
      x == <<Run("path", "delta_path", "Path", Hierarchy("delta"), "Accept")>>
      u == v \o x
      e == chameleon_position_steps("EndEntity")
      m == chameleon_position_steps("Intermediate")
      r == chameleon_position_steps("TrustAnchor")
      d == <<Digest("anchor", "digest", <<"base", "root">>)>>
<1>1. chameleon_steps = u \o e \o m \o r \o d
  BY DEF chameleon_steps, chameleon_controls
<1>2. /\ Listed(i1, {"inspect"}, {"base"})
      /\ Listed(i2, {"inspect"}, {"invalid_delta_base"})
      /\ Listed(i3, {"inspect"}, {"invalid_base"})
      /\ Listed(i4, {"inspect"}, {"delta"})
  BY InspectChainListed
<1>3. /\ Listed(w, {"path"}, {"base_path", "selected"}) /\ Runs(w, "path", "base_path", "Accept")
      /\ Selects(w)
      /\ Listed(x, {"path"}, {"delta_path"}) /\ Runs(x, "path", "delta_path", "Accept")
  BY ValidPathListed, OneRun
<1>4. Grouped(d, {"anchor"}) /\ Hashes(d, "anchor", "digest")
  BY AnchorListed
<1>5. /\ Grouped(e, {"EndEntity"}) /\ ChameleonAt(e, "EndEntity")
      /\ Grouped(m, {"Intermediate"}) /\ ChameleonAt(m, "Intermediate")
      /\ Grouped(r, {"TrustAnchor"})
  BY ChameleonPosition DEF Grouped, PathPosition
<1> HIDE DEF i1, i2, i3, i4, w, x, e, m, r, d
<1>6. Listed(c2, {"inspect"}, {"base", "invalid_delta_base"})
  BY <1>2, ListedConcat
<1>7. Listed(c3, {"inspect"}, {"base", "invalid_delta_base", "invalid_base"})
  BY <1>2, <1>6, ListedConcat
<1>8. Listed(c4, {"inspect"}, {"base", "invalid_delta_base", "invalid_base", "delta"})
  BY <1>2, <1>7, ListedConcat
<1> HIDE DEF c2, c3, c4
<1>9. Listed(v, {"inspect", "path"}, {"base", "invalid_delta_base", "invalid_base", "delta",
        "base_path", "selected"}) /\ Part(w, v)
  BY <1>3, <1>8, ListedConcat, ConcatParts
<1> HIDE DEF v
<1>10. /\ Listed(u, {"inspect", "path"}, {"base", "invalid_delta_base", "invalid_base", "delta",
            "base_path", "selected", "delta_path"})
      /\ Part(v, u) /\ Part(x, u)
  <2>1. {"base", "invalid_delta_base", "invalid_base", "delta", "base_path", "selected"}
          \cap {"delta_path"} = {}
    OBVIOUS
  <2> QED
    BY <1>3, <1>9, <2>1, ListedConcat, ConcatParts
<1>11. /\ Runs(u, "path", "base_path", "Accept") /\ Runs(u, "path", "delta_path", "Accept")
       /\ Selects(u)
  BY <1>3, <1>9, <1>10, PartOfPart, PartRuns, PartSelects
<1> HIDE DEF u
<1> DEFINE T == u \o e \o m \o r \o d
<1>12. Grouped(T, TableIds) /\ Part(u, T) /\ Part(e, T) /\ Part(m, T) /\ Part(d, T)
  <2>1. Grouped(u, {"inspect", "path"})
    BY <1>10 DEF Grouped
  <2> QED
    BY <1>4, <1>5, <2>1, PathTable DEF TableIds
<1> HIDE DEF T
<1>13. /\ Runs(T, "path", "base_path", "Accept") /\ Hashes(T, "anchor", "digest")
       /\ Runs(T, "path", "delta_path", "Accept") /\ Selects(T)
  BY <1>4, <1>11, <1>12, PartRuns, PartHashes, PartSelects
<1>14. ChameleonAt(T, "EndEntity") /\ ChameleonAt(T, "Intermediate")
  BY <1>5, <1>12, ChameleonPart
<1> QED
  BY <1>1, <1>12, <1>13, <1>14 DEF T

LEMMA PurePart ==
  ASSUME NEW s, NEW t, NEW p, Part(s, t), PureAt(s, p)
  PROVE  PureAt(t, p)
BY PartDoes, PartRuns, PartChecked, PartHashes DEF PureAt

LEMMA PureTable ==
  LET T == pure_steps IN
  /\ Grouped(T, TableIds)
  /\ Runs(T, "path", "valid_path", "Accept")
  /\ Hashes(T, "anchor", "digest") /\ Selects(T)
  /\ PureAt(T, "EndEntity") /\ PureAt(T, "Intermediate")
<1> DEFINE
      i1 == InspectChain("pure")
      i2 == InspectChain("invalid")
      c2 == i1 \o i2
      w == ValidPath("valid_path", "pure")
      v == c2 \o w
      e == pure_position_steps("EndEntity")
      m == pure_position_steps("Intermediate")
      r == pure_position_steps("TrustAnchor")
      d == <<Digest("anchor", "digest", <<"pure", "root">>)>>
<1>1. pure_steps = v \o e \o m \o r \o d
  BY DEF pure_steps
<1>2. /\ Listed(i1, {"inspect"}, {"pure"})
      /\ Listed(i2, {"inspect"}, {"invalid"})
  BY InspectChainListed
<1>3. /\ Listed(w, {"path"}, {"valid_path", "selected"}) /\ Runs(w, "path", "valid_path", "Accept")
      /\ Selects(w)
  BY ValidPathListed
<1>4. Grouped(d, {"anchor"}) /\ Hashes(d, "anchor", "digest")
  BY AnchorListed
<1>5. /\ Grouped(e, {"EndEntity"}) /\ PureAt(e, "EndEntity")
      /\ Grouped(m, {"Intermediate"}) /\ PureAt(m, "Intermediate")
      /\ Grouped(r, {"TrustAnchor"})
  BY PurePosition DEF Grouped, PathPosition
<1> HIDE DEF i1, i2, w, e, m, r, d
<1>6. Listed(c2, {"inspect"}, {"pure", "invalid"})
  BY <1>2, ListedConcat
<1> HIDE DEF c2
<1>7. Listed(v, {"inspect", "path"}, {"pure", "invalid", "valid_path", "selected"}) /\ Part(w, v)
  BY <1>3, <1>6, ListedConcat, ConcatParts
<1>8. Runs(v, "path", "valid_path", "Accept") /\ Selects(v)
  BY <1>3, <1>7, PartRuns, PartSelects
<1> HIDE DEF v
<1> DEFINE T == v \o e \o m \o r \o d
<1>9. Grouped(T, TableIds) /\ Part(v, T) /\ Part(e, T) /\ Part(m, T) /\ Part(d, T)
  <2>1. Grouped(v, {"inspect", "path"})
    BY <1>7 DEF Grouped
  <2> QED
    BY <1>4, <1>5, <2>1, PathTable DEF TableIds
<1> HIDE DEF T
<1>10. /\ Runs(T, "path", "valid_path", "Accept") /\ Hashes(T, "anchor", "digest")
       /\ Selects(T)
  BY <1>4, <1>8, <1>9, PartRuns, PartHashes, PartSelects
<1>11. PureAt(T, "EndEntity") /\ PureAt(T, "Intermediate")
  BY <1>5, <1>9, PurePart
<1> QED
  BY <1>1, <1>9, <1>10, <1>11 DEF T

LEMMA RelatedPart ==
  ASSUME NEW s, NEW t, NEW p, Part(s, t), RelatedAt(s, p)
  PROVE  RelatedAt(t, p)
BY PartDoes, PartRuns, PartChecked, PartHashes DEF RelatedAt

LEMMA RelatedTable ==
  LET T == related_steps IN
  /\ Grouped(T, TableIds)
  /\ Runs(T, "path", "classical_path", "Accept")
  /\ Runs(T, "path", "post_quantum_path", "Accept")
  /\ Hashes(T, "anchor", "digest") /\ Selects(T)
  /\ RelatedAt(T, "EndEntity") /\ RelatedAt(T, "Intermediate")
<1> DEFINE
      i1 == InspectChain("classical")
      i2 == InspectChain("invalid_binding")
      i3 == InspectChain("invalid_classical")
      i4 == InspectChain("post_quantum")
      i5 == InspectChain("invalid_post_quantum")
      c2 == i1 \o i2
      c3 == c2 \o i3
      c4 == c3 \o i4
      c5 == c4 \o i5
      w == ValidPath("classical_path", "classical")
      v == c5 \o w
      x == <<Run("path", "post_quantum_path", "Path", Hierarchy("post_quantum"), "Accept")>>
      u == v \o x
      e == related_position_steps("EndEntity")
      m == related_position_steps("Intermediate")
      r == related_position_steps("TrustAnchor")
      d == <<Digest("anchor", "digest", <<"classical", "root">>)>>
<1>1. related_steps = u \o e \o m \o r \o d
  BY DEF related_steps, related_controls
<1>2. /\ Listed(i1, {"inspect"}, {"classical"})
      /\ Listed(i2, {"inspect"}, {"invalid_binding"})
      /\ Listed(i3, {"inspect"}, {"invalid_classical"})
      /\ Listed(i4, {"inspect"}, {"post_quantum"})
      /\ Listed(i5, {"inspect"}, {"invalid_post_quantum"})
  BY InspectChainListed
<1>3. /\ Listed(w, {"path"}, {"classical_path", "selected"}) /\ Runs(w, "path", "classical_path",
           "Accept")
      /\ Selects(w)
      /\ Listed(x, {"path"}, {"post_quantum_path"}) /\ Runs(x, "path", "post_quantum_path",
           "Accept")
  BY ValidPathListed, OneRun
<1>4. Grouped(d, {"anchor"}) /\ Hashes(d, "anchor", "digest")
  BY AnchorListed
<1>5. /\ Grouped(e, {"EndEntity"}) /\ RelatedAt(e, "EndEntity")
      /\ Grouped(m, {"Intermediate"}) /\ RelatedAt(m, "Intermediate")
      /\ Grouped(r, {"TrustAnchor"})
  BY RelatedPosition DEF Grouped, PathPosition
<1> HIDE DEF i1, i2, i3, i4, i5, w, x, e, m, r, d
<1>6. Listed(c2, {"inspect"}, {"classical", "invalid_binding"})
  BY <1>2, ListedConcat
<1>7. Listed(c3, {"inspect"}, {"classical", "invalid_binding", "invalid_classical"})
  BY <1>2, <1>6, ListedConcat
<1>8. Listed(c4, {"inspect"}, {"classical", "invalid_binding", "invalid_classical", "post_quantum"})
  BY <1>2, <1>7, ListedConcat
<1>9. Listed(c5, {"inspect"}, {"classical", "invalid_binding", "invalid_classical",
        "post_quantum", "invalid_post_quantum"})
  BY <1>2, <1>8, ListedConcat
<1> HIDE DEF c2, c3, c4, c5
<1>10. Listed(v, {"inspect", "path"}, {"classical", "invalid_binding", "invalid_classical",
         "post_quantum", "invalid_post_quantum", "classical_path", "selected"}) /\ Part(w, v)
  BY <1>3, <1>9, ListedConcat, ConcatParts
<1> HIDE DEF v
<1>11. /\ Listed(u, {"inspect", "path"}, {"classical", "invalid_binding", "invalid_classical",
            "post_quantum", "invalid_post_quantum", "classical_path", "selected",
            "post_quantum_path"})
      /\ Part(v, u) /\ Part(x, u)
  <2>1. {"classical", "invalid_binding", "invalid_classical", "post_quantum",
          "invalid_post_quantum", "classical_path", "selected"} \cap {"post_quantum_path"} = {}
    OBVIOUS
  <2> QED
    BY <1>3, <1>10, <2>1, ListedConcat, ConcatParts
<1>12. /\ Runs(u, "path", "classical_path", "Accept") /\ Runs(u, "path", "post_quantum_path",
            "Accept")
       /\ Selects(u)
  BY <1>3, <1>10, <1>11, PartOfPart, PartRuns, PartSelects
<1> HIDE DEF u
<1> DEFINE T == u \o e \o m \o r \o d
<1>13. Grouped(T, TableIds) /\ Part(u, T) /\ Part(e, T) /\ Part(m, T) /\ Part(d, T)
  <2>1. Grouped(u, {"inspect", "path"})
    BY <1>11 DEF Grouped
  <2> QED
    BY <1>4, <1>5, <2>1, PathTable DEF TableIds
<1> HIDE DEF T
<1>14. /\ Runs(T, "path", "classical_path", "Accept") /\ Hashes(T, "anchor", "digest")
       /\ Runs(T, "path", "post_quantum_path", "Accept") /\ Selects(T)
  BY <1>4, <1>12, <1>13, PartRuns, PartHashes, PartSelects
<1>15. RelatedAt(T, "EndEntity") /\ RelatedAt(T, "Intermediate")
  BY <1>5, <1>13, RelatedPart
<1> QED
  BY <1>1, <1>13, <1>14, <1>15 DEF T

LEMMA ControlTable ==
  /\ Grouped(classical_control_steps, {"control"})
  /\ Runs(classical_control_steps, "control", "invalid_intermediate_path", "Reject")
  /\ Runs(classical_control_steps, "control", "invalid_root_path", "Accept")
  /\ Runs(classical_control_steps, "control", "invalid_leaf_ecdsa_path", "Reject")
  /\ Runs(classical_control_steps, "control", "invalid_leaf_mldsa_path", "Reject")
  /\ Runs(classical_control_steps, "control", "intermediate_signature", "Accept")
  /\ Runs(classical_control_steps, "control", "invalid_intermediate_signature", "Reject")
  /\ Runs(classical_control_steps, "control", "root_signature", "Accept")
  /\ Runs(classical_control_steps, "control", "invalid_root_signature", "Reject")
  /\ Runs(classical_control_steps, "control", "root_crl", "Accept")
  /\ Runs(classical_control_steps, "control", "ica_crl", "Accept")
<1> DEFINE s == classical_control_steps
<1>1. DOMAIN s = 1 .. 10 /\ s \in Seq(Range(s))
  BY DEF Range, classical_control_steps, BuilderControl, run_direct, run_crl
<1>2. /\ s[1].name = <<"control", "invalid_intermediate_path">> /\ s[1].op = "PathBuilder"
      /\ s[1].nominal = "Reject" /\ s[1].others = StackVerdict \ {"Reject"}
      /\ s[2].name = <<"control", "invalid_root_path">> /\ s[2].op = "PathBuilder"
      /\ s[2].nominal = "Accept" /\ s[2].others = StackVerdict \ {"Accept"}
      /\ s[3].name = <<"control", "invalid_leaf_ecdsa_path">> /\ s[3].op = "PathBuilder"
      /\ s[3].nominal = "Reject" /\ s[3].others = StackVerdict \ {"Reject"}
      /\ s[4].name = <<"control", "invalid_leaf_mldsa_path">> /\ s[4].op = "PathBuilder"
      /\ s[4].nominal = "Reject" /\ s[4].others = StackVerdict \ {"Reject"}
      /\ s[5].name = <<"control", "intermediate_signature">> /\ s[5].op = "CertificateSignature"
      /\ s[5].nominal = "Accept" /\ s[5].others = StackVerdict \ {"Accept"}
      /\ s[6].name = <<"control", "invalid_intermediate_signature">>
      /\ s[6].op = "CertificateSignature" /\ s[6].nominal = "Reject"
      /\ s[6].others = StackVerdict \ {"Reject"} /\ s[7].name = <<"control", "root_signature">>
      /\ s[7].op = "CertificateSignature" /\ s[7].nominal = "Accept"
      /\ s[7].others = StackVerdict \ {"Accept"}
      /\ s[8].name = <<"control", "invalid_root_signature">> /\ s[8].op = "CertificateSignature"
      /\ s[8].nominal = "Reject" /\ s[8].others = StackVerdict \ {"Reject"}
      /\ s[9].name = <<"control", "root_crl">> /\ s[9].op = "CrlStatus" /\ s[9].nominal = "Accept"
      /\ s[9].others = StackVerdict \ {"Accept"} /\ s[10].name = <<"control", "ica_crl">>
      /\ s[10].op = "CrlStatus" /\ s[10].nominal = "Accept"
      /\ s[10].others = StackVerdict \ {"Accept"}
  <2>1. /\ s[1].name = <<"control", "invalid_intermediate_path">> /\ s[1].op = "PathBuilder"
        /\ s[1].nominal = "Reject" /\ s[1].others = StackVerdict \ {"Reject"}
        /\ s[2].name = <<"control", "invalid_root_path">> /\ s[2].op = "PathBuilder"
        /\ s[2].nominal = "Accept" /\ s[2].others = StackVerdict \ {"Accept"}
        /\ s[3].name = <<"control", "invalid_leaf_ecdsa_path">> /\ s[3].op = "PathBuilder"
        /\ s[3].nominal = "Reject" /\ s[3].others = StackVerdict \ {"Reject"}
        /\ s[4].name = <<"control", "invalid_leaf_mldsa_path">> /\ s[4].op = "PathBuilder"
        /\ s[4].nominal = "Reject" /\ s[4].others = StackVerdict \ {"Reject"}
    BY RunFields DEF classical_control_steps, BuilderControl, run_direct, run_crl
  <2>2. /\ s[5].name = <<"control", "intermediate_signature">> /\ s[5].op = "CertificateSignature"
        /\ s[5].nominal = "Accept" /\ s[5].others = StackVerdict \ {"Accept"}
        /\ s[6].name = <<"control", "invalid_intermediate_signature">>
        /\ s[6].op = "CertificateSignature" /\ s[6].nominal = "Reject"
        /\ s[6].others = StackVerdict \ {"Reject"} /\ s[7].name = <<"control", "root_signature">>
        /\ s[7].op = "CertificateSignature" /\ s[7].nominal = "Accept"
        /\ s[7].others = StackVerdict \ {"Accept"}
        /\ s[8].name = <<"control", "invalid_root_signature">> /\ s[8].op = "CertificateSignature"
        /\ s[8].nominal = "Reject" /\ s[8].others = StackVerdict \ {"Reject"}
    BY RunFields DEF classical_control_steps, BuilderControl, run_direct, run_crl
  <2>3. /\ s[9].name = <<"control", "root_crl">> /\ s[9].op = "CrlStatus"
        /\ s[9].nominal = "Accept" /\ s[9].others = StackVerdict \ {"Accept"}
        /\ s[10].name = <<"control", "ica_crl">> /\ s[10].op = "CrlStatus"
        /\ s[10].nominal = "Accept" /\ s[10].others = StackVerdict \ {"Accept"}
    BY RunFields DEF classical_control_steps, BuilderControl, run_direct, run_crl
  <2> QED
    BY <2>1, <2>2, <2>3
<1> HIDE DEF s
<1>3. \A i \in DOMAIN s : s[i].name[1] \in {"control"}
  BY <1>1, <1>2
<1>4. \A i, j \in DOMAIN s : s[i].name = s[j].name => i = j
  BY <1>1, <1>2
<1>5. Listed(s, {"control"}, {s[i].name[2] : i \in DOMAIN s})
  BY <1>1, <1>3, <1>4 DEF Listed
<1>6. /\ Runs(s, "control", "invalid_intermediate_path", "Reject")
      /\ Runs(s, "control", "invalid_root_path", "Accept")
      /\ Runs(s, "control", "invalid_leaf_ecdsa_path", "Reject")
      /\ Runs(s, "control", "invalid_leaf_mldsa_path", "Reject")
      /\ Runs(s, "control", "intermediate_signature", "Accept")
      /\ Runs(s, "control", "invalid_intermediate_signature", "Reject")
      /\ Runs(s, "control", "root_signature", "Accept")
      /\ Runs(s, "control", "invalid_root_signature", "Reject")
      /\ Runs(s, "control", "root_crl", "Accept") /\ Runs(s, "control", "ica_crl", "Accept")
  BY <1>1, <1>2 DEF Runs, Does, Checked, Hashes, Modes
<1> QED
  BY <1>5, <1>6 DEF s, Grouped

LEMMA RouteTable ==
  /\ Grouped(classical_route_steps, {"route"})
  /\ Hashes(classical_route_steps, "route", "leaf")
  /\ Hashes(classical_route_steps, "route", "leaf_edge")
  /\ Hashes(classical_route_steps, "route", "intermediate")
  /\ Hashes(classical_route_steps, "route", "intermediate_edge")
  /\ Hashes(classical_route_steps, "route", "root")
  /\ Checked(classical_route_steps, "route", "intermediate_validity")
  /\ Checked(classical_route_steps, "route", "root_validity")
<1> DEFINE s == classical_route_steps
<1>1. DOMAIN s = 1 .. 7 /\ s \in Seq(Range(s))
  BY DEF Range, classical_route_steps
<1>2. /\ s[1].name = <<"route", "leaf">> /\ s[1].op = "digest"
      /\ s[2].name = <<"route", "leaf_edge">> /\ s[2].op = "edge"
      /\ s[3].name = <<"route", "intermediate">> /\ s[3].op = "digest"
      /\ s[4].name = <<"route", "intermediate_edge">> /\ s[4].op = "edge"
      /\ s[5].name = <<"route", "root">> /\ s[5].op = "digest"
      /\ s[6].name = <<"route", "intermediate_validity">> /\ s[6].op = "validity"
      /\ s[6].nominal = "Pass" /\ s[6].others = {"Fail"}
      /\ s[7].name = <<"route", "root_validity">> /\ s[7].op = "validity" /\ s[7].nominal = "Pass"
      /\ s[7].others = {"Fail"}
  <2>1. /\ s[6].name = <<"route", "intermediate_validity">> /\ s[6].op = "validity"
        /\ s[6].nominal = "Pass" /\ s[6].others = {"Fail"}
        /\ s[7].name = <<"route", "root_validity">> /\ s[7].op = "validity"
        /\ s[7].nominal = "Pass" /\ s[7].others = {"Fail"}
    BY CheckFields DEF classical_route_steps
  <2>2. /\ s[1].name = <<"route", "leaf">> /\ s[1].op = "digest"
        /\ s[2].name = <<"route", "leaf_edge">> /\ s[2].op = "edge"
        /\ s[3].name = <<"route", "intermediate">> /\ s[3].op = "digest"
        /\ s[4].name = <<"route", "intermediate_edge">> /\ s[4].op = "edge"
        /\ s[5].name = <<"route", "root">> /\ s[5].op = "digest"
    BY HashFields DEF classical_route_steps
  <2> QED
    BY <2>1, <2>2
<1> HIDE DEF s
<1>3. \A i \in DOMAIN s : s[i].name[1] \in {"route"}
  BY <1>1, <1>2
<1>4. \A i, j \in DOMAIN s : s[i].name = s[j].name => i = j
  BY <1>1, <1>2
<1>5. Listed(s, {"route"}, {s[i].name[2] : i \in DOMAIN s})
  BY <1>1, <1>3, <1>4 DEF Listed
<1>6. /\ Hashes(s, "route", "leaf") /\ Hashes(s, "route", "leaf_edge")
      /\ Hashes(s, "route", "intermediate") /\ Hashes(s, "route", "intermediate_edge")
      /\ Hashes(s, "route", "root") /\ Checked(s, "route", "intermediate_validity")
      /\ Checked(s, "route", "root_validity")
  BY <1>1, <1>2 DEF Runs, Does, Checked, Hashes, Modes
<1> QED
  BY <1>5, <1>6 DEF s, Grouped

\* Some step has the name.
Has(steps, name) == \E i \in DOMAIN steps : steps[i].name = name

LEMMA PartHas ==
  ASSUME NEW s, NEW t, Part(s, t), NEW name, Has(s, name)
  PROVE  Has(t, name)
BY DEF Has, Part

LEMMA SelectionTable ==
  ASSUME NEW id, NEW roots, NEW intermediates, NEW nominal
  PROVE  LET s == Selection(id, roots, intermediates, nominal) IN
         /\ Grouped(s, {id}) /\ Hashes(s, id, "leaf")
         /\ Has(s, <<id, "route">>)
<1> DEFINE s == Selection(id, roots, intermediates, nominal)
<1>1. DOMAIN s = 1 .. 2 /\ s \in Seq(Range(s))
  BY DEF Range, Selection
<1>2. s[1].name = <<id, "leaf">> /\ s[1].op = "digest"
  BY HashFields DEF Selection
<1>3. /\ s[2].name = <<id, "route">> /\ s[2].op = "PathBuilder" /\ s[2].nominal = nominal
  BY BuilderFields DEF Selection
<1> HIDE DEF s
<1>4. Listed(s, {id}, {"leaf", "route"})
  BY <1>1, <1>2, <1>3 DEF Listed
<1>5. Hashes(s, id, "leaf") /\ Has(s, <<id, "route">>)
  BY <1>1, <1>2, <1>3 DEF Hashes, Has
<1> QED
  BY <1>4, <1>5 DEF s, Grouped

BuilderIds ==
  {"hash", "selected", "forced_classical", "forced_atomic", "classical_fallback",
   "atomic_fallback", "routes"}

LEMMA BuilderTable ==
  LET T == builder_steps IN
  /\ Grouped(T, BuilderIds)
  /\ Hashes(T, "hash", "classical_ica") /\ Hashes(T, "hash", "classical_root")
  /\ Hashes(T, "hash", "atomic_ica") /\ Hashes(T, "hash", "atomic_root")
  /\ Hashes(T, "selected", "leaf") /\ Hashes(T, "classical_fallback", "leaf")
  /\ Has(T, <<"selected", "route">>) /\ Has(T, <<"forced_classical", "route">>)
  /\ Has(T, <<"forced_atomic", "route">>) /\ Has(T, <<"classical_fallback", "route">>)
  /\ Has(T, <<"atomic_fallback", "route">>)
  /\ T[Len(T)].op = "routes" /\ T[Len(T)].nominal = "expected"
<1> DEFINE
      h == <<Digest("hash", "classical_ica", Classical("intermediate")),
             Digest("hash", "classical_root", Classical("root")),
             Digest("hash", "atomic_ica", <<"atomic", "intermediate">>),
             Digest("hash", "atomic_root", <<"atomic", "root">>)>>
      s1 == Selection("selected", Bundle("roots"), Bundle("icas"), "atomic")
      s2 == Selection("forced_classical", Classical("root"), Bundle("icas"), "classical")
      s3 == Selection("forced_atomic", <<"atomic", "root">>, Bundle("icas"), "atomic")
      s4 == Selection("classical_fallback", Bundle("roots"), Bundle("icas_classical"), "classical")
      s5 == Selection("atomic_fallback", Bundle("roots"), Bundle("icas_atomic"), "atomic")
      f == <<Step("routes", "forced", "routes", << >>, "expected", {})>>
<1>1. builder_steps = h \o s1 \o s2 \o s3 \o s4 \o s5 \o f
  BY DEF builder_steps
<1>2. /\ Grouped(h, {"hash"})
      /\ Hashes(h, "hash", "classical_ica") /\ Hashes(h, "hash", "classical_root")
      /\ Hashes(h, "hash", "atomic_ica") /\ Hashes(h, "hash", "atomic_root")
  <2>1. DOMAIN h = 1 .. 4 /\ h \in Seq(Range(h))
    BY DEF Range
  <2>2. /\ h[1].name = <<"hash", "classical_ica">> /\ h[2].name = <<"hash", "classical_root">>
        /\ h[3].name = <<"hash", "atomic_ica">> /\ h[4].name = <<"hash", "atomic_root">>
        /\ h[1].op = "digest" /\ h[2].op = "digest" /\ h[3].op = "digest" /\ h[4].op = "digest"
    BY HashFields
  <2> HIDE DEF h
  <2>3. Listed(h, {"hash"}, {"classical_ica", "classical_root", "atomic_ica", "atomic_root"})
    BY <2>1, <2>2 DEF Listed
  <2>4. /\ Hashes(h, "hash", "classical_ica") /\ Hashes(h, "hash", "classical_root")
        /\ Hashes(h, "hash", "atomic_ica") /\ Hashes(h, "hash", "atomic_root")
    BY <2>1, <2>2 DEF Hashes
  <2> QED
    BY <2>3, <2>4 DEF Grouped
<1>3. /\ Grouped(f, {"routes"}) /\ Len(f) = 1 /\ f[1].op = "routes" /\ f[1].nominal = "expected"
  <2>1. /\ f[1].name = <<"routes", "forced">> /\ f[1].op = "routes" /\ f[1].nominal = "expected"
        /\ Len(f) = 1
    BY DEF Step
  <2>2. DOMAIN f = {1} /\ f \in Seq(Range(f))
    BY DEF Range
  <2> HIDE DEF f
  <2>3. Listed(f, {"routes"}, {"forced"})
    BY <2>1, <2>2 DEF Listed
  <2> QED
    BY <2>1, <2>3 DEF Grouped
<1>4. /\ Grouped(s1, {"selected"}) /\ Grouped(s2, {"forced_classical"})
      /\ Grouped(s3, {"forced_atomic"}) /\ Grouped(s4, {"classical_fallback"})
      /\ Grouped(s5, {"atomic_fallback"})
      /\ Hashes(s1, "selected", "leaf") /\ Hashes(s4, "classical_fallback", "leaf")
      /\ Has(s1, <<"selected", "route">>) /\ Has(s2, <<"forced_classical", "route">>)
      /\ Has(s3, <<"forced_atomic", "route">>) /\ Has(s4, <<"classical_fallback", "route">>)
      /\ Has(s5, <<"atomic_fallback", "route">>)
  BY SelectionTable
<1> HIDE DEF h, s1, s2, s3, s4, s5, f
<1>5. Grouped(h \o s1, {"hash", "selected"}) /\ Part(h, h \o s1) /\ Part(s1, h \o s1)
  <2>1. {"hash"} \cap {"selected"} = {} /\ {"hash"} \cup {"selected"} = {"hash", "selected"}
    OBVIOUS
  <2> QED
    BY <1>2, <1>3, <1>4, <2>1, GroupedConcat
<1>6. /\ Grouped(h \o s1 \o s2, {"hash", "selected", "forced_classical"})
      /\ Part(h \o s1, h \o s1 \o s2) /\ Part(s2, h \o s1 \o s2)
  <2>1. {"hash", "selected"} \cap {"forced_classical"} = {}
          /\ {"hash", "selected"} \cup {"forced_classical"} = {"hash", "selected",
          "forced_classical"}
    OBVIOUS
  <2> QED
    BY <1>2, <1>3, <1>4, <1>5, <2>1, GroupedConcat
<1>7. /\ Grouped(h \o s1 \o s2 \o s3, {"hash", "selected", "forced_classical", "forced_atomic"})
      /\ Part(h \o s1 \o s2, h \o s1 \o s2 \o s3) /\ Part(s3, h \o s1 \o s2 \o s3)
  <2>1. {"hash", "selected", "forced_classical"} \cap {"forced_atomic"} = {}
          /\ {"hash", "selected", "forced_classical"} \cup {"forced_atomic"}
          = {"hash", "selected", "forced_classical", "forced_atomic"}
    OBVIOUS
  <2> QED
    BY <1>2, <1>3, <1>4, <1>6, <2>1, GroupedConcat
<1>8. /\ Grouped(h \o s1 \o s2 \o s3 \o s4, {"hash", "selected", "forced_classical",
                                            "forced_atomic", "classical_fallback"})
      /\ Part(h \o s1 \o s2 \o s3, h \o s1 \o s2 \o s3 \o s4)
      /\ Part(s4, h \o s1 \o s2 \o s3 \o s4)
  <2>1. {"hash", "selected", "forced_classical", "forced_atomic"} \cap {"classical_fallback"} = {}
          /\ {"hash", "selected", "forced_classical", "forced_atomic"} \cup {"classical_fallback"}
          = {"hash", "selected", "forced_classical", "forced_atomic", "classical_fallback"}
    OBVIOUS
  <2> QED
    BY <1>2, <1>3, <1>4, <1>7, <2>1, GroupedConcat
<1>9. /\ Grouped(h \o s1 \o s2 \o s3 \o s4 \o s5,
                 {"hash", "selected", "forced_classical", "forced_atomic", "classical_fallback",
                  "atomic_fallback"})
      /\ Part(h \o s1 \o s2 \o s3 \o s4, h \o s1 \o s2 \o s3 \o s4 \o s5)
      /\ Part(s5, h \o s1 \o s2 \o s3 \o s4 \o s5)
  <2>1. {"hash", "selected", "forced_classical", "forced_atomic", "classical_fallback"}
          \cap {"atomic_fallback"} = {} /\ {"hash", "selected", "forced_classical",
          "forced_atomic", "classical_fallback"} \cup {"atomic_fallback"} = {"hash", "selected",
          "forced_classical", "forced_atomic", "classical_fallback", "atomic_fallback"}
    OBVIOUS
  <2> QED
    BY <1>2, <1>3, <1>4, <1>8, <2>1, GroupedConcat
<1>10. /\ Grouped(h \o s1 \o s2 \o s3 \o s4 \o s5 \o f,
                  {"hash", "selected", "forced_classical", "forced_atomic", "classical_fallback",
                   "atomic_fallback", "routes"})
       /\ Part(h \o s1 \o s2 \o s3 \o s4 \o s5, h \o s1 \o s2 \o s3 \o s4 \o s5 \o f)
  <2>1. {"hash", "selected", "forced_classical", "forced_atomic", "classical_fallback",
          "atomic_fallback"} \cap {"routes"} = {} /\ {"hash", "selected", "forced_classical",
          "forced_atomic", "classical_fallback", "atomic_fallback"} \cup {"routes"}
          = {"hash", "selected", "forced_classical", "forced_atomic", "classical_fallback",
          "atomic_fallback", "routes"}
    OBVIOUS
  <2> QED
    BY <1>2, <1>3, <1>4, <1>9, <2>1, GroupedConcat
<1>11. /\ Part(h, builder_steps) /\ Part(s1, builder_steps) /\ Part(s2, builder_steps)
       /\ Part(s3, builder_steps) /\ Part(s4, builder_steps) /\ Part(s5, builder_steps)
  BY <1>1, <1>5, <1>6, <1>7, <1>8, <1>9, <1>10, PartOfPart
<1>12. /\ builder_steps[Len(builder_steps)].op = "routes"
       /\ builder_steps[Len(builder_steps)].nominal = "expected"
  <2> DEFINE x == h \o s1 \o s2 \o s3 \o s4 \o s5
  <2>1. /\ \E X : x \in Seq(X)
        /\ \E X : f \in Seq(X)
    BY <1>3, <1>9 DEF Grouped, Listed
  <2>2. builder_steps = x \o f
    BY <1>1
  <2> HIDE DEF x
  <2>3. Len(x \o f) = Len(x) + Len(f) /\ DOMAIN f = 1 .. Len(f)
    BY <2>1, Concatenation, Zenon
  <2>4. 1 \in DOMAIN f
    BY <1>3, <2>3
  <2>5. (x \o f)[Len(x) + 1] = f[1]
    <3>1. \A i \in DOMAIN f : (x \o f)[Len(x) + i] = f[i]
      BY <2>1, ConcatElements
    <3> QED
      BY <2>4, <3>1, Zenon
  <2>6. Len(x \o f) = Len(x) + 1
    BY <1>3, <2>3, Zenon
  <2>7. builder_steps[Len(builder_steps)] = f[1]
    BY <2>2, <2>5, <2>6, Zenon
  <2> QED
    BY <1>3, <2>7, Zenon
<1>13. /\ Hashes(builder_steps, "hash", "classical_ica")
       /\ Hashes(builder_steps, "hash", "classical_root")
       /\ Hashes(builder_steps, "hash", "atomic_ica")
       /\ Hashes(builder_steps, "hash", "atomic_root")
       /\ Hashes(builder_steps, "selected", "leaf")
       /\ Hashes(builder_steps, "classical_fallback", "leaf")
  BY <1>2, <1>4, <1>11, PartHashes
<1>14. /\ Has(builder_steps, <<"selected", "route">>)
       /\ Has(builder_steps, <<"forced_classical", "route">>)
       /\ Has(builder_steps, <<"forced_atomic", "route">>)
       /\ Has(builder_steps, <<"classical_fallback", "route">>)
       /\ Has(builder_steps, <<"atomic_fallback", "route">>)
  BY <1>4, <1>11, PartHas
<1>15. Grouped(builder_steps, BuilderIds)
  BY <1>1, <1>10 DEF BuilderIds
<1> QED
  BY <1>12, <1>13, <1>14, <1>15

LEMMA CrossTable ==
  LET T == cross_signed_steps IN
  /\ Grouped(T, BuilderIds \cup {"control"} \cup TableIds \cup {"route"})
  /\ Part(builder_steps, T) /\ Part(classical_control_steps, T) /\ Part(atomic_steps, T)
  /\ Part(classical_route_steps, T)
<1> DEFINE b == builder_steps
           c == classical_control_steps
           a == atomic_steps
           r == classical_route_steps
<1>1. /\ Grouped(b, BuilderIds) /\ Grouped(c, {"control"}) /\ Grouped(a, TableIds)
      /\ Grouped(r, {"route"})
  BY BuilderTable, ControlTable, AtomicTable, RouteTable
<1>2. cross_signed_steps = b \o c \o a \o r
  BY DEF cross_signed_steps
<1>3. /\ BuilderIds \cap {"control"} = {} /\ (BuilderIds \cup {"control"}) \cap TableIds = {}
      /\ (BuilderIds \cup {"control"} \cup TableIds) \cap {"route"} = {}
  BY DEF BuilderIds, TableIds
<1> HIDE DEF a, b, c, r
<1>4. Grouped(b \o c, BuilderIds \cup {"control"}) /\ Part(b, b \o c) /\ Part(c, b \o c)
  BY <1>1, <1>3, GroupedConcat
<1>5. /\ Grouped(b \o c \o a, BuilderIds \cup {"control"} \cup TableIds)
      /\ Part(b \o c, b \o c \o a) /\ Part(a, b \o c \o a)
  BY <1>1, <1>3, <1>4, GroupedConcat
<1>6. /\ Grouped(b \o c \o a \o r, BuilderIds \cup {"control"} \cup TableIds \cup {"route"})
      /\ Part(b \o c \o a, b \o c \o a \o r) /\ Part(r, b \o c \o a \o r)
  BY <1>1, <1>3, <1>5, GroupedConcat
<1>7. /\ Part(b, b \o c \o a \o r) /\ Part(c, b \o c \o a \o r) /\ Part(a, b \o c \o a \o r)
  BY <1>4, <1>5, <1>6, PartOfPart
<1> QED
  BY <1>2, <1>6, <1>7 DEF a, b, c, r

-----------------------------------------------------------------------------
(* The tables of the credentials *)

\* No two steps have the same name.
Distinct(steps) ==
  /\ \E X : steps \in Seq(X)
  /\ \A i, j \in DOMAIN steps : steps[i].name = steps[j].name => i = j

LEMMA GroupedIsDistinct ==
  ASSUME NEW s, NEW ids, Grouped(s, ids)
  PROVE  Distinct(s)
BY DEF Grouped, Listed, Distinct

Named(steps, names) ==
  /\ \E X : steps \in Seq(X)
  /\ \A i \in DOMAIN steps : steps[i].name \in names
  /\ \A i, j \in DOMAIN steps : steps[i].name = steps[j].name => i = j

LEMMA NamedConcat ==
  ASSUME NEW s, NEW t, NEW M, NEW N, Named(s, M), Named(t, N), M \cap N = {}
  PROVE  Named(s \o t, M \cup N) /\ Part(s, s \o t) /\ Part(t, s \o t)
<1> DEFINE st == s \o t
<1>1. /\ \E X : st \in Seq(X)
      /\ Len(s) \in Nat /\ Len(t) \in Nat /\ Len(st) = Len(s) + Len(t)
      /\ DOMAIN s = 1 .. Len(s) /\ DOMAIN t = 1 .. Len(t)
      /\ DOMAIN st = 1 .. Len(s) + Len(t)
      /\ \A i \in 1 .. Len(s) + Len(t) :
              /\ i <= Len(s) => i \in DOMAIN s /\ st[i] = s[i]
              /\ ~(i <= Len(s)) => i - Len(s) \in DOMAIN t /\ st[i] = t[i - Len(s)]
  BY Concatenation DEF Named
<1>2. /\ \A i \in DOMAIN s : i \in DOMAIN st /\ st[i] = s[i]
      /\ \A i \in DOMAIN t : Len(s) + i \in DOMAIN st /\ st[Len(s) + i] = t[i]
  BY ConcatElements DEF Named
<1> HIDE DEF st
<1>3. ASSUME NEW i \in DOMAIN st
      PROVE  /\ i <= Len(s) => st[i].name \in M
             /\ ~(i <= Len(s)) => st[i].name \in N
  BY <1>1 DEF Named
<1>4. ASSUME NEW i \in DOMAIN st, NEW j \in DOMAIN st, st[i].name = st[j].name PROVE i = j
  <2>1. i <= Len(s) <=> j <= Len(s)
    BY <1>3, <1>4
  <2>2. CASE i <= Len(s)
    BY <1>1, <1>4, <2>1, <2>2 DEF Named
  <2>3. CASE ~(i <= Len(s))
    <3>1. /\ i - Len(s) \in DOMAIN t /\ j - Len(s) \in DOMAIN t
          /\ t[i - Len(s)].name = t[j - Len(s)].name
      BY <1>1, <1>4, <2>1, <2>3
    <3>2. i - Len(s) = j - Len(s)
      BY <3>1, Zenon DEF Named
    <3> QED
      BY <3>2, <1>1
  <2> QED
    BY <2>2, <2>3
<1>5. Named(st, M \cup N)
  BY <1>1, <1>3, <1>4 DEF Named
<1>6. Part(s, st) /\ Part(t, st)
  BY <1>2 DEF Part
<1> QED
  BY <1>5, <1>6 DEF st

LEMMA EvidenceIdentityNamed ==
  ASSUME NEW leaf
  PROVE  LET s == EvidenceIdentity(leaf) IN
         /\ Named(s, {<<"evidence", "digest">>, <<"evidence", "edge">>})
         /\ Hashes(s, "evidence", "digest") /\ Hashes(s, "evidence", "edge")
<1> DEFINE s == EvidenceIdentity(leaf)
<1>1. DOMAIN s = 1 .. 2 /\ s \in Seq(Range(s))
  BY DEF Range, EvidenceIdentity
<1>2. /\ s[1].name = <<"evidence", "digest">> /\ s[1].op = "digest"
      /\ s[2].name = <<"evidence", "edge">> /\ s[2].op = "edge"
  BY HashFields DEF EvidenceIdentity
<1> HIDE DEF s
<1> DEFINE N == {<<"evidence", "digest">>, <<"evidence", "edge">>}
<1>3. \A i \in DOMAIN s : s[i].name \in N
  <2>1. /\ s[1].name \in N /\ s[2].name \in N
    BY <1>2, Zenon
  <2> HIDE DEF N
  <2> QED
    BY <1>1, <2>1
<1>4. \A i, j \in DOMAIN s : s[i].name = s[j].name => i = j
  BY <1>1, <1>2
<1>5. Named(s, {<<"evidence", "digest">>, <<"evidence", "edge">>})
  BY <1>1, <1>3, <1>4 DEF Named
<1>6. /\ Hashes(s, "evidence", "digest") /\ Hashes(s, "evidence", "edge")
  BY <1>1, <1>2 DEF Hashes
<1> QED
  BY <1>5, <1>6 DEF s

LEMMA AnchorDigestNamed ==
  LET s == AnchorDigest IN
  /\ Named(s, {<<"anchor", "digest">>}) /\ Hashes(s, "anchor", "digest")
<1> DEFINE s == AnchorDigest
<1>1. DOMAIN s = {1} /\ s \in Seq(Range(s))
  BY DEF Range, AnchorDigest
<1>2. /\ s[1].name = <<"anchor", "digest">> /\ s[1].op = "digest"
  BY HashFields DEF AnchorDigest
<1> HIDE DEF s
<1> DEFINE N == {<<"anchor", "digest">>}
<1>3. \A i \in DOMAIN s : s[i].name \in N
  <2>1. /\ s[1].name \in N
    BY <1>2, Zenon
  <2> HIDE DEF N
  <2> QED
    BY <1>1, <2>1
<1>4. \A i, j \in DOMAIN s : s[i].name = s[j].name => i = j
  BY <1>1, <1>2
<1>5. Named(s, {<<"anchor", "digest">>})
  BY <1>1, <1>3, <1>4 DEF Named
<1>6. /\ Hashes(s, "anchor", "digest")
  BY <1>1, <1>2 DEF Hashes
<1> QED
  BY <1>5, <1>6 DEF s

LEMMA PathIdentityNamed ==
  ASSUME NEW leaf
  PROVE  LET s == PathIdentity(leaf) IN
         /\ Named(s, {<<"node", "digest">>, <<"node", "edge">>, <<"issuer", "digest">>,
              <<"issuer", "edge">>})
         /\ Hashes(s, "node", "digest") /\ Hashes(s, "node", "edge")
         /\ Hashes(s, "issuer", "digest") /\ Hashes(s, "issuer", "edge")
<1> DEFINE s == PathIdentity(leaf)
<1>1. DOMAIN s = 1 .. 4 /\ s \in Seq(Range(s))
  BY DEF Range, PathIdentity
<1>2. /\ s[1].name = <<"node", "digest">> /\ s[1].op = "digest" /\ s[2].name = <<"node", "edge">>
      /\ s[2].op = "edge" /\ s[3].name = <<"issuer", "digest">> /\ s[3].op = "digest"
      /\ s[4].name = <<"issuer", "edge">> /\ s[4].op = "edge"
  BY HashFields DEF PathIdentity
<1> HIDE DEF s
<1> DEFINE N == {<<"node", "digest">>, <<"node", "edge">>, <<"issuer", "digest">>,
             <<"issuer", "edge">>}
<1>3. \A i \in DOMAIN s : s[i].name \in N
  <2>1. /\ s[1].name \in N /\ s[2].name \in N /\ s[3].name \in N /\ s[4].name \in N
    BY <1>2, Zenon
  <2> HIDE DEF N
  <2> QED
    BY <1>1, <2>1
<1>4. \A i, j \in DOMAIN s : s[i].name = s[j].name => i = j
  BY <1>1, <1>2
<1>5. Named(s, {<<"node", "digest">>, <<"node", "edge">>, <<"issuer", "digest">>,
        <<"issuer", "edge">>})
  BY <1>1, <1>3, <1>4 DEF Named
<1>6. /\ Hashes(s, "node", "digest") /\ Hashes(s, "node", "edge") /\ Hashes(s, "issuer", "digest")
           /\ Hashes(s, "issuer", "edge")
  BY <1>1, <1>2 DEF Hashes
<1> QED
  BY <1>5, <1>6 DEF s

\* What the table does.
CatalystBouncyCastleSteps(T) ==
  /\ Selects(T)
  /\ Does(T, "leaf", "crl_status", {"crl_status"}, <<"Pass", "Pass">>,
       CrlAnswers \ {<<"Pass", "Pass">>})
  /\ Does(T, "issuer", "crl_status", {"crl_status"}, <<"Pass", "Pass">>,
       CrlAnswers \ {<<"Pass", "Pass">>})
  /\ Does(T, "root", "crl_status", {"crl_status"}, <<"Pass", "Pass">>,
       CrlAnswers \ {<<"Pass", "Pass">>})
  /\ Checked(T, "leaf", "validity") /\ Checked(T, "issuer", "validity")
  /\ Checked(T, "root", "validity") /\ Runs(T, "leaf", "valid_default", "Accept")
  /\ Runs(T, "leaf", "invalid_post_quantum_default", "Accept")
  /\ Runs(T, "leaf", "valid_post_quantum", "Accept")
  /\ Runs(T, "leaf", "invalid_post_quantum", "Reject")
  /\ Runs(T, "leaf", "invalid_classical", "Reject")
  /\ Runs(T, "issuer", "invalid_classical", "Reject")
  /\ Runs(T, "root", "invalid_classical", "Accept") /\ Hashes(T, "node", "digest")
  /\ Hashes(T, "node", "edge") /\ Hashes(T, "issuer", "digest") /\ Hashes(T, "issuer", "edge")
  /\ Hashes(T, "root", "digest") /\ Hashes(T, "anchor", "digest")

LEMMA CatalystBouncyCastleTable == Distinct(catalyst_bouncy_castle_steps)
        /\ CatalystBouncyCastleSteps(catalyst_bouncy_castle_steps)
<1> DEFINE
      valid == Leaf("certificate")
      invalid == Leaf("invalid_post_quantum")
      a == <<Inspect(valid), Inspect(invalid),
             CrlStatus("leaf", "crl_status", valid, Issuer, IssuedCrl, <<"Pass", "Pass">>),
             CrlStatus("issuer", "crl_status", Issuer, TrustStore, RootCrl, <<"Pass", "Pass">>),
             CrlStatus("root", "crl_status", TrustStore, TrustStore, RootCrl, <<"Pass", "Pass">>),
             Validity("leaf", "validity", valid), Validity("issuer", "validity", Issuer),
             Validity("root", "validity", TrustStore)>>
      b == BouncyCastleStack(Run("leaf", "valid_default", "Path", Presentation(valid), "Accept"),
        valid)
      c == <<Run("leaf", "invalid_post_quantum_default", "Path", Presentation(invalid), "Accept"),
             Run("leaf", "valid_post_quantum", "AlternativeSignature", Presentation(valid),
               "Accept"),
             Run("leaf", "invalid_post_quantum", "AlternativeSignature", Presentation(invalid),
                 "Reject"),
             Corrupt("leaf", valid),
             Run("leaf", "invalid_classical", "Path", Presentation(Corrupted(valid)), "Reject"),
             Corrupt("issuer", Issuer),
             Run("issuer", "invalid_classical", "Path",
                 [Presentation(valid) EXCEPT !.intermediate = Corrupted(Issuer)], "Reject"),
             Corrupt("root", TrustStore),
             Run("root", "invalid_classical", "Path",
                 [Presentation(valid) EXCEPT !.root = Corrupted(TrustStore)], "Accept"),
             Digest("node", "digest", valid), Edge("node", "edge", valid, Issuer),
             Digest("issuer", "digest", Issuer), Edge("issuer", "edge", Issuer, TrustStore),
             Digest("root", "digest", TrustStore)>>
      d == AnchorDigest
      A == {<<"inspect", "certificate", "leaf">>, <<"inspect", "invalid_post_quantum", "leaf">>,
            <<"leaf", "crl_status">>, <<"issuer", "crl_status">>, <<"root", "crl_status">>,
            <<"leaf", "validity">>, <<"issuer", "validity">>, <<"root", "validity">>}
      B == {<<"leaf", "valid_default">>, <<"path", "selected">>}
      C == {<<"leaf", "invalid_post_quantum_default">>, <<"leaf", "valid_post_quantum">>,
            <<"leaf", "invalid_post_quantum">>, <<"leaf", "corrupt">>,
            <<"leaf", "invalid_classical">>, <<"issuer", "corrupt">>,
            <<"issuer", "invalid_classical">>, <<"root", "corrupt">>,
            <<"root", "invalid_classical">>, <<"node", "digest">>, <<"node", "edge">>,
            <<"issuer", "digest">>, <<"issuer", "edge">>, <<"root", "digest">>}
      D == {<<"anchor", "digest">>}
<1>1. catalyst_bouncy_castle_steps = a \o b \o c \o d
  BY DEF catalyst_bouncy_castle_steps
<1>2. /\ Named(a, A)
      /\ Does(a, "leaf", "crl_status", {"crl_status"}, <<"Pass", "Pass">>,
           CrlAnswers \ {<<"Pass", "Pass">>})
      /\ Does(a, "issuer", "crl_status", {"crl_status"}, <<"Pass", "Pass">>,
           CrlAnswers \ {<<"Pass", "Pass">>})
      /\ Does(a, "root", "crl_status", {"crl_status"}, <<"Pass", "Pass">>,
           CrlAnswers \ {<<"Pass", "Pass">>})
      /\ Checked(a, "leaf", "validity") /\ Checked(a, "issuer", "validity")
      /\ Checked(a, "root", "validity")
  <2>1. DOMAIN a = 1 .. 8 /\ a \in Seq(Range(a))
    BY DEF Range
  <2>2. /\ a[6].name = <<"leaf", "validity">> /\ a[6].op = "validity" /\ a[6].nominal = "Pass"
        /\ a[6].others = {"Fail"} /\ a[7].name = <<"issuer", "validity">> /\ a[7].op = "validity"
        /\ a[7].nominal = "Pass" /\ a[7].others = {"Fail"} /\ a[8].name = <<"root", "validity">>
        /\ a[8].op = "validity" /\ a[8].nominal = "Pass" /\ a[8].others = {"Fail"}
    BY CheckFields
  <2>3. /\ a[1].name = <<"inspect", "certificate", "leaf">>
        /\ a[2].name = <<"inspect", "invalid_post_quantum", "leaf">>
    BY CheckFields DEF Leaf
  <2>4. /\ a[3].name = <<"leaf", "crl_status">> /\ a[3].op = "crl_status"
        /\ a[3].nominal = <<"Pass", "Pass">> /\ a[3].others = CrlAnswers \ {<<"Pass", "Pass">>}
        /\ a[4].name = <<"issuer", "crl_status">> /\ a[4].op = "crl_status"
        /\ a[4].nominal = <<"Pass", "Pass">> /\ a[4].others = CrlAnswers \ {<<"Pass", "Pass">>}
        /\ a[5].name = <<"root", "crl_status">> /\ a[5].op = "crl_status"
        /\ a[5].nominal = <<"Pass", "Pass">> /\ a[5].others = CrlAnswers \ {<<"Pass", "Pass">>}
    BY CheckFields
  <2> HIDE DEF a
  <2>5. \A i \in DOMAIN a : a[i].name \in A
    <3>1. /\ a[1].name \in A /\ a[2].name \in A /\ a[3].name \in A /\ a[4].name \in A
          /\ a[5].name \in A /\ a[6].name \in A /\ a[7].name \in A /\ a[8].name \in A
      BY <2>2, <2>3, <2>4, Zenon
    <3> HIDE DEF A
    <3> QED
      BY <2>1, <3>1
  <2>6. \A i, j \in DOMAIN a : a[i].name = a[j].name => i = j
    BY <2>1, <2>2, <2>3, <2>4
  <2>7. Named(a, A)
    BY <2>1, <2>5, <2>6 DEF Named
  <2> QED
    BY <2>1, <2>2, <2>3, <2>4, <2>7 DEF Runs, Does, Checked, Hashes, Modes
<1>3. /\ Named(b, B) /\ Selects(b) /\ Runs(b, "leaf", "valid_default", "Accept")
  <2>1. DOMAIN b = 1 .. 2 /\ b \in Seq(Range(b))
    BY DEF Range, BouncyCastleStack, SelectLeaf
  <2>2. /\ b[2].name = <<"path", "selected">> /\ b[2].op = "select"
        /\ DOMAIN b[2].nominal = 1 .. 3
    BY HashFields DEF BouncyCastleStack, SelectLeaf
  <2>3. /\ b[1].name = <<"leaf", "valid_default">> /\ b[1].op = "Path" /\ b[1].nominal = "Accept"
        /\ b[1].others = StackVerdict \ {"Accept"}
    BY RunFields DEF BouncyCastleStack, SelectLeaf
  <2> HIDE DEF b
  <2>4. \A i \in DOMAIN b : b[i].name \in B
    <3>1. /\ b[1].name \in B /\ b[2].name \in B
      BY <2>2, <2>3, Zenon
    <3> HIDE DEF B
    <3> QED
      BY <2>1, <3>1
  <2>5. \A i, j \in DOMAIN b : b[i].name = b[j].name => i = j
    BY <2>1, <2>2, <2>3
  <2>6. Named(b, B)
    BY <2>1, <2>4, <2>5 DEF Named
  <2> QED
    BY <2>1, <2>2, <2>3, <2>6 DEF Selects, Runs, Does, Checked, Hashes, Modes
<1>4. /\ Named(c, C) /\ Runs(c, "leaf", "invalid_post_quantum_default", "Accept")
      /\ Runs(c, "leaf", "valid_post_quantum", "Accept")
      /\ Runs(c, "leaf", "invalid_post_quantum", "Reject")
      /\ Runs(c, "leaf", "invalid_classical", "Reject")
      /\ Runs(c, "issuer", "invalid_classical", "Reject")
      /\ Runs(c, "root", "invalid_classical", "Accept") /\ Hashes(c, "node", "digest")
      /\ Hashes(c, "node", "edge") /\ Hashes(c, "issuer", "digest") /\ Hashes(c, "issuer", "edge")
      /\ Hashes(c, "root", "digest")
  <2>1. DOMAIN c = 1 .. 14 /\ c \in Seq(Range(c))
    BY DEF Range
  <2>2. /\ c[4].name = <<"leaf", "corrupt">> /\ c[6].name = <<"issuer", "corrupt">>
        /\ c[8].name = <<"root", "corrupt">>
    BY CheckFields
  <2>3. /\ c[10].name = <<"node", "digest">> /\ c[10].op = "digest"
        /\ c[11].name = <<"node", "edge">> /\ c[11].op = "edge"
        /\ c[12].name = <<"issuer", "digest">> /\ c[12].op = "digest"
        /\ c[13].name = <<"issuer", "edge">> /\ c[13].op = "edge"
    BY HashFields
  <2>4. /\ c[14].name = <<"root", "digest">> /\ c[14].op = "digest"
    BY HashFields
  <2>5. /\ c[1].name = <<"leaf", "invalid_post_quantum_default">> /\ c[1].op = "Path"
        /\ c[1].nominal = "Accept" /\ c[1].others = StackVerdict \ {"Accept"}
        /\ c[2].name = <<"leaf", "valid_post_quantum">> /\ c[2].op = "AlternativeSignature"
        /\ c[2].nominal = "Accept" /\ c[2].others = StackVerdict \ {"Accept"}
        /\ c[3].name = <<"leaf", "invalid_post_quantum">> /\ c[3].op = "AlternativeSignature"
        /\ c[3].nominal = "Reject" /\ c[3].others = StackVerdict \ {"Reject"}
        /\ c[5].name = <<"leaf", "invalid_classical">> /\ c[5].op = "Path"
        /\ c[5].nominal = "Reject" /\ c[5].others = StackVerdict \ {"Reject"}
    BY RunFields
  <2>6. /\ c[7].name = <<"issuer", "invalid_classical">> /\ c[7].op = "Path"
        /\ c[7].nominal = "Reject" /\ c[7].others = StackVerdict \ {"Reject"}
        /\ c[9].name = <<"root", "invalid_classical">> /\ c[9].op = "Path"
        /\ c[9].nominal = "Accept" /\ c[9].others = StackVerdict \ {"Accept"}
    BY RunFields
  <2> HIDE DEF c
  <2>7. \A i \in DOMAIN c : c[i].name \in C
    <3>1. /\ c[1].name \in C /\ c[2].name \in C /\ c[3].name \in C /\ c[4].name \in C
          /\ c[5].name \in C /\ c[6].name \in C /\ c[7].name \in C /\ c[8].name \in C
          /\ c[9].name \in C /\ c[10].name \in C /\ c[11].name \in C /\ c[12].name \in C
          /\ c[13].name \in C /\ c[14].name \in C
      BY <2>2, <2>3, <2>4, <2>5, <2>6, Zenon
    <3> HIDE DEF C
    <3> QED
      BY <2>1, <3>1
  <2>8. \A i, j \in DOMAIN c : c[i].name = c[j].name => i = j
    BY <2>1, <2>2, <2>3, <2>4, <2>5, <2>6
  <2>9. Named(c, C)
    BY <2>1, <2>7, <2>8 DEF Named
  <2> QED
    BY <2>1, <2>2, <2>3, <2>4, <2>5, <2>6, <2>9 DEF Runs, Does, Checked, Hashes, Modes
<1>5. /\ Named(d, D) /\ Hashes(d, "anchor", "digest")
  BY AnchorDigestNamed
<1> HIDE DEF a, b, c, d
<1>6. /\ Named(a \o b, A \cup B)
      /\ Part(a, a \o b) /\ Part(b, a \o b)
  <2>1. (A) \cap B = {}
    OBVIOUS
  <2> HIDE DEF A, B
  <2> QED
    BY <1>2, <1>3, <2>1, NamedConcat
<1>7. /\ Named(a \o b \o c, A \cup B \cup C)
      /\ Part(a \o b, a \o b \o c) /\ Part(c, a \o b \o c)
  <2>1. (A \cup B) \cap C = {}
    OBVIOUS
  <2> HIDE DEF A, B, C
  <2> QED
    BY <1>6, <1>4, <2>1, NamedConcat
<1>8. /\ Named(a \o b \o c \o d, A \cup B \cup C \cup D)
      /\ Part(a \o b \o c, a \o b \o c \o d) /\ Part(d, a \o b \o c \o d)
  <2>1. (A \cup B \cup C) \cap D = {}
    OBVIOUS
  <2> HIDE DEF A, B, C, D
  <2> QED
    BY <1>7, <1>5, <2>1, NamedConcat
<1> HIDE DEF A, B, C, D
<1> DEFINE T == a \o b \o c \o d
<1>9. /\ Part(a, T) /\ Part(b, T) /\ Part(c, T) /\ Part(d, T)
  BY <1>6, <1>7, <1>8, PartOfPart
<1>10. Distinct(T)
  BY <1>8 DEF Named, Distinct
<1> HIDE DEF T
<1>11. CatalystBouncyCastleSteps(T)
  BY <1>2, <1>3, <1>4, <1>5, <1>9, PartDoes, PartRuns, PartChecked, PartHashes,
     PartSelects DEF CatalystBouncyCastleSteps
<1> QED
  BY <1>1, <1>10, <1>11 DEF T

\* What the table does.
RelatedOpenSslSteps(T) ==
  /\ Selects(T)
  /\ Does(T, "pair", "conformance", {"conformance"}, published_failures,
       ConformanceAnswers \ {published_failures})
  /\ Does(T, "pair", "invalid_binding", {"binding"}, "Fail", {"Pass", "Fail"} \ {"Fail"})
  /\ Does(T, "leaf", "classical_crl", {"crl_status"}, <<"Pass", "Pass">>,
       CrlAnswers \ {<<"Pass", "Pass">>})
  /\ Does(T, "leaf", "post_quantum_crl", {"crl_status"}, <<"Pass", "Fail">>,
       CrlAnswers \ {<<"Pass", "Fail">>})
  /\ Runs(T, "leaf", "classical", "Accept") /\ Runs(T, "leaf", "classical_invalid", "Reject")
  /\ Runs(T, "leaf", "post_quantum", "Accept")
  /\ Runs(T, "leaf", "invalid_binding_path", "Accept")
  /\ Runs(T, "leaf", "post_quantum_expired", "Reject")
  /\ Runs(T, "leaf", "post_quantum_revocation", "Reject") /\ Hashes(T, "evidence", "digest")
  /\ Hashes(T, "pair", "digest") /\ Hashes(T, "evidence", "edge") /\ Hashes(T, "anchor", "digest")
  /\ Hashes(T, "node", "digest") /\ Hashes(T, "node", "edge") /\ Hashes(T, "issuer", "digest")
  /\ Hashes(T, "issuer", "edge")

LEMMA RelatedOpenSslTable == Distinct(related_openssl_steps)
        /\ RelatedOpenSslSteps(related_openssl_steps)
<1> DEFINE
      classical == Leaf("certificate")
      post_quantum == Leaf("post_quantum")
      a == <<Inspect(classical),
             Conformance("pair", "conformance", classical, post_quantum, published_failures),
             Binding("pair", "invalid_binding", classical, Leaf("invalid_binding"), "Fail"),
             CrlStatus("leaf", "classical_crl", classical, Issuer, IssuedCrl, <<"Pass", "Pass">>),
             CrlStatus("leaf", "post_quantum_crl", post_quantum, Issuer, IssuedCrl,
                       <<"Pass", "Fail">>)>>
      b == OpenSslStack(Run("leaf", "classical", "openssl", OpenSslWith(classical, IssuedCrl),
                            "Accept"), classical)
      c == <<Corrupt("leaf", classical),
             Run("leaf", "classical_invalid", "openssl",
                 OpenSslWith(Corrupted(classical), IssuedCrl), "Reject"),
             Run("leaf", "post_quantum", "openssl", Presentation(post_quantum), "Accept"),
             Run("leaf", "invalid_binding_path", "openssl",
                 Presentation(Leaf("invalid_binding")), "Accept"),
             Run("leaf", "post_quantum_expired", "openssl", Presentation(Leaf("expired")),
               "Reject"),
             Run("leaf", "post_quantum_revocation", "openssl",
                 OpenSslWith(post_quantum, IssuedCrl), "Reject"),
             Digest("evidence", "digest", classical), Digest("pair", "digest", post_quantum),
             Edge("evidence", "edge", classical, Issuer)>>
      d == AnchorDigest
      e == PathIdentity(classical)
      A == {<<"inspect", "certificate", "leaf">>, <<"pair", "conformance">>,
            <<"pair", "invalid_binding">>, <<"leaf", "classical_crl">>,
            <<"leaf", "post_quantum_crl">>}
      B == {<<"path", "selected">>, <<"leaf", "classical">>}
      C == {<<"leaf", "corrupt">>, <<"leaf", "classical_invalid">>, <<"leaf", "post_quantum">>,
            <<"leaf", "invalid_binding_path">>, <<"leaf", "post_quantum_expired">>,
            <<"leaf", "post_quantum_revocation">>, <<"evidence", "digest">>, <<"pair", "digest">>,
            <<"evidence", "edge">>}
      D == {<<"anchor", "digest">>}
      E == {<<"node", "digest">>, <<"node", "edge">>, <<"issuer", "digest">>,
            <<"issuer", "edge">>}
<1>1. related_openssl_steps = a \o b \o c \o d \o e
  BY DEF related_openssl_steps
<1>2. /\ Named(a, A)
      /\ Does(a, "pair", "conformance", {"conformance"}, published_failures,
       ConformanceAnswers \ {published_failures})
      /\ Does(a, "pair", "invalid_binding", {"binding"}, "Fail", {"Pass", "Fail"} \ {"Fail"})
      /\ Does(a, "leaf", "classical_crl", {"crl_status"}, <<"Pass", "Pass">>,
           CrlAnswers \ {<<"Pass", "Pass">>})
      /\ Does(a, "leaf", "post_quantum_crl", {"crl_status"}, <<"Pass", "Fail">>,
           CrlAnswers \ {<<"Pass", "Fail">>})
  <2>1. DOMAIN a = 1 .. 5 /\ a \in Seq(Range(a))
    BY DEF Range
  <2>2. /\ a[3].name = <<"pair", "invalid_binding">> /\ a[3].op = "binding"
        /\ a[3].nominal = "Fail" /\ a[3].others = {"Pass", "Fail"} \ {"Fail"}
    BY CheckFields
  <2>3. /\ a[1].name = <<"inspect", "certificate", "leaf">>
    BY CheckFields DEF Leaf
  <2>4. /\ a[4].name = <<"leaf", "classical_crl">> /\ a[4].op = "crl_status"
        /\ a[4].nominal = <<"Pass", "Pass">> /\ a[4].others = CrlAnswers \ {<<"Pass", "Pass">>}
        /\ a[5].name = <<"leaf", "post_quantum_crl">> /\ a[5].op = "crl_status"
        /\ a[5].nominal = <<"Pass", "Fail">> /\ a[5].others = CrlAnswers \ {<<"Pass", "Fail">>}
    BY CheckFields
  <2>5. /\ a[2].name = <<"pair", "conformance">> /\ a[2].op = "conformance"
        /\ a[2].nominal = published_failures
        /\ a[2].others = ConformanceAnswers \ {published_failures}
    <3>1. a[2] = Conformance("pair", "conformance", classical, post_quantum, published_failures)
      OBVIOUS
    <3> HIDE DEF a
    <3> QED
      BY <3>1, ConformanceFields
  <2> HIDE DEF a
  <2>6. \A i \in DOMAIN a : a[i].name \in A
    <3>1. /\ a[1].name \in A /\ a[2].name \in A /\ a[3].name \in A /\ a[4].name \in A
          /\ a[5].name \in A
      BY <2>2, <2>3, <2>4, <2>5, Zenon
    <3> HIDE DEF A
    <3> QED
      BY <2>1, <3>1
  <2>7. \A i, j \in DOMAIN a : a[i].name = a[j].name => i = j
    BY <2>1, <2>2, <2>3, <2>4, <2>5
  <2>8. Named(a, A)
    BY <2>1, <2>6, <2>7 DEF Named
  <2> QED
    BY <2>1, <2>2, <2>3, <2>4, <2>5, <2>8 DEF Runs, Does, Checked, Hashes, Modes
<1>3. /\ Named(b, B) /\ Selects(b) /\ Runs(b, "leaf", "classical", "Accept")
  <2>1. DOMAIN b = 1 .. 2 /\ b \in Seq(Range(b))
    BY DEF Range, OpenSslStack, SelectLeaf
  <2>2. /\ b[1].name = <<"path", "selected">> /\ b[1].op = "select"
        /\ DOMAIN b[1].nominal = 1 .. 3
    BY HashFields DEF OpenSslStack, SelectLeaf
  <2>3. /\ b[2].name = <<"leaf", "classical">> /\ b[2].op = "openssl" /\ b[2].nominal = "Accept"
        /\ b[2].others = StackVerdict \ {"Accept"}
    BY RunFields DEF OpenSslStack, SelectLeaf
  <2> HIDE DEF b
  <2>4. \A i \in DOMAIN b : b[i].name \in B
    <3>1. /\ b[1].name \in B /\ b[2].name \in B
      BY <2>2, <2>3, Zenon
    <3> HIDE DEF B
    <3> QED
      BY <2>1, <3>1
  <2>5. \A i, j \in DOMAIN b : b[i].name = b[j].name => i = j
    BY <2>1, <2>2, <2>3
  <2>6. Named(b, B)
    BY <2>1, <2>4, <2>5 DEF Named
  <2> QED
    BY <2>1, <2>2, <2>3, <2>6 DEF Selects, Runs, Does, Checked, Hashes, Modes
<1>4. /\ Named(c, C) /\ Runs(c, "leaf", "classical_invalid", "Reject")
      /\ Runs(c, "leaf", "post_quantum", "Accept")
      /\ Runs(c, "leaf", "invalid_binding_path", "Accept")
      /\ Runs(c, "leaf", "post_quantum_expired", "Reject")
      /\ Runs(c, "leaf", "post_quantum_revocation", "Reject") /\ Hashes(c, "evidence", "digest")
      /\ Hashes(c, "pair", "digest") /\ Hashes(c, "evidence", "edge")
  <2>1. DOMAIN c = 1 .. 9 /\ c \in Seq(Range(c))
    BY DEF Range
  <2>2. /\ c[1].name = <<"leaf", "corrupt">>
    BY CheckFields
  <2>3. /\ c[7].name = <<"evidence", "digest">> /\ c[7].op = "digest"
        /\ c[8].name = <<"pair", "digest">> /\ c[8].op = "digest"
        /\ c[9].name = <<"evidence", "edge">> /\ c[9].op = "edge"
    BY HashFields
  <2>4. /\ c[2].name = <<"leaf", "classical_invalid">> /\ c[2].op = "openssl"
        /\ c[2].nominal = "Reject" /\ c[2].others = StackVerdict \ {"Reject"}
        /\ c[3].name = <<"leaf", "post_quantum">> /\ c[3].op = "openssl"
        /\ c[3].nominal = "Accept" /\ c[3].others = StackVerdict \ {"Accept"}
        /\ c[4].name = <<"leaf", "invalid_binding_path">> /\ c[4].op = "openssl"
        /\ c[4].nominal = "Accept" /\ c[4].others = StackVerdict \ {"Accept"}
        /\ c[5].name = <<"leaf", "post_quantum_expired">> /\ c[5].op = "openssl"
        /\ c[5].nominal = "Reject" /\ c[5].others = StackVerdict \ {"Reject"}
    BY RunFields
  <2>5. /\ c[6].name = <<"leaf", "post_quantum_revocation">> /\ c[6].op = "openssl"
        /\ c[6].nominal = "Reject" /\ c[6].others = StackVerdict \ {"Reject"}
    BY RunFields
  <2> HIDE DEF c
  <2>6. \A i \in DOMAIN c : c[i].name \in C
    <3>1. /\ c[1].name \in C /\ c[2].name \in C /\ c[3].name \in C /\ c[4].name \in C
          /\ c[5].name \in C /\ c[6].name \in C /\ c[7].name \in C /\ c[8].name \in C
          /\ c[9].name \in C
      BY <2>2, <2>3, <2>4, <2>5, Zenon
    <3> HIDE DEF C
    <3> QED
      BY <2>1, <3>1
  <2>7. \A i, j \in DOMAIN c : c[i].name = c[j].name => i = j
    BY <2>1, <2>2, <2>3, <2>4, <2>5
  <2>8. Named(c, C)
    BY <2>1, <2>6, <2>7 DEF Named
  <2> QED
    BY <2>1, <2>2, <2>3, <2>4, <2>5, <2>8 DEF Runs, Does, Checked, Hashes, Modes
<1>5. /\ Named(d, D) /\ Hashes(d, "anchor", "digest")
  BY AnchorDigestNamed
<1>6. /\ Named(e, E) /\ Hashes(e, "node", "digest") /\ Hashes(e, "node", "edge")
      /\ Hashes(e, "issuer", "digest") /\ Hashes(e, "issuer", "edge")
  BY PathIdentityNamed
<1> HIDE DEF a, b, c, d, e
<1>7. /\ Named(a \o b, A \cup B)
      /\ Part(a, a \o b) /\ Part(b, a \o b)
  <2>1. (A) \cap B = {}
    OBVIOUS
  <2> HIDE DEF A, B
  <2> QED
    BY <1>2, <1>3, <2>1, NamedConcat
<1>8. /\ Named(a \o b \o c, A \cup B \cup C)
      /\ Part(a \o b, a \o b \o c) /\ Part(c, a \o b \o c)
  <2>1. (A \cup B) \cap C = {}
    OBVIOUS
  <2> HIDE DEF A, B, C
  <2> QED
    BY <1>7, <1>4, <2>1, NamedConcat
<1>9. /\ Named(a \o b \o c \o d, A \cup B \cup C \cup D)
      /\ Part(a \o b \o c, a \o b \o c \o d) /\ Part(d, a \o b \o c \o d)
  <2>1. (A \cup B \cup C) \cap D = {}
    OBVIOUS
  <2> HIDE DEF A, B, C, D
  <2> QED
    BY <1>8, <1>5, <2>1, NamedConcat
<1>10. /\ Named(a \o b \o c \o d \o e, A \cup B \cup C \cup D \cup E)
      /\ Part(a \o b \o c \o d, a \o b \o c \o d \o e) /\ Part(e, a \o b \o c \o d \o e)
  <2>1. (A \cup B \cup C \cup D) \cap E = {}
    OBVIOUS
  <2> HIDE DEF A, B, C, D, E
  <2> QED
    BY <1>9, <1>6, <2>1, NamedConcat
<1> HIDE DEF A, B, C, D, E
<1> DEFINE T == a \o b \o c \o d \o e
<1>11. /\ Part(a, T) /\ Part(b, T) /\ Part(c, T) /\ Part(d, T) /\ Part(e, T)
  BY <1>7, <1>8, <1>9, <1>10, PartOfPart
<1>12. Distinct(T)
  BY <1>10 DEF Named, Distinct
<1> HIDE DEF T
<1>13. RelatedOpenSslSteps(T)
  BY <1>2, <1>3, <1>4, <1>5, <1>6, <1>11, PartDoes, PartRuns, PartChecked, PartHashes,
     PartSelects DEF RelatedOpenSslSteps
<1> QED
  BY <1>1, <1>12, <1>13 DEF T

\* What the table does.
AtomicTlsSteps(T) ==
  /\ Selects(T)
  /\ Runs(T, "tls", "valid", "Accept") /\ Runs(T, "tls", "invalid_post_quantum", "Reject")
  /\ Runs(T, "tls", "invalid_classical", "Reject") /\ Checked(T, "leaf", "validity")
  /\ Hashes(T, "evidence", "digest") /\ Hashes(T, "evidence", "edge")
  /\ Hashes(T, "anchor", "digest") /\ Hashes(T, "node", "digest") /\ Hashes(T, "node", "edge")
  /\ Hashes(T, "issuer", "digest") /\ Hashes(T, "issuer", "edge")

LEMMA AtomicTlsTable == Distinct(atomic_tls_steps) /\ AtomicTlsSteps(atomic_tls_steps)
<1> DEFINE
      valid == Leaf("certificate")
      invalid == Leaf("invalid_post_quantum")
      Tls(what, leaf, v) == Run("tls", what, "TlsTranscript", Handshake(leaf, Key("leaf")), v)
      a == <<Inspect(valid), Inspect(invalid)>>
      b == BouncyCastleStack(Tls("valid", valid, "Accept"), valid)
      c == <<Tls("invalid_post_quantum", invalid, "Reject"), Corrupt("leaf", valid),
             Tls("invalid_classical", Corrupted(valid), "Reject"),
             Validity("leaf", "validity", valid)>>
      d == EvidenceIdentity(valid)
      e == AnchorDigest
      f == PathIdentity(valid)
      A == {<<"inspect", "certificate", "leaf">>, <<"inspect", "invalid_post_quantum", "leaf">>}
      B == {<<"tls", "valid">>, <<"path", "selected">>}
      C == {<<"tls", "invalid_post_quantum">>, <<"leaf", "corrupt">>,
            <<"tls", "invalid_classical">>, <<"leaf", "validity">>}
      D == {<<"evidence", "digest">>, <<"evidence", "edge">>}
      E == {<<"anchor", "digest">>}
      F == {<<"node", "digest">>, <<"node", "edge">>, <<"issuer", "digest">>,
            <<"issuer", "edge">>}
<1>1. atomic_tls_steps = a \o b \o c \o d \o e \o f
  BY DEF atomic_tls_steps
<1>2. /\ Named(a, A)
  <2>1. DOMAIN a = 1 .. 2 /\ a \in Seq(Range(a))
    BY DEF Range
  <2>2. /\ a[1].name = <<"inspect", "certificate", "leaf">>
        /\ a[2].name = <<"inspect", "invalid_post_quantum", "leaf">>
    BY CheckFields DEF Leaf
  <2> HIDE DEF a
  <2>3. \A i \in DOMAIN a : a[i].name \in A
    <3>1. /\ a[1].name \in A /\ a[2].name \in A
      BY <2>2, Zenon
    <3> HIDE DEF A
    <3> QED
      BY <2>1, <3>1
  <2>4. \A i, j \in DOMAIN a : a[i].name = a[j].name => i = j
    BY <2>1, <2>2
  <2>5. Named(a, A)
    BY <2>1, <2>3, <2>4 DEF Named
  <2> QED
    BY <2>5
<1>3. /\ Named(b, B) /\ Selects(b) /\ Runs(b, "tls", "valid", "Accept")
  <2>1. DOMAIN b = 1 .. 2 /\ b \in Seq(Range(b))
    BY DEF Range, BouncyCastleStack, SelectLeaf
  <2>2. /\ b[2].name = <<"path", "selected">> /\ b[2].op = "select"
        /\ DOMAIN b[2].nominal = 1 .. 3
    BY HashFields DEF BouncyCastleStack, SelectLeaf
  <2>3. /\ b[1].name = <<"tls", "valid">> /\ b[1].op = "TlsTranscript" /\ b[1].nominal = "Accept"
        /\ b[1].others = StackVerdict \ {"Accept"}
    BY RunFields DEF BouncyCastleStack, SelectLeaf
  <2> HIDE DEF b
  <2>4. \A i \in DOMAIN b : b[i].name \in B
    <3>1. /\ b[1].name \in B /\ b[2].name \in B
      BY <2>2, <2>3, Zenon
    <3> HIDE DEF B
    <3> QED
      BY <2>1, <3>1
  <2>5. \A i, j \in DOMAIN b : b[i].name = b[j].name => i = j
    BY <2>1, <2>2, <2>3
  <2>6. Named(b, B)
    BY <2>1, <2>4, <2>5 DEF Named
  <2> QED
    BY <2>1, <2>2, <2>3, <2>6 DEF Selects, Runs, Does, Checked, Hashes, Modes
<1>4. /\ Named(c, C) /\ Runs(c, "tls", "invalid_post_quantum", "Reject")
      /\ Runs(c, "tls", "invalid_classical", "Reject") /\ Checked(c, "leaf", "validity")
  <2>1. DOMAIN c = 1 .. 4 /\ c \in Seq(Range(c))
    BY DEF Range
  <2>2. /\ c[2].name = <<"leaf", "corrupt">> /\ c[4].name = <<"leaf", "validity">>
        /\ c[4].op = "validity" /\ c[4].nominal = "Pass" /\ c[4].others = {"Fail"}
    BY CheckFields
  <2>3. /\ c[1].name = <<"tls", "invalid_post_quantum">> /\ c[1].op = "TlsTranscript"
        /\ c[1].nominal = "Reject" /\ c[1].others = StackVerdict \ {"Reject"}
        /\ c[3].name = <<"tls", "invalid_classical">> /\ c[3].op = "TlsTranscript"
        /\ c[3].nominal = "Reject" /\ c[3].others = StackVerdict \ {"Reject"}
    BY RunFields
  <2> HIDE DEF c
  <2>4. \A i \in DOMAIN c : c[i].name \in C
    <3>1. /\ c[1].name \in C /\ c[2].name \in C /\ c[3].name \in C /\ c[4].name \in C
      BY <2>2, <2>3, Zenon
    <3> HIDE DEF C
    <3> QED
      BY <2>1, <3>1
  <2>5. \A i, j \in DOMAIN c : c[i].name = c[j].name => i = j
    BY <2>1, <2>2, <2>3
  <2>6. Named(c, C)
    BY <2>1, <2>4, <2>5 DEF Named
  <2> QED
    BY <2>1, <2>2, <2>3, <2>6 DEF Runs, Does, Checked, Hashes, Modes
<1>5. /\ Named(d, D) /\ Hashes(d, "evidence", "digest") /\ Hashes(d, "evidence", "edge")
  BY EvidenceIdentityNamed
<1>6. /\ Named(e, E) /\ Hashes(e, "anchor", "digest")
  BY AnchorDigestNamed
<1>7. /\ Named(f, F) /\ Hashes(f, "node", "digest") /\ Hashes(f, "node", "edge")
      /\ Hashes(f, "issuer", "digest") /\ Hashes(f, "issuer", "edge")
  BY PathIdentityNamed
<1> HIDE DEF a, b, c, d, e, f
<1>8. /\ Named(a \o b, A \cup B)
      /\ Part(a, a \o b) /\ Part(b, a \o b)
  <2>1. (A) \cap B = {}
    OBVIOUS
  <2> HIDE DEF A, B
  <2> QED
    BY <1>2, <1>3, <2>1, NamedConcat
<1>9. /\ Named(a \o b \o c, A \cup B \cup C)
      /\ Part(a \o b, a \o b \o c) /\ Part(c, a \o b \o c)
  <2>1. (A \cup B) \cap C = {}
    OBVIOUS
  <2> HIDE DEF A, B, C
  <2> QED
    BY <1>8, <1>4, <2>1, NamedConcat
<1>10. /\ Named(a \o b \o c \o d, A \cup B \cup C \cup D)
      /\ Part(a \o b \o c, a \o b \o c \o d) /\ Part(d, a \o b \o c \o d)
  <2>1. (A \cup B \cup C) \cap D = {}
    OBVIOUS
  <2> HIDE DEF A, B, C, D
  <2> QED
    BY <1>9, <1>5, <2>1, NamedConcat
<1>11. /\ Named(a \o b \o c \o d \o e, A \cup B \cup C \cup D \cup E)
      /\ Part(a \o b \o c \o d, a \o b \o c \o d \o e) /\ Part(e, a \o b \o c \o d \o e)
  <2>1. (A \cup B \cup C \cup D) \cap E = {}
    OBVIOUS
  <2> HIDE DEF A, B, C, D, E
  <2> QED
    BY <1>10, <1>6, <2>1, NamedConcat
<1>12. /\ Named(a \o b \o c \o d \o e \o f, A \cup B \cup C \cup D \cup E \cup F)
      /\ Part(a \o b \o c \o d \o e, a \o b \o c \o d \o e \o f)
           /\ Part(f, a \o b \o c \o d \o e \o f)
  <2>1. (A \cup B \cup C \cup D \cup E) \cap F = {}
    OBVIOUS
  <2> HIDE DEF A, B, C, D, E, F
  <2> QED
    BY <1>11, <1>7, <2>1, NamedConcat
<1> HIDE DEF A, B, C, D, E, F
<1> DEFINE T == a \o b \o c \o d \o e \o f
<1>13. /\ Part(a, T) /\ Part(b, T) /\ Part(c, T) /\ Part(d, T) /\ Part(e, T) /\ Part(f, T)
  BY <1>8, <1>9, <1>10, <1>11, <1>12, PartOfPart
<1>14. Distinct(T)
  BY <1>12 DEF Named, Distinct
<1> HIDE DEF T
<1>15. AtomicTlsSteps(T)
  BY <1>2, <1>3, <1>4, <1>5, <1>6, <1>7, <1>13, PartDoes, PartRuns, PartChecked, PartHashes,
     PartSelects DEF AtomicTlsSteps
<1> QED
  BY <1>1, <1>14, <1>15 DEF T

\* What the table does.
CatalystTlsSteps(T) ==
  /\ Selects(T)
  /\ Does(T, "leaf", "crl_status", {"crl_status"}, <<"Pass", "Pass">>,
       CrlAnswers \ {<<"Pass", "Pass">>})
  /\ Runs(T, "tls", "valid", "Accept") /\ Hashes(T, "valid", "reported")
  /\ Runs(T, "tls", "invalid_post_quantum", "Accept")
  /\ Hashes(T, "invalid_post_quantum", "reported")
  /\ Runs(T, "tls", "invalid_classical", "Reject") /\ Hashes(T, "invalid_classical", "reported")
  /\ Runs(T, "leaf", "valid_post_quantum", "Accept")
  /\ Runs(T, "leaf", "invalid_post_quantum", "Reject") /\ Runs(T, "tls", "transcript", "Accept")
  /\ Checked(T, "leaf", "validity") /\ Hashes(T, "evidence", "digest")
  /\ Hashes(T, "evidence", "edge") /\ Hashes(T, "anchor", "digest") /\ Hashes(T, "node", "digest")
  /\ Hashes(T, "node", "edge") /\ Hashes(T, "issuer", "digest") /\ Hashes(T, "issuer", "edge")

LEMMA CatalystTlsTable == Distinct(catalyst_tls_steps) /\ CatalystTlsSteps(catalyst_tls_steps)
<1> DEFINE
      valid == Leaf("certificate")
      invalid == Leaf("invalid_post_quantum")
      a == <<Inspect(valid), Inspect(invalid),
             CrlStatus("leaf", "crl_status", valid, Issuer, IssuedCrl, <<"Pass", "Pass">>)>>
      b == <<SelectLeaf(valid)>>
      c == observe("valid", valid, "Accept")
      d == observe("invalid_post_quantum", invalid, "Accept")
      e == <<Corrupt("leaf", valid)>>
      f == observe("invalid_classical", Corrupted(valid), "Reject")
      g == <<Run("leaf", "valid_post_quantum", "AlternativeSignature", Presentation(valid),
        "Accept"),
             Run("leaf", "invalid_post_quantum", "AlternativeSignature", Presentation(invalid),
                 "Reject"),
             Run("tls", "transcript", "TlsTranscript", Handshake(valid, Key("leaf")), "Accept"),
             Validity("leaf", "validity", valid)>>
      h == EvidenceIdentity(valid)
      m == AnchorDigest
      k == PathIdentity(valid)
      A == {<<"inspect", "certificate", "leaf">>, <<"inspect", "invalid_post_quantum", "leaf">>,
            <<"leaf", "crl_status">>}
      B == {<<"path", "selected">>}
      C == {<<"tls", "valid">>, <<"valid", "reported">>}
      D == {<<"tls", "invalid_post_quantum">>, <<"invalid_post_quantum", "reported">>}
      E == {<<"leaf", "corrupt">>}
      F == {<<"tls", "invalid_classical">>, <<"invalid_classical", "reported">>}
      G == {<<"leaf", "valid_post_quantum">>, <<"leaf", "invalid_post_quantum">>,
            <<"tls", "transcript">>, <<"leaf", "validity">>}
      H == {<<"evidence", "digest">>, <<"evidence", "edge">>}
      J == {<<"anchor", "digest">>}
      K == {<<"node", "digest">>, <<"node", "edge">>, <<"issuer", "digest">>,
            <<"issuer", "edge">>}
<1>1. catalyst_tls_steps = a \o b \o c \o d \o e \o f \o g \o h \o m \o k
  BY DEF catalyst_tls_steps
<1>2. /\ Named(a, A)
      /\ Does(a, "leaf", "crl_status", {"crl_status"}, <<"Pass", "Pass">>,
           CrlAnswers \ {<<"Pass", "Pass">>})
  <2>1. DOMAIN a = 1 .. 3 /\ a \in Seq(Range(a))
    BY DEF Range
  <2>2. /\ a[1].name = <<"inspect", "certificate", "leaf">>
        /\ a[2].name = <<"inspect", "invalid_post_quantum", "leaf">>
    BY CheckFields DEF Leaf
  <2>3. /\ a[3].name = <<"leaf", "crl_status">> /\ a[3].op = "crl_status"
        /\ a[3].nominal = <<"Pass", "Pass">> /\ a[3].others = CrlAnswers \ {<<"Pass", "Pass">>}
    BY CheckFields
  <2> HIDE DEF a
  <2>4. \A i \in DOMAIN a : a[i].name \in A
    <3>1. /\ a[1].name \in A /\ a[2].name \in A /\ a[3].name \in A
      BY <2>2, <2>3, Zenon
    <3> HIDE DEF A
    <3> QED
      BY <2>1, <3>1
  <2>5. \A i, j \in DOMAIN a : a[i].name = a[j].name => i = j
    BY <2>1, <2>2, <2>3
  <2>6. Named(a, A)
    BY <2>1, <2>4, <2>5 DEF Named
  <2> QED
    BY <2>1, <2>2, <2>3, <2>6 DEF Runs, Does, Checked, Hashes, Modes
<1>3. /\ Named(b, B) /\ Selects(b)
  <2>1. DOMAIN b = {1} /\ b \in Seq(Range(b))
    BY DEF Range, SelectLeaf
  <2>2. /\ b[1].name = <<"path", "selected">> /\ b[1].op = "select"
        /\ DOMAIN b[1].nominal = 1 .. 3
    BY HashFields DEF SelectLeaf
  <2> HIDE DEF b
  <2>3. \A i \in DOMAIN b : b[i].name \in B
    <3>1. /\ b[1].name \in B
      BY <2>2, Zenon
    <3> HIDE DEF B
    <3> QED
      BY <2>1, <3>1
  <2>4. \A i, j \in DOMAIN b : b[i].name = b[j].name => i = j
    BY <2>1, <2>2
  <2>5. Named(b, B)
    BY <2>1, <2>3, <2>4 DEF Named
  <2> QED
    BY <2>5, <2>1, <2>2 DEF Selects
<1>4. /\ Named(c, C) /\ Runs(c, "tls", "valid", "Accept") /\ Hashes(c, "valid", "reported")
  <2>1. DOMAIN c = 1 .. 2 /\ c \in Seq(Range(c))
    BY DEF Range, observe
  <2>2. /\ c[2].name = <<"valid", "reported">> /\ c[2].op = "digest"
    BY HashFields DEF observe
  <2>3. /\ c[1].name = <<"tls", "valid">> /\ c[1].op = "openssl_tls" /\ c[1].nominal = "Accept"
        /\ c[1].others = StackVerdict \ {"Accept"}
    BY RunFields DEF observe
  <2> HIDE DEF c
  <2>4. \A i \in DOMAIN c : c[i].name \in C
    <3>1. /\ c[1].name \in C /\ c[2].name \in C
      BY <2>2, <2>3, Zenon
    <3> HIDE DEF C
    <3> QED
      BY <2>1, <3>1
  <2>5. \A i, j \in DOMAIN c : c[i].name = c[j].name => i = j
    BY <2>1, <2>2, <2>3
  <2>6. Named(c, C)
    BY <2>1, <2>4, <2>5 DEF Named
  <2> QED
    BY <2>1, <2>2, <2>3, <2>6 DEF Runs, Does, Checked, Hashes, Modes
<1>5. /\ Named(d, D) /\ Runs(d, "tls", "invalid_post_quantum", "Accept")
      /\ Hashes(d, "invalid_post_quantum", "reported")
  <2>1. DOMAIN d = 1 .. 2 /\ d \in Seq(Range(d))
    BY DEF Range, observe
  <2>2. /\ d[2].name = <<"invalid_post_quantum", "reported">> /\ d[2].op = "digest"
    BY HashFields DEF observe
  <2>3. /\ d[1].name = <<"tls", "invalid_post_quantum">> /\ d[1].op = "openssl_tls"
        /\ d[1].nominal = "Accept" /\ d[1].others = StackVerdict \ {"Accept"}
    BY RunFields DEF observe
  <2> HIDE DEF d
  <2>4. \A i \in DOMAIN d : d[i].name \in D
    <3>1. /\ d[1].name \in D /\ d[2].name \in D
      BY <2>2, <2>3, Zenon
    <3> HIDE DEF D
    <3> QED
      BY <2>1, <3>1
  <2>5. \A i, j \in DOMAIN d : d[i].name = d[j].name => i = j
    BY <2>1, <2>2, <2>3
  <2>6. Named(d, D)
    BY <2>1, <2>4, <2>5 DEF Named
  <2> QED
    BY <2>1, <2>2, <2>3, <2>6 DEF Runs, Does, Checked, Hashes, Modes
<1>6. /\ Named(e, E)
  <2>1. DOMAIN e = {1} /\ e \in Seq(Range(e))
    BY DEF Range
  <2>2. /\ e[1].name = <<"leaf", "corrupt">>
    BY CheckFields
  <2> HIDE DEF e
  <2>3. \A i \in DOMAIN e : e[i].name \in E
    <3>1. /\ e[1].name \in E
      BY <2>2, Zenon
    <3> HIDE DEF E
    <3> QED
      BY <2>1, <3>1
  <2>4. \A i, j \in DOMAIN e : e[i].name = e[j].name => i = j
    BY <2>1, <2>2
  <2>5. Named(e, E)
    BY <2>1, <2>3, <2>4 DEF Named
  <2> QED
    BY <2>5
<1>7. /\ Named(f, F) /\ Runs(f, "tls", "invalid_classical", "Reject")
      /\ Hashes(f, "invalid_classical", "reported")
  <2>1. DOMAIN f = 1 .. 2 /\ f \in Seq(Range(f))
    BY DEF Range, observe
  <2>2. /\ f[2].name = <<"invalid_classical", "reported">> /\ f[2].op = "digest"
    BY HashFields DEF observe
  <2>3. /\ f[1].name = <<"tls", "invalid_classical">> /\ f[1].op = "openssl_tls"
        /\ f[1].nominal = "Reject" /\ f[1].others = StackVerdict \ {"Reject"}
    BY RunFields DEF observe
  <2> HIDE DEF f
  <2>4. \A i \in DOMAIN f : f[i].name \in F
    <3>1. /\ f[1].name \in F /\ f[2].name \in F
      BY <2>2, <2>3, Zenon
    <3> HIDE DEF F
    <3> QED
      BY <2>1, <3>1
  <2>5. \A i, j \in DOMAIN f : f[i].name = f[j].name => i = j
    BY <2>1, <2>2, <2>3
  <2>6. Named(f, F)
    BY <2>1, <2>4, <2>5 DEF Named
  <2> QED
    BY <2>1, <2>2, <2>3, <2>6 DEF Runs, Does, Checked, Hashes, Modes
<1>8. /\ Named(g, G) /\ Runs(g, "leaf", "valid_post_quantum", "Accept")
      /\ Runs(g, "leaf", "invalid_post_quantum", "Reject")
      /\ Runs(g, "tls", "transcript", "Accept") /\ Checked(g, "leaf", "validity")
  <2>1. DOMAIN g = 1 .. 4 /\ g \in Seq(Range(g))
    BY DEF Range
  <2>2. /\ g[4].name = <<"leaf", "validity">> /\ g[4].op = "validity" /\ g[4].nominal = "Pass"
        /\ g[4].others = {"Fail"}
    BY CheckFields
  <2>3. /\ g[1].name = <<"leaf", "valid_post_quantum">> /\ g[1].op = "AlternativeSignature"
        /\ g[1].nominal = "Accept" /\ g[1].others = StackVerdict \ {"Accept"}
        /\ g[2].name = <<"leaf", "invalid_post_quantum">> /\ g[2].op = "AlternativeSignature"
        /\ g[2].nominal = "Reject" /\ g[2].others = StackVerdict \ {"Reject"}
        /\ g[3].name = <<"tls", "transcript">> /\ g[3].op = "TlsTranscript"
        /\ g[3].nominal = "Accept" /\ g[3].others = StackVerdict \ {"Accept"}
    BY RunFields
  <2> HIDE DEF g
  <2>4. \A i \in DOMAIN g : g[i].name \in G
    <3>1. /\ g[1].name \in G /\ g[2].name \in G /\ g[3].name \in G /\ g[4].name \in G
      BY <2>2, <2>3, Zenon
    <3> HIDE DEF G
    <3> QED
      BY <2>1, <3>1
  <2>5. \A i, j \in DOMAIN g : g[i].name = g[j].name => i = j
    BY <2>1, <2>2, <2>3
  <2>6. Named(g, G)
    BY <2>1, <2>4, <2>5 DEF Named
  <2> QED
    BY <2>1, <2>2, <2>3, <2>6 DEF Runs, Does, Checked, Hashes, Modes
<1>9. /\ Named(h, H) /\ Hashes(h, "evidence", "digest") /\ Hashes(h, "evidence", "edge")
  BY EvidenceIdentityNamed
<1>10. /\ Named(m, J) /\ Hashes(m, "anchor", "digest")
  BY AnchorDigestNamed
<1>11. /\ Named(k, K) /\ Hashes(k, "node", "digest") /\ Hashes(k, "node", "edge")
      /\ Hashes(k, "issuer", "digest") /\ Hashes(k, "issuer", "edge")
  BY PathIdentityNamed
<1> HIDE DEF a, b, c, d, e, f, g, h, m, k
<1>12. /\ Named(a \o b, A \cup B)
      /\ Part(a, a \o b) /\ Part(b, a \o b)
  <2>1. (A) \cap B = {}
    OBVIOUS
  <2> HIDE DEF A, B
  <2> QED
    BY <1>2, <1>3, <2>1, NamedConcat
<1>13. /\ Named(a \o b \o c, A \cup B \cup C)
      /\ Part(a \o b, a \o b \o c) /\ Part(c, a \o b \o c)
  <2>1. (A \cup B) \cap C = {}
    OBVIOUS
  <2> HIDE DEF A, B, C
  <2> QED
    BY <1>12, <1>4, <2>1, NamedConcat
<1>14. /\ Named(a \o b \o c \o d, A \cup B \cup C \cup D)
      /\ Part(a \o b \o c, a \o b \o c \o d) /\ Part(d, a \o b \o c \o d)
  <2>1. (A \cup B \cup C) \cap D = {}
    OBVIOUS
  <2> HIDE DEF A, B, C, D
  <2> QED
    BY <1>13, <1>5, <2>1, NamedConcat
<1>15. /\ Named(a \o b \o c \o d \o e, A \cup B \cup C \cup D \cup E)
      /\ Part(a \o b \o c \o d, a \o b \o c \o d \o e) /\ Part(e, a \o b \o c \o d \o e)
  <2>1. (A \cup B \cup C \cup D) \cap E = {}
    OBVIOUS
  <2> HIDE DEF A, B, C, D, E
  <2> QED
    BY <1>14, <1>6, <2>1, NamedConcat
<1>16. /\ Named(a \o b \o c \o d \o e \o f, A \cup B \cup C \cup D \cup E \cup F)
      /\ Part(a \o b \o c \o d \o e, a \o b \o c \o d \o e \o f)
           /\ Part(f, a \o b \o c \o d \o e \o f)
  <2>1. (A \cup B \cup C \cup D \cup E) \cap F = {}
    OBVIOUS
  <2> HIDE DEF A, B, C, D, E, F
  <2> QED
    BY <1>15, <1>7, <2>1, NamedConcat
<1>17. /\ Named(a \o b \o c \o d \o e \o f \o g, A \cup B \cup C \cup D \cup E \cup F \cup G)
      /\ Part(a \o b \o c \o d \o e \o f, a \o b \o c \o d \o e \o f \o g)
           /\ Part(g, a \o b \o c \o d \o e \o f \o g)
  <2>1. (A \cup B \cup C \cup D \cup E \cup F) \cap G = {}
    OBVIOUS
  <2> HIDE DEF A, B, C, D, E, F, G
  <2> QED
    BY <1>16, <1>8, <2>1, NamedConcat
<1>18. /\ Named(a \o b \o c \o d \o e \o f \o g \o h, A \cup B \cup C \cup D \cup E \cup F \cup G
            \cup H)
      /\ Part(a \o b \o c \o d \o e \o f \o g, a \o b \o c \o d \o e \o f \o g \o h)
           /\ Part(h, a \o b \o c \o d \o e \o f \o g \o h)
  <2>1. (A \cup B \cup C \cup D \cup E \cup F \cup G) \cap H = {}
    OBVIOUS
  <2> HIDE DEF A, B, C, D, E, F, G, H
  <2> QED
    BY <1>17, <1>9, <2>1, NamedConcat
<1>19. /\ Named(a \o b \o c \o d \o e \o f \o g \o h \o m, A \cup B \cup C \cup D \cup E \cup F
            \cup G \cup H \cup J)
      /\ Part(a \o b \o c \o d \o e \o f \o g \o h, a \o b \o c \o d \o e \o f \o g \o h \o m)
           /\ Part(m, a \o b \o c \o d \o e \o f \o g \o h \o m)
  <2>1. (A \cup B \cup C \cup D \cup E \cup F \cup G \cup H) \cap J = {}
    OBVIOUS
  <2> HIDE DEF A, B, C, D, E, F, G, H, J
  <2> QED
    BY <1>18, <1>10, <2>1, NamedConcat
<1>20. /\ Named(a \o b \o c \o d \o e \o f \o g \o h \o m \o k, A \cup B \cup C \cup D \cup E
            \cup F \cup G \cup H \cup J \cup K)
      /\ Part(a \o b \o c \o d \o e \o f \o g \o h \o m,
           a \o b \o c \o d \o e \o f \o g \o h \o m \o k)
           /\ Part(k, a \o b \o c \o d \o e \o f \o g \o h \o m \o k)
  <2>1. (A \cup B \cup C \cup D \cup E \cup F \cup G \cup H \cup J) \cap K = {}
    OBVIOUS
  <2> HIDE DEF A, B, C, D, E, F, G, H, J, K
  <2> QED
    BY <1>19, <1>11, <2>1, NamedConcat
<1> HIDE DEF A, B, C, D, E, F, G, H, J, K
<1> DEFINE T == a \o b \o c \o d \o e \o f \o g \o h \o m \o k
<1>21. /\ Part(a, T) /\ Part(b, T) /\ Part(c, T) /\ Part(d, T) /\ Part(e, T) /\ Part(f, T)
      /\ Part(g, T) /\ Part(h, T) /\ Part(m, T) /\ Part(k, T)
  BY <1>12, <1>13, <1>14, <1>15, <1>16, <1>17, <1>18, <1>19, <1>20, PartOfPart
<1>22. Distinct(T)
  BY <1>20 DEF Named, Distinct
<1> HIDE DEF T
<1>23. CatalystTlsSteps(T)
  BY <1>2, <1>3, <1>4, <1>5, <1>6, <1>7, <1>8, <1>9, <1>10, <1>11, <1>21, PartDoes, PartRuns,
     PartChecked, PartHashes,
     PartSelects DEF CatalystTlsSteps
<1> QED
  BY <1>1, <1>22, <1>23 DEF T

\* What the table does.
ChameleonTlsSteps(T) ==
  /\ Selects(T)
  /\ Runs(T, "tls", "valid_base", "Accept") /\ Runs(T, "tls", "invalid_delta", "Accept")
  /\ Runs(T, "tls", "separate_delta", "Accept") /\ Runs(T, "tls", "invalid_base", "Reject")
  /\ Runs(T, "leaf", "valid_delta", "Accept") /\ Runs(T, "leaf", "invalid_delta", "Reject")
  /\ Checked(T, "leaf", "base_validity") /\ Checked(T, "leaf", "delta_validity")
  /\ Hashes(T, "evidence", "digest") /\ Hashes(T, "evidence", "edge")
  /\ Hashes(T, "anchor", "digest") /\ Hashes(T, "node", "digest") /\ Hashes(T, "node", "edge")
  /\ Hashes(T, "issuer", "digest") /\ Hashes(T, "issuer", "edge")

LEMMA ChameleonTlsTable == Distinct(chameleon_tls_steps) /\ ChameleonTlsSteps(chameleon_tls_steps)
<1> DEFINE
      base == Leaf("certificate")
      invalid == Leaf("invalid_delta_base")
      Tls(what, leaf, key, v) ==
        Run("tls", what, "TlsTranscript", Handshake(leaf, Key(key)), v)
      a == <<Inspect(base), Inspect(invalid)>>
      b == BouncyCastleStack(Tls("valid_base", base, "base", "Accept"), base)
      c == <<Tls("invalid_delta", invalid, "base", "Accept"),
             Tls("separate_delta", Leaf("delta"), "delta", "Accept"),
             Corrupt("leaf", base),
             Tls("invalid_base", Corrupted(base), "base", "Reject"),
             Run("leaf", "valid_delta", "DeltaSignature", Presentation(base), "Accept"),
             Run("leaf", "invalid_delta", "DeltaSignature", Presentation(invalid), "Reject"),
             Validity("leaf", "base_validity", base),
             Validity("leaf", "delta_validity", Leaf("delta"))>>
      d == EvidenceIdentity(base)
      e == AnchorDigest
      f == PathIdentity(base)
      A == {<<"inspect", "certificate", "leaf">>, <<"inspect", "invalid_delta_base", "leaf">>}
      B == {<<"tls", "valid_base">>, <<"path", "selected">>}
      C == {<<"tls", "invalid_delta">>, <<"tls", "separate_delta">>, <<"leaf", "corrupt">>,
            <<"tls", "invalid_base">>, <<"leaf", "valid_delta">>, <<"leaf", "invalid_delta">>,
            <<"leaf", "base_validity">>, <<"leaf", "delta_validity">>}
      D == {<<"evidence", "digest">>, <<"evidence", "edge">>}
      E == {<<"anchor", "digest">>}
      F == {<<"node", "digest">>, <<"node", "edge">>, <<"issuer", "digest">>,
            <<"issuer", "edge">>}
<1>1. chameleon_tls_steps = a \o b \o c \o d \o e \o f
  BY DEF chameleon_tls_steps
<1>2. /\ Named(a, A)
  <2>1. DOMAIN a = 1 .. 2 /\ a \in Seq(Range(a))
    BY DEF Range
  <2>2. /\ a[1].name = <<"inspect", "certificate", "leaf">>
        /\ a[2].name = <<"inspect", "invalid_delta_base", "leaf">>
    BY CheckFields DEF Leaf
  <2> HIDE DEF a
  <2>3. \A i \in DOMAIN a : a[i].name \in A
    <3>1. /\ a[1].name \in A /\ a[2].name \in A
      BY <2>2, Zenon
    <3> HIDE DEF A
    <3> QED
      BY <2>1, <3>1
  <2>4. \A i, j \in DOMAIN a : a[i].name = a[j].name => i = j
    BY <2>1, <2>2
  <2>5. Named(a, A)
    BY <2>1, <2>3, <2>4 DEF Named
  <2> QED
    BY <2>5
<1>3. /\ Named(b, B) /\ Selects(b) /\ Runs(b, "tls", "valid_base", "Accept")
  <2>1. DOMAIN b = 1 .. 2 /\ b \in Seq(Range(b))
    BY DEF Range, BouncyCastleStack, SelectLeaf
  <2>2. /\ b[2].name = <<"path", "selected">> /\ b[2].op = "select"
        /\ DOMAIN b[2].nominal = 1 .. 3
    BY HashFields DEF BouncyCastleStack, SelectLeaf
  <2>3. /\ b[1].name = <<"tls", "valid_base">> /\ b[1].op = "TlsTranscript"
        /\ b[1].nominal = "Accept" /\ b[1].others = StackVerdict \ {"Accept"}
    BY RunFields DEF BouncyCastleStack, SelectLeaf
  <2> HIDE DEF b
  <2>4. \A i \in DOMAIN b : b[i].name \in B
    <3>1. /\ b[1].name \in B /\ b[2].name \in B
      BY <2>2, <2>3, Zenon
    <3> HIDE DEF B
    <3> QED
      BY <2>1, <3>1
  <2>5. \A i, j \in DOMAIN b : b[i].name = b[j].name => i = j
    BY <2>1, <2>2, <2>3
  <2>6. Named(b, B)
    BY <2>1, <2>4, <2>5 DEF Named
  <2> QED
    BY <2>1, <2>2, <2>3, <2>6 DEF Selects, Runs, Does, Checked, Hashes, Modes
<1>4. /\ Named(c, C) /\ Runs(c, "tls", "invalid_delta", "Accept")
      /\ Runs(c, "tls", "separate_delta", "Accept") /\ Runs(c, "tls", "invalid_base", "Reject")
      /\ Runs(c, "leaf", "valid_delta", "Accept") /\ Runs(c, "leaf", "invalid_delta", "Reject")
      /\ Checked(c, "leaf", "base_validity") /\ Checked(c, "leaf", "delta_validity")
  <2>1. DOMAIN c = 1 .. 8 /\ c \in Seq(Range(c))
    BY DEF Range
  <2>2. /\ c[3].name = <<"leaf", "corrupt">> /\ c[7].name = <<"leaf", "base_validity">>
        /\ c[7].op = "validity" /\ c[7].nominal = "Pass" /\ c[7].others = {"Fail"}
        /\ c[8].name = <<"leaf", "delta_validity">> /\ c[8].op = "validity"
        /\ c[8].nominal = "Pass" /\ c[8].others = {"Fail"}
    BY CheckFields
  <2>3. /\ c[1].name = <<"tls", "invalid_delta">> /\ c[1].op = "TlsTranscript"
        /\ c[1].nominal = "Accept" /\ c[1].others = StackVerdict \ {"Accept"}
        /\ c[2].name = <<"tls", "separate_delta">> /\ c[2].op = "TlsTranscript"
        /\ c[2].nominal = "Accept" /\ c[2].others = StackVerdict \ {"Accept"}
        /\ c[4].name = <<"tls", "invalid_base">> /\ c[4].op = "TlsTranscript"
        /\ c[4].nominal = "Reject" /\ c[4].others = StackVerdict \ {"Reject"}
        /\ c[5].name = <<"leaf", "valid_delta">> /\ c[5].op = "DeltaSignature"
        /\ c[5].nominal = "Accept" /\ c[5].others = StackVerdict \ {"Accept"}
    BY RunFields
  <2>4. /\ c[6].name = <<"leaf", "invalid_delta">> /\ c[6].op = "DeltaSignature"
        /\ c[6].nominal = "Reject" /\ c[6].others = StackVerdict \ {"Reject"}
    BY RunFields
  <2> HIDE DEF c
  <2>5. \A i \in DOMAIN c : c[i].name \in C
    <3>1. /\ c[1].name \in C /\ c[2].name \in C /\ c[3].name \in C /\ c[4].name \in C
          /\ c[5].name \in C /\ c[6].name \in C /\ c[7].name \in C /\ c[8].name \in C
      BY <2>2, <2>3, <2>4, Zenon
    <3> HIDE DEF C
    <3> QED
      BY <2>1, <3>1
  <2>6. \A i, j \in DOMAIN c : c[i].name = c[j].name => i = j
    BY <2>1, <2>2, <2>3, <2>4
  <2>7. Named(c, C)
    BY <2>1, <2>5, <2>6 DEF Named
  <2> QED
    BY <2>1, <2>2, <2>3, <2>4, <2>7 DEF Runs, Does, Checked, Hashes, Modes
<1>5. /\ Named(d, D) /\ Hashes(d, "evidence", "digest") /\ Hashes(d, "evidence", "edge")
  BY EvidenceIdentityNamed
<1>6. /\ Named(e, E) /\ Hashes(e, "anchor", "digest")
  BY AnchorDigestNamed
<1>7. /\ Named(f, F) /\ Hashes(f, "node", "digest") /\ Hashes(f, "node", "edge")
      /\ Hashes(f, "issuer", "digest") /\ Hashes(f, "issuer", "edge")
  BY PathIdentityNamed
<1> HIDE DEF a, b, c, d, e, f
<1>8. /\ Named(a \o b, A \cup B)
      /\ Part(a, a \o b) /\ Part(b, a \o b)
  <2>1. (A) \cap B = {}
    OBVIOUS
  <2> HIDE DEF A, B
  <2> QED
    BY <1>2, <1>3, <2>1, NamedConcat
<1>9. /\ Named(a \o b \o c, A \cup B \cup C)
      /\ Part(a \o b, a \o b \o c) /\ Part(c, a \o b \o c)
  <2>1. (A \cup B) \cap C = {}
    OBVIOUS
  <2> HIDE DEF A, B, C
  <2> QED
    BY <1>8, <1>4, <2>1, NamedConcat
<1>10. /\ Named(a \o b \o c \o d, A \cup B \cup C \cup D)
      /\ Part(a \o b \o c, a \o b \o c \o d) /\ Part(d, a \o b \o c \o d)
  <2>1. (A \cup B \cup C) \cap D = {}
    OBVIOUS
  <2> HIDE DEF A, B, C, D
  <2> QED
    BY <1>9, <1>5, <2>1, NamedConcat
<1>11. /\ Named(a \o b \o c \o d \o e, A \cup B \cup C \cup D \cup E)
      /\ Part(a \o b \o c \o d, a \o b \o c \o d \o e) /\ Part(e, a \o b \o c \o d \o e)
  <2>1. (A \cup B \cup C \cup D) \cap E = {}
    OBVIOUS
  <2> HIDE DEF A, B, C, D, E
  <2> QED
    BY <1>10, <1>6, <2>1, NamedConcat
<1>12. /\ Named(a \o b \o c \o d \o e \o f, A \cup B \cup C \cup D \cup E \cup F)
      /\ Part(a \o b \o c \o d \o e, a \o b \o c \o d \o e \o f)
           /\ Part(f, a \o b \o c \o d \o e \o f)
  <2>1. (A \cup B \cup C \cup D \cup E) \cap F = {}
    OBVIOUS
  <2> HIDE DEF A, B, C, D, E, F
  <2> QED
    BY <1>11, <1>7, <2>1, NamedConcat
<1> HIDE DEF A, B, C, D, E, F
<1> DEFINE T == a \o b \o c \o d \o e \o f
<1>13. /\ Part(a, T) /\ Part(b, T) /\ Part(c, T) /\ Part(d, T) /\ Part(e, T) /\ Part(f, T)
  BY <1>8, <1>9, <1>10, <1>11, <1>12, PartOfPart
<1>14. Distinct(T)
  BY <1>12 DEF Named, Distinct
<1> HIDE DEF T
<1>15. ChameleonTlsSteps(T)
  BY <1>2, <1>3, <1>4, <1>5, <1>6, <1>7, <1>13, PartDoes, PartRuns, PartChecked, PartHashes,
     PartSelects DEF ChameleonTlsSteps
<1> QED
  BY <1>1, <1>14, <1>15 DEF T

\* What the table does.
RelatedTlsSteps(T) ==
  /\ Selects(T)
  /\ Does(T, "pair", "conformance", {"conformance"}, published_failures,
       ConformanceAnswers \ {published_failures})
  /\ Does(T, "pair", "invalid_binding", {"binding"}, "Fail", {"Pass", "Fail"} \ {"Fail"})
  /\ Does(T, "leaf", "classical_crl", {"crl_status"}, <<"Pass", "Pass">>,
       CrlAnswers \ {<<"Pass", "Pass">>})
  /\ Does(T, "leaf", "post_quantum_crl", {"crl_status"}, <<"Pass", "Fail">>,
       CrlAnswers \ {<<"Pass", "Fail">>})
  /\ Runs(T, "tls", "classical", "Accept") /\ Runs(T, "tls", "invalid_binding", "Accept")
  /\ Runs(T, "tls", "missing_binding", "Accept")
  /\ Runs(T, "tls", "separate_post_quantum", "Accept") /\ Runs(T, "tls", "expired", "Reject")
  /\ Runs(T, "tls", "invalid_classical", "Reject") /\ Checked(T, "leaf", "post_quantum_validity")
  /\ Hashes(T, "evidence", "digest") /\ Hashes(T, "pair", "digest")
  /\ Hashes(T, "evidence", "edge") /\ Hashes(T, "anchor", "digest") /\ Hashes(T, "node", "digest")
  /\ Hashes(T, "node", "edge") /\ Hashes(T, "issuer", "digest") /\ Hashes(T, "issuer", "edge")
  /\ Checked(T, "leaf", "classical_validity")

LEMMA RelatedTlsTable == Distinct(related_tls_steps) /\ RelatedTlsSteps(related_tls_steps)
<1> DEFINE
      classical == Leaf("certificate")
      post_quantum == Leaf("post_quantum")
      Tls(what, leaf, key, v) ==
        Run("tls", what, "TlsTranscript", Handshake(leaf, Key(key)), v)
      a == <<Inspect(classical),
             Conformance("pair", "conformance", classical, post_quantum, published_failures),
             Binding("pair", "invalid_binding", Leaf("invalid_binding"), post_quantum, "Fail"),
             CrlStatus("leaf", "classical_crl", classical, Issuer, IssuedCrl, <<"Pass", "Pass">>),
             CrlStatus("leaf", "post_quantum_crl", post_quantum, Issuer, IssuedCrl,
                       <<"Pass", "Fail">>)>>
      b == BouncyCastleStack(Tls("classical", classical, "classical", "Accept"), classical)
      c == <<Tls("invalid_binding", Leaf("invalid_binding"), "classical", "Accept"),
             Tls("missing_binding", Leaf("missing_binding"), "classical", "Accept"),
             Tls("separate_post_quantum", post_quantum, "post_quantum", "Accept"),
             Tls("expired", Leaf("expired"), "post_quantum", "Reject"),
             Corrupt("leaf", classical),
             Tls("invalid_classical", Corrupted(classical), "classical", "Reject"),
             Validity("leaf", "post_quantum_validity", post_quantum),
             Digest("evidence", "digest", classical), Digest("pair", "digest", post_quantum),
             Edge("evidence", "edge", classical, Issuer)>>
      d == AnchorDigest
      e == PathIdentity(classical)
      f == <<Validity("leaf", "classical_validity", classical)>>
      A == {<<"inspect", "certificate", "leaf">>, <<"pair", "conformance">>,
            <<"pair", "invalid_binding">>, <<"leaf", "classical_crl">>,
            <<"leaf", "post_quantum_crl">>}
      B == {<<"tls", "classical">>, <<"path", "selected">>}
      C == {<<"tls", "invalid_binding">>, <<"tls", "missing_binding">>,
            <<"tls", "separate_post_quantum">>, <<"tls", "expired">>, <<"leaf", "corrupt">>,
            <<"tls", "invalid_classical">>, <<"leaf", "post_quantum_validity">>,
            <<"evidence", "digest">>, <<"pair", "digest">>, <<"evidence", "edge">>}
      D == {<<"anchor", "digest">>}
      E == {<<"node", "digest">>, <<"node", "edge">>, <<"issuer", "digest">>,
            <<"issuer", "edge">>}
      F == {<<"leaf", "classical_validity">>}
<1>1. related_tls_steps = a \o b \o c \o d \o e \o f
  BY DEF related_tls_steps
<1>2. /\ Named(a, A)
      /\ Does(a, "pair", "conformance", {"conformance"}, published_failures,
       ConformanceAnswers \ {published_failures})
      /\ Does(a, "pair", "invalid_binding", {"binding"}, "Fail", {"Pass", "Fail"} \ {"Fail"})
      /\ Does(a, "leaf", "classical_crl", {"crl_status"}, <<"Pass", "Pass">>,
           CrlAnswers \ {<<"Pass", "Pass">>})
      /\ Does(a, "leaf", "post_quantum_crl", {"crl_status"}, <<"Pass", "Fail">>,
           CrlAnswers \ {<<"Pass", "Fail">>})
  <2>1. DOMAIN a = 1 .. 5 /\ a \in Seq(Range(a))
    BY DEF Range
  <2>2. /\ a[3].name = <<"pair", "invalid_binding">> /\ a[3].op = "binding"
        /\ a[3].nominal = "Fail" /\ a[3].others = {"Pass", "Fail"} \ {"Fail"}
    BY CheckFields
  <2>3. /\ a[1].name = <<"inspect", "certificate", "leaf">>
    BY CheckFields DEF Leaf
  <2>4. /\ a[4].name = <<"leaf", "classical_crl">> /\ a[4].op = "crl_status"
        /\ a[4].nominal = <<"Pass", "Pass">> /\ a[4].others = CrlAnswers \ {<<"Pass", "Pass">>}
        /\ a[5].name = <<"leaf", "post_quantum_crl">> /\ a[5].op = "crl_status"
        /\ a[5].nominal = <<"Pass", "Fail">> /\ a[5].others = CrlAnswers \ {<<"Pass", "Fail">>}
    BY CheckFields
  <2>5. /\ a[2].name = <<"pair", "conformance">> /\ a[2].op = "conformance"
        /\ a[2].nominal = published_failures
        /\ a[2].others = ConformanceAnswers \ {published_failures}
    <3>1. a[2] = Conformance("pair", "conformance", classical, post_quantum, published_failures)
      OBVIOUS
    <3> HIDE DEF a
    <3> QED
      BY <3>1, ConformanceFields
  <2> HIDE DEF a
  <2>6. \A i \in DOMAIN a : a[i].name \in A
    <3>1. /\ a[1].name \in A /\ a[2].name \in A /\ a[3].name \in A /\ a[4].name \in A
          /\ a[5].name \in A
      BY <2>2, <2>3, <2>4, <2>5, Zenon
    <3> HIDE DEF A
    <3> QED
      BY <2>1, <3>1
  <2>7. \A i, j \in DOMAIN a : a[i].name = a[j].name => i = j
    BY <2>1, <2>2, <2>3, <2>4, <2>5
  <2>8. Named(a, A)
    BY <2>1, <2>6, <2>7 DEF Named
  <2> QED
    BY <2>1, <2>2, <2>3, <2>4, <2>5, <2>8 DEF Runs, Does, Checked, Hashes, Modes
<1>3. /\ Named(b, B) /\ Selects(b) /\ Runs(b, "tls", "classical", "Accept")
  <2>1. DOMAIN b = 1 .. 2 /\ b \in Seq(Range(b))
    BY DEF Range, BouncyCastleStack, SelectLeaf
  <2>2. /\ b[2].name = <<"path", "selected">> /\ b[2].op = "select"
        /\ DOMAIN b[2].nominal = 1 .. 3
    BY HashFields DEF BouncyCastleStack, SelectLeaf
  <2>3. /\ b[1].name = <<"tls", "classical">> /\ b[1].op = "TlsTranscript"
        /\ b[1].nominal = "Accept" /\ b[1].others = StackVerdict \ {"Accept"}
    BY RunFields DEF BouncyCastleStack, SelectLeaf
  <2> HIDE DEF b
  <2>4. \A i \in DOMAIN b : b[i].name \in B
    <3>1. /\ b[1].name \in B /\ b[2].name \in B
      BY <2>2, <2>3, Zenon
    <3> HIDE DEF B
    <3> QED
      BY <2>1, <3>1
  <2>5. \A i, j \in DOMAIN b : b[i].name = b[j].name => i = j
    BY <2>1, <2>2, <2>3
  <2>6. Named(b, B)
    BY <2>1, <2>4, <2>5 DEF Named
  <2> QED
    BY <2>1, <2>2, <2>3, <2>6 DEF Selects, Runs, Does, Checked, Hashes, Modes
<1>4. /\ Named(c, C) /\ Runs(c, "tls", "invalid_binding", "Accept")
      /\ Runs(c, "tls", "missing_binding", "Accept")
      /\ Runs(c, "tls", "separate_post_quantum", "Accept") /\ Runs(c, "tls", "expired", "Reject")
      /\ Runs(c, "tls", "invalid_classical", "Reject")
      /\ Checked(c, "leaf", "post_quantum_validity") /\ Hashes(c, "evidence", "digest")
      /\ Hashes(c, "pair", "digest") /\ Hashes(c, "evidence", "edge")
  <2>1. DOMAIN c = 1 .. 10 /\ c \in Seq(Range(c))
    BY DEF Range
  <2>2. /\ c[5].name = <<"leaf", "corrupt">> /\ c[7].name = <<"leaf", "post_quantum_validity">>
        /\ c[7].op = "validity" /\ c[7].nominal = "Pass" /\ c[7].others = {"Fail"}
    BY CheckFields
  <2>3. /\ c[8].name = <<"evidence", "digest">> /\ c[8].op = "digest"
        /\ c[9].name = <<"pair", "digest">> /\ c[9].op = "digest"
        /\ c[10].name = <<"evidence", "edge">> /\ c[10].op = "edge"
    BY HashFields
  <2>4. /\ c[1].name = <<"tls", "invalid_binding">> /\ c[1].op = "TlsTranscript"
        /\ c[1].nominal = "Accept" /\ c[1].others = StackVerdict \ {"Accept"}
        /\ c[2].name = <<"tls", "missing_binding">> /\ c[2].op = "TlsTranscript"
        /\ c[2].nominal = "Accept" /\ c[2].others = StackVerdict \ {"Accept"}
        /\ c[3].name = <<"tls", "separate_post_quantum">> /\ c[3].op = "TlsTranscript"
        /\ c[3].nominal = "Accept" /\ c[3].others = StackVerdict \ {"Accept"}
        /\ c[4].name = <<"tls", "expired">> /\ c[4].op = "TlsTranscript"
        /\ c[4].nominal = "Reject" /\ c[4].others = StackVerdict \ {"Reject"}
    BY RunFields
  <2>5. /\ c[6].name = <<"tls", "invalid_classical">> /\ c[6].op = "TlsTranscript"
        /\ c[6].nominal = "Reject" /\ c[6].others = StackVerdict \ {"Reject"}
    BY RunFields
  <2> HIDE DEF c
  <2>6. \A i \in DOMAIN c : c[i].name \in C
    <3>1. /\ c[1].name \in C /\ c[2].name \in C /\ c[3].name \in C /\ c[4].name \in C
          /\ c[5].name \in C /\ c[6].name \in C /\ c[7].name \in C /\ c[8].name \in C
          /\ c[9].name \in C /\ c[10].name \in C
      BY <2>2, <2>3, <2>4, <2>5, Zenon
    <3> HIDE DEF C
    <3> QED
      BY <2>1, <3>1
  <2>7. \A i, j \in DOMAIN c : c[i].name = c[j].name => i = j
    BY <2>1, <2>2, <2>3, <2>4, <2>5
  <2>8. Named(c, C)
    BY <2>1, <2>6, <2>7 DEF Named
  <2> QED
    BY <2>1, <2>2, <2>3, <2>4, <2>5, <2>8 DEF Runs, Does, Checked, Hashes, Modes
<1>5. /\ Named(d, D) /\ Hashes(d, "anchor", "digest")
  BY AnchorDigestNamed
<1>6. /\ Named(e, E) /\ Hashes(e, "node", "digest") /\ Hashes(e, "node", "edge")
      /\ Hashes(e, "issuer", "digest") /\ Hashes(e, "issuer", "edge")
  BY PathIdentityNamed
<1>7. /\ Named(f, F) /\ Checked(f, "leaf", "classical_validity")
  <2>1. DOMAIN f = {1} /\ f \in Seq(Range(f))
    BY DEF Range
  <2>2. /\ f[1].name = <<"leaf", "classical_validity">> /\ f[1].op = "validity"
        /\ f[1].nominal = "Pass" /\ f[1].others = {"Fail"}
    BY CheckFields
  <2> HIDE DEF f
  <2>3. \A i \in DOMAIN f : f[i].name \in F
    <3>1. /\ f[1].name \in F
      BY <2>2, Zenon
    <3> HIDE DEF F
    <3> QED
      BY <2>1, <3>1
  <2>4. \A i, j \in DOMAIN f : f[i].name = f[j].name => i = j
    BY <2>1, <2>2
  <2>5. Named(f, F)
    BY <2>1, <2>3, <2>4 DEF Named
  <2> QED
    BY <2>1, <2>2, <2>5 DEF Runs, Does, Checked, Hashes, Modes
<1> HIDE DEF a, b, c, d, e, f
<1>8. /\ Named(a \o b, A \cup B)
      /\ Part(a, a \o b) /\ Part(b, a \o b)
  <2>1. (A) \cap B = {}
    OBVIOUS
  <2> HIDE DEF A, B
  <2> QED
    BY <1>2, <1>3, <2>1, NamedConcat
<1>9. /\ Named(a \o b \o c, A \cup B \cup C)
      /\ Part(a \o b, a \o b \o c) /\ Part(c, a \o b \o c)
  <2>1. (A \cup B) \cap C = {}
    OBVIOUS
  <2> HIDE DEF A, B, C
  <2> QED
    BY <1>8, <1>4, <2>1, NamedConcat
<1>10. /\ Named(a \o b \o c \o d, A \cup B \cup C \cup D)
      /\ Part(a \o b \o c, a \o b \o c \o d) /\ Part(d, a \o b \o c \o d)
  <2>1. (A \cup B \cup C) \cap D = {}
    OBVIOUS
  <2> HIDE DEF A, B, C, D
  <2> QED
    BY <1>9, <1>5, <2>1, NamedConcat
<1>11. /\ Named(a \o b \o c \o d \o e, A \cup B \cup C \cup D \cup E)
      /\ Part(a \o b \o c \o d, a \o b \o c \o d \o e) /\ Part(e, a \o b \o c \o d \o e)
  <2>1. (A \cup B \cup C \cup D) \cap E = {}
    OBVIOUS
  <2> HIDE DEF A, B, C, D, E
  <2> QED
    BY <1>10, <1>6, <2>1, NamedConcat
<1>12. /\ Named(a \o b \o c \o d \o e \o f, A \cup B \cup C \cup D \cup E \cup F)
      /\ Part(a \o b \o c \o d \o e, a \o b \o c \o d \o e \o f)
           /\ Part(f, a \o b \o c \o d \o e \o f)
  <2>1. (A \cup B \cup C \cup D \cup E) \cap F = {}
    OBVIOUS
  <2> HIDE DEF A, B, C, D, E, F
  <2> QED
    BY <1>11, <1>7, <2>1, NamedConcat
<1> HIDE DEF A, B, C, D, E, F
<1> DEFINE T == a \o b \o c \o d \o e \o f
<1>13. /\ Part(a, T) /\ Part(b, T) /\ Part(c, T) /\ Part(d, T) /\ Part(e, T) /\ Part(f, T)
  BY <1>8, <1>9, <1>10, <1>11, <1>12, PartOfPart
<1>14. Distinct(T)
  BY <1>12 DEF Named, Distinct
<1> HIDE DEF T
<1>15. RelatedTlsSteps(T)
  BY <1>2, <1>3, <1>4, <1>5, <1>6, <1>7, <1>13, PartDoes, PartRuns, PartChecked, PartHashes,
     PartSelects DEF RelatedTlsSteps
<1> QED
  BY <1>1, <1>14, <1>15 DEF T

-----------------------------------------------------------------------------
(* Results *)

LEMMA TablesAreDistinct ==
  ASSUME NEW k \in Kinds
  PROVE  Table[k] = StepsOf(k) /\ Distinct(Table[k])
<1>1. Table[k] = StepsOf(k)
  BY DEF Table
<1>2. k \in AllKinds
  BY KindsAreAnalyses
<1>3. /\ Distinct(atomic_steps) /\ Distinct(catalyst_steps) /\ Distinct(chameleon_steps)
      /\ Distinct(pure_steps) /\ Distinct(related_steps) /\ Distinct(cross_signed_steps)
  BY AtomicTable, CatalystTable, ChameleonTable, PureTable, RelatedTable, CrossTable,
     GroupedIsDistinct
<1>4. /\ Distinct(catalyst_bouncy_castle_steps) /\ Distinct(related_openssl_steps)
      /\ Distinct(atomic_tls_steps) /\ Distinct(catalyst_tls_steps)
      /\ Distinct(chameleon_tls_steps) /\ Distinct(related_tls_steps)
  BY CatalystBouncyCastleTable, RelatedOpenSslTable, AtomicTlsTable, CatalystTlsTable,
     ChameleonTlsTable, RelatedTlsTable
<1>5. Distinct(StepsOf(k))
  BY <1>2, <1>3, <1>4 DEF AllKinds, PathScopeKinds, TlsKinds, StepsOf
<1> QED
  BY <1>1, <1>5

\* The documented result of a step is found under its name.
LEMMA NominalOfStep ==
  ASSUME NEW k \in Kinds, NEW i \in DOMAIN Table[k]
  PROVE  /\ Table[k][i].name \in DOMAIN Nominal[k]
         /\ Place[k][Table[k][i].name] = i
         /\ Nominal[k][Table[k][i].name] = Table[k][i].nominal
<1> DEFINE T == Table[k]
           names == {step.name : step \in Range(T)}
<1>1. \A j \in DOMAIN T : T[j].name = T[i].name => j = i
  BY TablesAreDistinct DEF Distinct
<1>2. T[i].name \in names
  BY DEF Range
<1>3. Place[k] = [name \in names |-> CHOOSE j \in DOMAIN T : T[j].name = name]
  BY DEF Place
<1>4. Nominal[k] = [name \in names |-> (CHOOSE step \in Range(T) : step.name = name).nominal]
  BY DEF Nominal
<1>5. \A step \in Range(T) : step.name = T[i].name => step = T[i]
  BY <1>1 DEF Range
<1>6. T[i] \in Range(T)
  BY DEF Range
<1> HIDE DEF T, names
<1>7. (CHOOSE j \in DOMAIN T : T[j].name = T[i].name) = i
  <2>1. i \in DOMAIN T
    BY DEF T
  <2> QED
    BY <1>1, <2>1
<1>8. Place[k][T[i].name] = i
  BY <1>2, <1>3, <1>7
<1>9. (CHOOSE step \in Range(T) : step.name = T[i].name) = T[i]
  BY <1>5, <1>6
<1> QED
  BY <1>2, <1>4, <1>8, <1>9 DEF T

\* The results that differ from the documented ones were yielded by the step
\* of that name, and are among those its operation can yield.
OddValue(step, value) ==
  \/ step.op \notin {"digest", "edge", "select"} /\ value \in step.others
  \/ step.op \in {"digest", "edge"} /\ value \in Sha256
  \/ step.op = "select" /\ {value[1], value[2], value[3]} \subseteq Sha256
  \/ step.op \in {"inspect", "corrupt", "routes"}

OddResults ==
  \A name \in DOMAIN odd : \E i \in DOMAIN Table[kind] :
    /\ Table[kind][i].name = name
    /\ odd[name] # Table[kind][i].nominal
    /\ OddValue(Table[kind][i], odd[name])

\* The answers are the oracle's to what the results amount to.
AnswersEvaluated ==
  /\ at = Len(Table[kind]) + 1
  /\ policy \in policies(kind)
  /\ LET subs == submissions(kind, results) IN
     answers = [i \in DOMAIN subs |->
                  [scope \in scopes(kind) |-> evaluate(Request(policy, scope, subs[i]))]]

AnalysisInv ==
  /\ kind \in Kinds
  /\ at \in 1 .. Len(Table[kind]) + 1
  /\ OddResults
  /\ DOMAIN replaced \subseteq HashedFiles[kind]
  /\ surprises \in 0 .. Surprises[kind]
  /\ answers # <<>> => AnswersEvaluated
  /\ outcome = "answered" => answers # <<>> /\ refusals = {}

LEMMA TableIsSequence ==
  ASSUME NEW k \in Kinds
  PROVE  DOMAIN Table[k] = 1 .. Len(Table[k]) /\ Len(Table[k]) \in Nat
<1>1. PICK X : Table[k] \in Seq(X)
  BY TablesAreDistinct DEF Distinct
<1> QED
  BY <1>1

\* Recording a result of the current step.
LEMMA Recorded ==
  ASSUME AnalysisInv, at \in DOMAIN Table[kind], NEW value,
         \/ value = current.nominal
         \/ OddValue(current, value),
         Record(value), kind' = kind
  PROVE  OddResults' /\ at' \in 1 .. Len(Table[kind]) + 1
<1>1. /\ DOMAIN Table[kind] = 1 .. Len(Table[kind]) /\ Len(Table[kind]) \in Nat
  BY TableIsSequence DEF AnalysisInv
<1>2. at' \in 1 .. Len(Table[kind]) + 1
  BY <1>1 DEF Record
<1>3. CASE value = current.nominal
  BY <1>2, <1>3 DEF Record, OddResults, AnalysisInv
<1>4. CASE value # current.nominal
  <2>1. odd' = Noting(odd, current.name, value)
    BY <1>4 DEF Record
  <2>2. DOMAIN odd' = DOMAIN odd \cup {current.name}
    BY <2>1 DEF Noting
  <2>3. ASSUME NEW name \in DOMAIN odd'
        PROVE  \E i \in DOMAIN Table[kind] :
                 /\ Table[kind][i].name = name
                 /\ odd'[name] # Table[kind][i].nominal
                 /\ OddValue(Table[kind][i], odd'[name])
    <3>1. CASE name = current.name
      <4>1. odd'[name] = value
        BY <2>1, <3>1 DEF Noting
      <4> QED
        BY <1>4, <3>1, <4>1 DEF current
    <3>2. CASE name # current.name
      <4>1. odd'[name] = odd[name] /\ name \in DOMAIN odd
        BY <2>1, <2>2, <3>2 DEF Noting
      <4> QED
        BY <4>1 DEF AnalysisInv, OddResults
    <3> QED
      BY <3>1, <3>2
  <2> QED
    BY <1>2, <2>3 DEF OddResults
<1> QED
  BY <1>2, <1>3, <1>4

\* Whatever was replaced, a digest is well formed.
LEMMA HashValue ==
  ASSUME AnalysisInv, Running({"digest", "edge", "select"})
  PROVE  OddValue(current, HashOf(current, Versions))
<1>1. Versions \in [HashedFiles[kind] -> {"v1", "v2"}]
  BY DEF Versions
<1>2. current \in Range(Table[kind]) /\ kind \in Kinds
  BY DEF Running, current, Range, AnalysisInv
<1> DEFINE h == HashOf(current, Versions)
<1>3. current.op \in {"digest", "edge"} => h \in Sha256
  BY <1>1, <1>2, HashesAreWellFormed
<1>4. ASSUME current.op = "select" PROVE {h[1], h[2], h[3]} \subseteq Sha256
  <2>1. h = <<DigestOf(<<current.inputs.leaf>>, Versions),
              DigestOf(<<current.inputs.intermediate>>, Versions),
              DigestOf(<<current.inputs.root>>, Versions)>>
    BY <1>4 DEF HashOf
  <2>2. Range(h) \subseteq Sha256
    BY <1>1, <1>2, <1>4, HashesAreWellFormed
  <2>3. {h[1], h[2], h[3]} \subseteq Range(h)
    BY <2>1 DEF Range
  <2> QED
    BY <2>2, <2>3
<1> HIDE DEF h
<1>5. OddValue(current, h)
  BY <1>3, <1>4 DEF OddValue, Running
<1> QED
  BY <1>5 DEF h

LEMMA AnalysisInvInit == AnalysisInit => AnalysisInv
<1> SUFFICES ASSUME AnalysisInit PROVE AnalysisInv
  OBVIOUS
<1>1. DOMAIN odd = {} /\ DOMAIN replaced = {}
  BY DEF AnalysisInit
<1>2. Len(Table[kind]) \in Nat
  BY TableIsSequence DEF AnalysisInit
<1>3. Surprises[kind] \in Nat
  BY KindsAreAnalyses DEF AnalysisInit
<1> QED
  BY <1>1, <1>2, <1>3 DEF AnalysisInit, AnalysisInv, OddResults

\* A step of the table leaves no answer.
LEMMA StepsPrecedeAnswers ==
  ASSUME AnalysisInv, NEW ops, Running(ops)
  PROVE  answers = <<>>
<1>1. /\ DOMAIN Table[kind] = 1 .. Len(Table[kind]) /\ Len(Table[kind]) \in Nat
  BY TableIsSequence DEF AnalysisInv
<1> QED
  BY <1>1 DEF AnalysisInv, AnswersEvaluated, Running

\* A recorded result keeps the invariant.
LEMMA RecordKeeps ==
  ASSUME AnalysisInv, NEW ops, Running(ops), NEW value,
         \/ value = current.nominal
         \/ OddValue(current, value),
         Record(value), UNCHANGED <<kind, replaced, outcome, policy, answers>>,
         surprises' \in 0 .. Surprises[kind]
  PROVE  AnalysisInv'
<1>1. OddResults' /\ at' \in 1 .. Len(Table[kind]) + 1
  BY Recorded DEF Running
<1>2. answers = <<>> /\ outcome = "running"
  BY StepsPrecedeAnswers DEF Running
<1> QED
  BY <1>1, <1>2 DEF AnalysisInv

LEMMA EndKeeps ==
  ASSUME AnalysisInv, NEW error, EndWith(error), error # "answered"
  PROVE  AnalysisInv'
<1>1. /\ OddResults' <=> OddResults
      /\ AnswersEvaluated' <=> AnswersEvaluated
  BY DEF EndWith, OddResults, AnswersEvaluated, results
<1> QED
  BY <1>1 DEF EndWith, AnalysisInv

-----------------------------------------------------------------------------
(* Checks *)

Passes(check, inapplicable) == required_check_state(check, inapplicable) = "Pass"
Fails(check, inapplicable) == required_check_state(check, inapplicable) = "Fail"

\* What an item of evidence that must be there amounts to.
ItemPasses(c, item) ==
  /\ evidence_binding_state(c, item) = "Pass"
  /\ \A name \in CheckName :
       required_check_state(item.checks[name], allow_not_applicable(name, "HardFail")) = "Pass"
ItemFails(item) ==
  \E name \in CheckName :
    required_check_state(item.checks[name], allow_not_applicable(name, "HardFail")) = "Fail"

LEMMA CheckStates ==
  /\ \A state : /\ Passes(observed(state), FALSE) <=> state = "Pass"
                /\ Passes(observed(state), TRUE) <=> state \in {"Pass", "NotApplicable"}
                /\ Fails(observed(state), FALSE) <=> state \in {"Fail", "NotApplicable"}
                /\ Fails(observed(state), TRUE) <=> state = "Fail"
  /\ \A e, state : /\ Passes(behavioral_check(e, state), FALSE) <=> e /\ state = "Pass"
                   /\ Fails(behavioral_check(e, state), FALSE) <=>
                        e /\ state \in {"Fail", "NotApplicable"}
BY DEF Passes, Fails, required_check_state, observed, behavioral_check

LEMMA VerdictStates ==
  ASSUME NEW v, NEW b \in BOOLEAN
  PROVE  /\ Passes(check_from_verdict(v), b) <=> v = "Accept"
         /\ Fails(check_from_verdict(v), b) <=> v = "Reject"
BY DEF Passes, Fails, required_check_state, observed, check_from_verdict

LEMMA OutcomeStates ==
  ASSUME NEW valid, NEW invalid, NEW e \in BOOLEAN
  PROVE  /\ Passes(outcome_check(valid, invalid, e), FALSE) <=>
              valid = "Accept" /\ e /\ invalid = "Reject"
         /\ Fails(outcome_check(valid, invalid, e), FALSE) <=>
              valid = "Accept" /\ e /\ invalid = "Accept"
BY DEF Passes, Fails, required_check_state, behavioral_check, outcome_check

LEMMA ConformanceStates ==
  ASSUME NEW failing, NEW b \in BOOLEAN
  PROVE  /\ Passes(related_conformance_check(failing), b) <=> failing = {}
         /\ Fails(related_conformance_check(failing), b) <=> failing # {}
<1>1. CASE failing = {}
  BY <1>1 DEF Passes, Fails, required_check_state, observed, related_conformance_check
<1>2. CASE failing # {}
  BY <1>2 DEF Passes, Fails, required_check_state, observed, related_conformance_check
<1> QED
  BY <1>1, <1>2

\* The fields of Checks.
LEMMA ChecksFields ==
  ASSUME NEW signature, NEW binding, NEW path, NEW validity, NEW revocation, NEW sensitive
  PROVE  LET ch == Checks(signature, binding, path, validity, revocation, sensitive) IN
         /\ ch["present"] = pass /\ ch["recognized"] = pass /\ ch["signature"] = signature
         /\ ch["binding"] = binding /\ ch["path"] = path /\ ch["validity"] = validity
         /\ ch["revocation"] = revocation /\ ch["decision_sensitive"] = sensitive
BY DEF Checks

\* The six measured checks of an item pass; one of them fails.
Sound(signature, binding, path, validity, revocation, sensitive) ==
  /\ Passes(signature, FALSE) /\ Passes(binding, TRUE) /\ Passes(path, FALSE)
  /\ Passes(validity, FALSE) /\ Passes(revocation, FALSE) /\ Passes(sensitive, FALSE)
Broken(signature, binding, path, validity, revocation, sensitive) ==
  \/ Fails(signature, FALSE) \/ Fails(binding, TRUE) \/ Fails(path, FALSE)
  \/ Fails(validity, FALSE) \/ Fails(revocation, FALSE) \/ Fails(sensitive, FALSE)

\* An item passes when it is bound and its six measured checks pass.
LEMMA ItemStates ==
  ASSUME NEW c, NEW item, evidence_binding_state(c, item) = "Pass",
         item.checks["present"] = pass, item.checks["recognized"] = pass
  PROVE  LET of == item.checks IN
         /\ ItemPasses(c, item) <=> Sound(of["signature"], of["binding"], of["path"],
              of["validity"], of["revocation"], of["decision_sensitive"])
         /\ ItemFails(item) <=> Broken(of["signature"], of["binding"], of["path"],
              of["validity"], of["revocation"], of["decision_sensitive"])
<1>1. Passes(pass, FALSE) /\ ~Fails(pass, FALSE)
  BY CheckStates DEF pass
<1>2. /\ allow_not_applicable("binding", "HardFail")
      /\ \A name \in CheckName \ {"binding"} : ~allow_not_applicable(name, "HardFail")
  BY DEF allow_not_applicable
<1>3. /\ required_check_state(item.checks["binding"], allow_not_applicable("binding", "HardFail"))
           = required_check_state(item.checks["binding"], TRUE)
      /\ \A name \in CheckName \ {"binding"} :
           required_check_state(item.checks[name], allow_not_applicable(name, "HardFail"))
             = required_check_state(item.checks[name], FALSE)
  BY <1>2 DEF required_check_state
<1> QED
  BY <1>1, <1>3 DEF ItemPasses, ItemFails, Sound, Broken, Passes, Fails, CheckName

-----------------------------------------------------------------------------
(* Evidence about two certificates *)

\* A path of an end entity and an intermediate, and the one item of a kind
\* about each of them.
LEMMA TwoItems ==
  ASSUME NEW r, NEW n, NEW m, NEW required, NEW kd, NEW i, NEW j,
         Certificates(r) = {n, m}, n.id # m.id,
         n.position = "EndEntity", m.position = "Intermediate", r.path_scope \in PathScope,
         required = ScopedCertificates(r),
         \A item : item \in EvidenceItems(r) /\ item.kind = kd <=> item \in {i, j},
         i.certificate_id = n.id, i.position = "EndEntity",
         j.certificate_id = m.id, j.position = "Intermediate"
  PROVE  LET state == evidence_state(required, OfKind(r, kd), "HardFail") IN
         /\ state = "Pass" <=>
              ItemPasses(n, i) /\ (r.path_scope = "CertificationPath" => ItemPasses(m, j))
         /\ state = "Fail" <=>
              ItemFails(i) \/ (r.path_scope = "CertificationPath" /\ ItemFails(j))
<1> DEFINE items == OfKind(r, kd)
<1>1. CASE r.path_scope = "EndEntity"
  <2>1. required = {n}
    BY <1>1 DEF ScopedCertificates, InScope, includes
  <2>2. items = {i}
    BY <1>1 DEF OfKind, InScope, includes
  <2> HIDE DEF items
  <2>3. evidence_state(required, items, "HardFail") = "Pass" <=> ItemPasses(n, i)
    BY <2>1, <2>2, EvidenceStatePass, EvidenceStatePasses DEF ItemPasses
  <2>4. evidence_state(required, items, "HardFail") = "Fail" <=> ItemFails(i)
    BY <2>1, <2>2, EvidenceStateFails DEF ItemFails
  <2> QED
    BY <1>1, <2>3, <2>4 DEF items
<1>2. CASE r.path_scope = "CertificationPath"
  <2>1. required = {n, m}
    BY <1>2 DEF ScopedCertificates, InScope, includes
  <2>2. items = {i, j}
    BY <1>2 DEF OfKind, InScope, includes
  <2> HIDE DEF items
  <2>3. /\ evidence_state(required, items, "HardFail") = "Pass" =>
             ItemPasses(n, i) /\ ItemPasses(m, j)
    BY <2>1, <2>2, EvidenceStatePass DEF ItemPasses
  <2>4. ASSUME ItemPasses(n, i), ItemPasses(m, j)
        PROVE  evidence_state(required, items, "HardFail") = "Pass"
    <3>1. \A c \in required :
            /\ \E item \in items : item.certificate_id = c.id
            /\ \A item \in items : item.certificate_id = c.id => ItemPasses(c, item)
      BY <2>1, <2>2, <2>4
    <3> QED
      BY <3>1, EvidenceStatePasses DEF ItemPasses
  <2>5. evidence_state(required, items, "HardFail") = "Fail" <=> ItemFails(i) \/ ItemFails(j)
    BY <2>1, <2>2, EvidenceStateFails DEF ItemFails
  <2> QED
    BY <1>2, <2>3, <2>4, <2>5 DEF items
<1> QED
  BY <1>1, <1>2 DEF PathScope

\* One certificate and the one item about it.
LEMMA OneItem ==
  ASSUME NEW r, NEW n, NEW required, NEW kd, NEW i,
         required = {n}, r.path_scope \in PathScope,
         \A item : item \in EvidenceItems(r) /\ item.kind = kd <=> item = i,
         i.certificate_id = n.id, i.position = "EndEntity"
  PROVE  LET state == evidence_state(required, OfKind(r, kd), "HardFail") IN
         /\ state = "Pass" <=> ItemPasses(n, i)
         /\ state = "Fail" <=> ItemFails(i)
<1> DEFINE items == OfKind(r, kd)
<1>1. items = {i}
  BY DEF OfKind, InScope, includes, PathScope
<1> HIDE DEF items
<1>2. evidence_state(required, items, "HardFail") = "Pass" <=> ItemPasses(n, i)
  BY <1>1, EvidenceStatePass, EvidenceStatePasses DEF ItemPasses
<1>3. evidence_state(required, items, "HardFail") = "Fail" <=> ItemFails(i)
  BY <1>1, EvidenceStateFails DEF ItemFails
<1> QED
  BY <1>2, <1>3 DEF items


-----------------------------------------------------------------------------
(* Requests *)

LEMMA JoinedPairs ==
  /\ \A a, b : <<a>> \o <<b>> = <<a, b>>
  /\ \A a, b, c, d : <<a, b>> \o <<c, d>> = <<a, b, c, d>>
<1>1. ASSUME NEW a, NEW b PROVE <<a>> \o <<b>> = <<a, b>>
  <2>1. /\ <<a>> \in Seq({a, b}) /\ <<b>> \in Seq({a, b})
        /\ <<a, b>> \in Seq({a, b}) /\ <<a>> \o <<b>> \in Seq({a, b})
    OBVIOUS
  <2>2. /\ Len(<<a>> \o <<b>>) = 2
        /\ \A i \in 1 .. 2 : (<<a>> \o <<b>>)[i] = <<a, b>>[i]
    BY <2>1
  <2> QED
    BY <2>1, <2>2, SeqEqual
<1>2. ASSUME NEW a, NEW b, NEW c, NEW d PROVE <<a, b>> \o <<c, d>> = <<a, b, c, d>>
  <2> DEFINE X == {a, b, c, d}
  <2>1. /\ <<a, b>> \in Seq(X) /\ <<c, d>> \in Seq(X)
        /\ <<a, b, c, d>> \in Seq(X) /\ <<a, b>> \o <<c, d>> \in Seq(X)
    OBVIOUS
  <2>2. /\ Len(<<a, b>> \o <<c, d>>) = 4
        /\ \A i \in 1 .. 4 : (<<a, b>> \o <<c, d>>)[i] = <<a, b, c, d>>[i]
    BY <2>1
  <2> QED
    BY <2>1, <2>2, SeqEqual
<1> QED
  BY <1>1, <1>2

LEMMA NodeFields ==
  ASSUME NEW id, NEW position, NEW key, NEW signature, NEW design, NEW der, NEW edge
  PROVE  LET n == Node(id, position, key, signature, design, der, edge) IN
         /\ n.id = <<id>> /\ n.position = position /\ n.subject_public_key_scheme = key
         /\ n.certificate_signature_scheme = signature /\ n.binding_design = design
         /\ n.der_sha256 = der /\ n.issuer_edge_sha256 = edge
BY DEF Node

LEMMA ItemFields ==
  ASSUME NEW node, NEW knd, NEW artifact, NEW operation, NEW checks, NEW method
  PROVE  LET i == Item(node, knd, artifact, operation, checks, method) IN
         /\ i.certificate_id = node.id /\ i.position = node.position /\ i.kind = knd
         /\ i.certificate_der_sha256 = node.der_sha256
         /\ i.evidence_artifact_der_sha256 = artifact
         /\ i.issuer_edge_sha256 = node.issuer_edge_sha256 /\ i.checks = checks
         /\ i.authentication_operation_id = operation
BY DEF Item

LEMMA LeafItemFields ==
  ASSUME NEW g, NEW node, NEW knd, NEW artifact, NEW operation, NEW checks, NEW method
  PROVE  LET i == LeafItem(g, node, knd, artifact, operation, checks, method) IN
         /\ i.certificate_id = node.id /\ i.position = node.position /\ i.kind = knd
         /\ i.certificate_der_sha256 = g[<<"evidence", "digest">>]
         /\ i.evidence_artifact_der_sha256 = artifact
         /\ i.issuer_edge_sha256 = g[<<"evidence", "edge">>] /\ i.checks = checks
         /\ i.authentication_operation_id = operation
BY DEF LeafItem, Item

LEMMA StackFields ==
  ASSUME NEW verdict, NEW profile, NEW selected
  PROVE  LET p == Presented(verdict, profile, selected) IN
         /\ p.verdict = verdict /\ p.validation_profile = profile
         /\ p.selected_path_source = "PresentedInput"
         /\ p.applied_validation_time = the_time /\ p.validation_time = pass
BY DEF Presented

LEMMA BuiltFields ==
  ASSUME NEW g, NEW id
  PROVE  LET p == Built(g, id) IN
         /\ p.verdict = "Accept" /\ p.validation_profile = "X509Path"
         /\ p.selected_path_source = "AdapterSelected"
         /\ p.applied_validation_time = the_time /\ p.validation_time = pass
BY DEF Built, Presented

LEMMA SubmissionFields ==
  ASSUME NEW stack, NEW anchor, NEW path, NEW pairs, NEW evidence
  PROVE  LET s == Submission(stack, anchor, path, pairs, evidence) IN
         /\ s.stack = stack /\ s.certificate_path = path
         /\ s.paired_authentications = pairs /\ s.evidence = evidence
BY DEF Submission

LEMMA RequestFields ==
  ASSUME NEW p, NEW scope, NEW s
  PROVE  LET r == Request(p, scope, s) IN
         /\ r.policy = p /\ r.path_scope = scope /\ r.validation_time = the_time
         /\ r.revocation_policy.mode = "HardFail" /\ r.stack = s.stack
         /\ r.certificate_path = s.certificate_path
         /\ r.paired_authentications = s.paired_authentications /\ r.evidence = s.evidence
BY DEF Request, crl_hard_fail

\* Two certificates of a path and two items of evidence, or four.
TwoNodes(s) == \E n, m : s.certificate_path = <<n, m>>
FewPairs(s) ==
  \/ s.paired_authentications = <<>>
  \/ \E a : s.paired_authentications = <<a>>
  \/ \E a, b : s.paired_authentications = <<a, b>>
FewItems(s) ==
  \/ \E a, b : s.evidence = <<a, b>>
  \/ \E a, b, c : s.evidence = <<a, b, c>>
  \/ \E a, b, c, d : s.evidence = <<a, b, c, d>>
Formed(s) == TwoNodes(s) /\ FewPairs(s) /\ FewItems(s)

LEMMA FormedDomains ==
  ASSUME NEW s, Formed(s)
  PROVE  /\ DOMAIN s.evidence \subseteq Nat /\ DOMAIN s.certificate_path \subseteq Nat
         /\ DOMAIN s.paired_authentications \subseteq Nat
<1>1. DOMAIN s.evidence \subseteq Nat
  BY DEF Formed, FewItems
<1>2. DOMAIN s.certificate_path \subseteq Nat
  BY DEF Formed, TwoNodes
<1>3. DOMAIN s.paired_authentications \subseteq Nat
  BY DEF Formed, FewPairs
<1> QED
  BY <1>1, <1>2, <1>3

LEMMA SubmissionFormed ==
  ASSUME NEW stack, NEW anchor, NEW n, NEW m, NEW pairs, NEW evidence,
         \/ pairs = <<>>
         \/ \E a : pairs = <<a>>
         \/ \E a, b : pairs = <<a, b>>,
         \/ \E a, b : evidence = <<a, b>>
         \/ \E a, b, c : evidence = <<a, b, c>>
         \/ \E a, b, c, d : evidence = <<a, b, c, d>>
  PROVE  Formed(Submission(stack, anchor, <<n, m>>, pairs, evidence))
BY SubmissionFields DEF Formed, TwoNodes, FewPairs, FewItems

-----------------------------------------------------------------------------
(* Submissions *)

\* The nodes of a path-scope analysis, and their evidence.
NodeOf(g, p, key, signature, design) ==
  Node(position_id(p), p, key, signature, design, g[<<p, "digest">>], g[<<p, "edge">>])

LEMMA PathNodesForm ==
  ASSUME NEW g, NEW key, NEW signature, NEW design
  PROVE  PathNodes(g, key, signature, design)
           = <<NodeOf(g, "EndEntity", key, signature, design),
               NodeOf(g, "Intermediate", key, signature, design)>>
BY DEF PathNodes, NodeOf

AtomicNode(g, p) == NodeOf(g, p, "Classical", "Hybrid", "AtomicComposite")
CatalystNode(g, p) == NodeOf(g, p, "Classical", "Classical", "Catalyst")
ChameleonNode(g, p) == NodeOf(g, p, "Classical", "Classical", "Chameleon")
PureNode(g, p) == NodeOf(g, p, "PostQuantum", "PostQuantum", "None")
RelatedNode(g, p) == NodeOf(g, p, "Classical", "Classical", "RelatedCertificate")

AtomicItems(g, p) == atomic_position_evidence(g, AtomicNode(g, p))
CatalystItems(g, p) == catalyst_position_evidence(g, CatalystNode(g, p))
ChameleonItems(g, p) == chameleon_position_evidence(g, ChameleonNode(g, p))
PureItems(g, p) == pure_position_evidence(g, PureNode(g, p))
RelatedItems(g, p) == related_position_evidence(g, RelatedNode(g, p))

\* Both items of a position.
LEMMA ItemsForm ==
  ASSUME NEW g, NEW p
  PROVE  /\ AtomicItems(g, p) = <<AtomicItems(g, p)[1], AtomicItems(g, p)[2]>>
         /\ CatalystItems(g, p) = <<CatalystItems(g, p)[1], CatalystItems(g, p)[2]>>
         /\ ChameleonItems(g, p) = <<ChameleonItems(g, p)[1], ChameleonItems(g, p)[2]>>
         /\ PureItems(g, p) = <<PureItems(g, p)[1]>>
         /\ RelatedItems(g, p) = <<RelatedItems(g, p)[1], RelatedItems(g, p)[2]>>
<1>1. AtomicItems(g, p) = <<AtomicItems(g, p)[1], AtomicItems(g, p)[2]>>
  BY DEF AtomicItems, atomic_position_evidence
<1>2. CatalystItems(g, p) = <<CatalystItems(g, p)[1], CatalystItems(g, p)[2]>>
  BY DEF CatalystItems, catalyst_position_evidence
<1>3. ChameleonItems(g, p) = <<ChameleonItems(g, p)[1], ChameleonItems(g, p)[2]>>
  BY DEF ChameleonItems, chameleon_position_evidence
<1>4. PureItems(g, p) = <<PureItems(g, p)[1]>>
  BY DEF PureItems, pure_position_evidence
<1>5. RelatedItems(g, p) = <<RelatedItems(g, p)[1], RelatedItems(g, p)[2]>>
  BY DEF RelatedItems, related_position_evidence
<1> QED
  BY <1>1, <1>2, <1>3, <1>4, <1>5

BothItems(e, f) == <<e[1], e[2], f[1], f[2]>>

LEMMA JoinedItems ==
  ASSUME NEW e, NEW f, e = <<e[1], e[2]>>, f = <<f[1], f[2]>>
  PROVE  e \o f = BothItems(e, f)
<1> DEFINE a == e[1]  b == e[2]  c == f[1]  d == f[2]
<1>1. e = <<a, b>> /\ f = <<c, d>>
  OBVIOUS
<1> HIDE DEF a, b, c, d
<1>2. <<a, b>> \o <<c, d>> = <<a, b, c, d>>
  BY JoinedPairs
<1> QED
  BY <1>1, <1>2 DEF BothItems, a, b, c, d

LEMMA AtomicForm ==
  ASSUME NEW g
  PROVE  /\ atomic_nodes(g) = <<AtomicNode(g, "EndEntity"), AtomicNode(g, "Intermediate")>>
         /\ atomic_evidence(g)
              = BothItems(AtomicItems(g, "EndEntity"), AtomicItems(g, "Intermediate"))
         /\ atomic_submission(g) =
              Submission(Presented(g[<<"path", "valid_path">>], "X509Path",
                                   g[<<"path", "selected">>]),
                         g[<<"anchor", "digest">>],
                         <<AtomicNode(g, "EndEntity"), AtomicNode(g, "Intermediate")>>, <<>>,
                         BothItems(AtomicItems(g, "EndEntity"), AtomicItems(g, "Intermediate")))
<1>1. atomic_nodes(g) = <<AtomicNode(g, "EndEntity"), AtomicNode(g, "Intermediate")>>
  BY PathNodesForm DEF atomic_nodes, AtomicNode
<1>2. atomic_evidence(g) = AtomicItems(g, "EndEntity") \o AtomicItems(g, "Intermediate")
  BY <1>1 DEF atomic_evidence, AtomicItems
<1>3. AtomicItems(g, "EndEntity") \o AtomicItems(g, "Intermediate")
        = BothItems(AtomicItems(g, "EndEntity"), AtomicItems(g, "Intermediate"))
  BY ItemsForm, JoinedItems
<1> QED
  BY <1>1, <1>2, <1>3 DEF atomic_submission

LEMMA CatalystForm ==
  ASSUME NEW g
  PROVE  catalyst_submission(g) =
           Submission(Presented(g[<<"path", "valid_path">>], "X509Path", g[<<"path", "selected">>]),
                      g[<<"anchor", "digest">>],
                      <<CatalystNode(g, "EndEntity"), CatalystNode(g, "Intermediate")>>,
                      <<>>,
                      BothItems(CatalystItems(g, "EndEntity"), CatalystItems(g, "Intermediate")))
<1> DEFINE nodes == PathNodes(g, "Classical", "Classical", "Catalyst")
<1>1. nodes = <<CatalystNode(g, "EndEntity"), CatalystNode(g, "Intermediate")>>
  BY PathNodesForm DEF CatalystNode
<1>2. catalyst_submission(g) =
        Submission(Presented(g[<<"path", "valid_path">>], "X509Path", g[<<"path", "selected">>]),
                   g[<<"anchor", "digest">>], nodes, <<>>,
                   catalyst_position_evidence(g, nodes[1]) \o catalyst_position_evidence(g,
                     nodes[2]))
  BY DEF catalyst_submission
<1>3. CatalystItems(g, "EndEntity") \o CatalystItems(g, "Intermediate")
        = BothItems(CatalystItems(g, "EndEntity"), CatalystItems(g, "Intermediate"))
  BY ItemsForm, JoinedItems
<1> HIDE DEF nodes
<1>4. /\ nodes[1] = CatalystNode(g, "EndEntity") /\ nodes[2] = CatalystNode(g, "Intermediate")
      /\ catalyst_position_evidence(g, nodes[1]) = CatalystItems(g, "EndEntity")
      /\ catalyst_position_evidence(g, nodes[2]) = CatalystItems(g, "Intermediate")
  BY <1>1 DEF CatalystItems
<1> QED
  BY <1>1, <1>2, <1>3, <1>4

LEMMA ChameleonForm ==
  ASSUME NEW g
  PROVE  chameleon_submission(g) =
           Submission(Presented(g[<<"path", "base_path">>], "X509Path", g[<<"path", "selected">>]),
                      g[<<"anchor", "digest">>],
                      <<ChameleonNode(g, "EndEntity"), ChameleonNode(g, "Intermediate")>>,
                      <<>>,
                      BothItems(ChameleonItems(g, "EndEntity"), ChameleonItems(g, "Intermediate")))
<1> DEFINE nodes == PathNodes(g, "Classical", "Classical", "Chameleon")
<1>1. nodes = <<ChameleonNode(g, "EndEntity"), ChameleonNode(g, "Intermediate")>>
  BY PathNodesForm DEF ChameleonNode
<1>2. chameleon_submission(g) =
        Submission(Presented(g[<<"path", "base_path">>], "X509Path", g[<<"path", "selected">>]),
                   g[<<"anchor", "digest">>], nodes, <<>>,
                   chameleon_position_evidence(g, nodes[1]) \o chameleon_position_evidence(g,
                     nodes[2]))
  BY DEF chameleon_submission
<1>3. ChameleonItems(g, "EndEntity") \o ChameleonItems(g, "Intermediate")
        = BothItems(ChameleonItems(g, "EndEntity"), ChameleonItems(g, "Intermediate"))
  BY ItemsForm, JoinedItems
<1> HIDE DEF nodes
<1>4. /\ nodes[1] = ChameleonNode(g, "EndEntity") /\ nodes[2] = ChameleonNode(g, "Intermediate")
      /\ chameleon_position_evidence(g, nodes[1]) = ChameleonItems(g, "EndEntity")
      /\ chameleon_position_evidence(g, nodes[2]) = ChameleonItems(g, "Intermediate")
  BY <1>1 DEF ChameleonItems
<1> QED
  BY <1>1, <1>2, <1>3, <1>4

LEMMA PureForm ==
  ASSUME NEW g
  PROVE  pure_submission(g) =
           Submission(Presented(g[<<"path", "valid_path">>], "X509Path", g[<<"path", "selected">>]),
                      g[<<"anchor", "digest">>],
                      <<PureNode(g, "EndEntity"), PureNode(g, "Intermediate")>>,
                      <<>>,
                      <<PureItems(g, "EndEntity")[1], PureItems(g, "Intermediate")[1]>>)
<1> DEFINE nodes == PathNodes(g, "PostQuantum", "PostQuantum", "None")
<1>1. nodes = <<PureNode(g, "EndEntity"), PureNode(g, "Intermediate")>>
  BY PathNodesForm DEF PureNode
<1>2. pure_submission(g) =
        Submission(Presented(g[<<"path", "valid_path">>], "X509Path", g[<<"path", "selected">>]),
                   g[<<"anchor", "digest">>], nodes, <<>>,
                   pure_position_evidence(g, nodes[1]) \o pure_position_evidence(g, nodes[2]))
  BY DEF pure_submission
<1>3. PureItems(g, "EndEntity") \o PureItems(g, "Intermediate")
        = <<PureItems(g, "EndEntity")[1], PureItems(g, "Intermediate")[1]>>
  <2> DEFINE a == PureItems(g, "EndEntity")[1]  b == PureItems(g, "Intermediate")[1]
  <2>1. PureItems(g, "EndEntity") = <<a>> /\ PureItems(g, "Intermediate") = <<b>>
    BY ItemsForm
  <2> HIDE DEF a, b
  <2>2. <<a>> \o <<b>> = <<a, b>>
    BY JoinedPairs
  <2> QED
    BY <2>1, <2>2 DEF a, b
<1> HIDE DEF nodes
<1>4. /\ nodes[1] = PureNode(g, "EndEntity") /\ nodes[2] = PureNode(g, "Intermediate")
      /\ pure_position_evidence(g, nodes[1]) = PureItems(g, "EndEntity")
      /\ pure_position_evidence(g, nodes[2]) = PureItems(g, "Intermediate")
  BY <1>1 DEF PureItems
<1> QED
  BY <1>1, <1>2, <1>3, <1>4

RelatedPair(g, p) ==
  UnpairedUse(RelatedNode(g, p), related_operation(RelatedNode(g, p)),
              g[<<RelatedNode(g, p).position, "post_quantum_digest">>])

LEMMA RelatedForm ==
  ASSUME NEW g
  PROVE  related_submission(g) =
           Submission(Presented(g[<<"path", "classical_path">>], "X509Path",
             g[<<"path", "selected">>]),
                      g[<<"anchor", "digest">>],
                      <<RelatedNode(g, "EndEntity"), RelatedNode(g, "Intermediate")>>,
                      <<RelatedPair(g, "EndEntity"), RelatedPair(g, "Intermediate")>>,
                      BothItems(RelatedItems(g, "EndEntity"), RelatedItems(g, "Intermediate")))
<1> DEFINE nodes == PathNodes(g, "Classical", "Classical", "RelatedCertificate")
<1>1. nodes = <<RelatedNode(g, "EndEntity"), RelatedNode(g, "Intermediate")>>
  BY PathNodesForm DEF RelatedNode
<1>2. related_submission(g) =
        Submission(Presented(g[<<"path", "classical_path">>], "X509Path",
          g[<<"path", "selected">>]),
                   g[<<"anchor", "digest">>], nodes,
                     <<UnpairedUse(nodes[1], related_operation(nodes[1]),
                                       g[<<nodes[1].position, "post_quantum_digest">>]),
                           UnpairedUse(nodes[2], related_operation(nodes[2]),
                                       g[<<nodes[2].position, "post_quantum_digest">>])>>,
                   related_position_evidence(g, nodes[1]) \o related_position_evidence(g, nodes[2]))
  BY DEF related_submission
<1>3. RelatedItems(g, "EndEntity") \o RelatedItems(g, "Intermediate")
        = BothItems(RelatedItems(g, "EndEntity"), RelatedItems(g, "Intermediate"))
  BY ItemsForm, JoinedItems
<1> HIDE DEF nodes
<1>4. /\ nodes[1] = RelatedNode(g, "EndEntity") /\ nodes[2] = RelatedNode(g, "Intermediate")
      /\ related_position_evidence(g, nodes[1]) = RelatedItems(g, "EndEntity")
      /\ related_position_evidence(g, nodes[2]) = RelatedItems(g, "Intermediate")
  BY <1>1 DEF RelatedItems
<1> QED
  BY <1>1, <1>2, <1>3, <1>4 DEF RelatedPair

LEMMA AllFormed ==
  ASSUME NEW k \in AllKinds, NEW g
  PROVE  LET subs == submissions(k, g) IN
         /\ DOMAIN subs = IF k = "cross_signed" THEN 1 .. 3 ELSE {1}
         /\ \A i \in DOMAIN subs : Formed(subs[i])
<1>1. Formed(atomic_submission(g)) /\ Formed(catalyst_submission(g))
      /\ Formed(chameleon_submission(g)) /\ Formed(related_submission(g))
  BY AtomicForm, CatalystForm, ChameleonForm, RelatedForm, SubmissionFormed DEF BothItems
<1>2. Formed(pure_submission(g)) /\ Formed(evaluate_atomic_route(g))
  BY AtomicForm, PureForm, SubmissionFormed DEF BothItems, evaluate_atomic_route
<1>3. Formed(evaluate_classical_route(g))
  BY SubmissionFormed DEF evaluate_classical_route
<1>4. Formed(catalyst_bouncy_castle_submission(g))
  BY SubmissionFormed DEF catalyst_bouncy_castle_submission
<1>5. Formed(related_openssl_submission(g))
  BY SubmissionFormed DEF related_openssl_submission, EndEntitySubmission,
     end_entity_certification_path, unpaired, related_openssl_evidence
<1>6. Formed(atomic_tls_submission(g))
  BY SubmissionFormed DEF atomic_tls_submission, EndEntitySubmission,
     end_entity_certification_path
<1>7. Formed(catalyst_tls_submission(g))
  BY SubmissionFormed DEF catalyst_tls_submission, EndEntitySubmission,
     end_entity_certification_path
<1>8. Formed(chameleon_tls_submission(g))
  BY SubmissionFormed DEF chameleon_tls_submission, EndEntitySubmission,
     end_entity_certification_path
<1>9. Formed(related_tls_submission(g))
  BY SubmissionFormed DEF related_tls_submission, EndEntitySubmission,
     end_entity_certification_path, unpaired, related_tls_evidence
<1>10. CASE k = "cross_signed"
  BY <1>1, <1>2, <1>3, <1>10 DEF submissions
<1>11. CASE k # "cross_signed"
  BY <1>1, <1>2, <1>4, <1>5, <1>6, <1>7, <1>8, <1>9, <1>11
     DEF submissions, AllKinds, PathScopeKinds, TlsKinds
<1> QED
  BY <1>10, <1>11

-----------------------------------------------------------------------------
(* The invariant *)

\* What the oracle was asked for an answer, and what it said.
RequestAt(i, scope) == Request(policy, scope, submissions(kind, results)[i])

LEMMA AnswerAt ==
  ASSUME AnalysisInv, answers # <<>>
  PROVE  /\ DOMAIN answers = DOMAIN submissions(kind, results)
         /\ \A i \in DOMAIN answers : \A scope \in scopes(kind) :
              answers[i][scope] = evaluate(RequestAt(i, scope))
<1> DEFINE subs == submissions(kind, results)
<1>1. answers = [i \in DOMAIN subs |->
                  [scope \in scopes(kind) |-> evaluate(Request(policy, scope, subs[i]))]]
  BY DEF AnalysisInv, AnswersEvaluated
<1> HIDE DEF subs
<1>2. /\ DOMAIN answers = DOMAIN subs
      /\ \A i \in DOMAIN answers : \A scope \in scopes(kind) :
           answers[i][scope] = evaluate(Request(policy, scope, subs[i]))
  BY <1>1
<1> QED
  BY <1>2 DEF subs, RequestAt

LEMMA RequestAtForm ==
  ASSUME AnalysisInv, answers # <<>>, NEW i \in DOMAIN answers, NEW scope
  PROVE  LET r == RequestAt(i, scope) IN
         /\ DOMAIN r.evidence \subseteq Nat /\ DOMAIN r.certificate_path \subseteq Nat
         /\ DOMAIN r.paired_authentications \subseteq Nat
<1>1. kind \in AllKinds
  BY KindsAreAnalyses DEF AnalysisInv
<1>2. i \in DOMAIN submissions(kind, results)
  BY AnswerAt
<1>3. Formed(submissions(kind, results)[i])
  BY <1>1, <1>2, AllFormed
<1> QED
  BY <1>3, FormedDomains, RequestFields DEF RequestAt

\* A refusal is one of the oracle's errors.
LEMMA RefusalsAreErrors ==
  ASSUME AnalysisInv, answers # <<>>
  PROVE  refusals \subseteq Errors
<1> SUFFICES ASSUME NEW i \in DOMAIN answers, NEW scope \in scopes(kind)
             PROVE  answers[i][scope].error \in Errors
  BY DEF refusals
<1> DEFINE r == RequestAt(i, scope)
<1>1. answers[i][scope] = evaluate(r)
  BY AnswerAt
<1>2. validate_request(r) \in Errors
  BY RequestAtForm, ValidateType
<1> HIDE DEF r
<1>3. evaluate(r).error \in {"ok", validate_request(r)}
  BY DEF evaluate, decide, Response
<1>4. "ok" \in Errors
  BY DEF Errors
<1> QED
  BY <1>1, <1>2, <1>3, <1>4

LEMMA ObserveKeeps ==
  ASSUME AnalysisInv, NEW ops, Running(ops), ops \cap {"digest", "edge", "select"} = {}, Observe
  PROVE  AnalysisInv'
<1>0. UNCHANGED <<kind, replaced, outcome, policy, answers>>
  BY DEF Observe
<1>1. surprises \in 0 .. Surprises[kind] /\ Surprises[kind] \in Nat
  BY KindsAreAnalyses DEF AnalysisInv
<1>2. CASE Record(current.nominal) /\ UNCHANGED surprises
  BY <1>0, <1>1, <1>2, RecordKeeps
<1>3. CASE /\ surprises < Surprises[kind] /\ surprises' = surprises + 1
           /\ \E value \in current.others : Record(value)
  <2>1. PICK value \in current.others : Record(value)
    BY <1>3
  <2>2. OddValue(current, value)
    BY DEF OddValue, Running
  <2>3. surprises' \in 0 .. Surprises[kind]
    BY <1>1, <1>3
  <2> QED
    BY <1>0, <2>1, <2>2, <2>3, RecordKeeps
<1> QED
  BY <1>2, <1>3 DEF Observe

LEMMA AnalysisInvNext ==
  ASSUME AnalysisInv, [AnalysisNext]_analysis_vars
  PROVE  AnalysisInv'
<1>0. surprises \in 0 .. Surprises[kind] /\ Surprises[kind] \in Nat
  BY KindsAreAnalyses DEF AnalysisInv
<1>1. CASE InspectControl
  <2>1. ASSUME Record("expected"),
               UNCHANGED <<kind, replaced, surprises, outcome, policy, answers>>
        PROVE  AnalysisInv'
    <3>1. OddValue(current, "expected")
      BY <1>1 DEF InspectControl, Running, OddValue
    <3> QED
      BY <1>0, <1>1, <2>1, <3>1, RecordKeeps DEF InspectControl
  <2>2. ASSUME EndWith("WrongScheme") PROVE AnalysisInv'
    BY <2>2, EndKeeps
  <2> QED
    BY <1>1, <2>1, <2>2 DEF InspectControl
<1>2. CASE RunAdapter
  BY <1>2, ObserveKeeps DEF RunAdapter, Modes
<1>3. CASE CheckCertificate
  BY <1>3, ObserveKeeps DEF CheckCertificate
<1>4. CASE HashFiles
  BY <1>0, <1>4, HashValue, RecordKeeps DEF HashFiles
<1>5. CASE CorruptSignature
  <2>1. OddValue(current, "written")
    BY <1>5 DEF CorruptSignature, Running, OddValue
  <2> QED
    BY <1>0, <1>5, <2>1, RecordKeeps DEF CorruptSignature
<1>6. CASE CompareRoutes
  <2>1. CASE routes_error(results) = "ok"
    <3>1. OddValue(current, "expected")
      BY <1>6 DEF CompareRoutes, Running, OddValue
    <3> QED
      BY <1>0, <1>6, <2>1, <3>1, RecordKeeps DEF CompareRoutes
  <2>2. CASE routes_error(results) # "ok"
    <3>1. routes_error(results) # "answered"
      BY DEF routes_error
    <3> QED
      BY <1>6, <2>2, <3>1, EndKeeps DEF CompareRoutes
  <2> QED
    BY <2>1, <2>2
<1>7. CASE StepFails
  BY <1>7, EndKeeps DEF StepFails
<1>8. CASE ReplaceFile
  <2>1. DOMAIN replaced' \subseteq HashedFiles[kind]
    BY <1>8 DEF ReplaceFile, Noting, AnalysisInv
  <2>2. surprises' \in 0 .. Surprises[kind]
    BY <1>0, <1>8 DEF ReplaceFile
  <2>3. answers = <<>> /\ outcome = "running"
    BY <1>8, StepsPrecedeAnswers DEF ReplaceFile, Running
  <2>4. UNCHANGED <<kind, at, odd, outcome, policy, answers>>
    BY <1>8 DEF ReplaceFile
  <2>5. OddResults'
    BY <2>4 DEF AnalysisInv, OddResults
  <2> QED
    BY <2>1, <2>2, <2>3, <2>4, <2>5 DEF AnalysisInv
<1>9. CASE Evaluate
  <2>1. UNCHANGED <<kind, at, odd, replaced, surprises, outcome>>
    BY <1>9 DEF Evaluate
  <2>2. results' = results
    BY <2>1 DEF results
  <2>3. AnswersEvaluated'
    BY <1>9, <2>1, <2>2 DEF Evaluate, AnswersEvaluated, Finished
  <2>4. OddResults' /\ outcome = "running"
    BY <1>9, <2>1 DEF AnalysisInv, OddResults, Evaluate, Finished
  <2> QED
    BY <2>1, <2>3, <2>4 DEF AnalysisInv
<1>10. CASE Refuse
  <2>1. PICK error \in refusals : EndWith(error)
    BY <1>10 DEF Refuse
  <2>2. error # "answered"
    BY <1>10, <2>1, RefusalsAreErrors DEF Refuse, Errors
  <2> QED
    BY <2>1, <2>2, EndKeeps
<1>11. CASE Report
  <2>1. UNCHANGED <<kind, at, odd, replaced, surprises, policy, answers>>
    BY <1>11 DEF Report
  <2>2. results' = results /\ refusals' = refusals
    BY <2>1 DEF results, refusals
  <2>3. OddResults' /\ (AnswersEvaluated' <=> AnswersEvaluated)
    BY <2>1, <2>2 DEF AnalysisInv, OddResults, AnswersEvaluated
  <2> QED
    BY <1>11, <2>1, <2>2, <2>3 DEF AnalysisInv, Report
<1>12. CASE UNCHANGED analysis_vars
  <2>1. UNCHANGED <<kind, at, odd, replaced, surprises, outcome, policy, answers>>
    BY <1>12 DEF analysis_vars
  <2>2. results' = results /\ refusals' = refusals
    BY <2>1 DEF results, refusals
  <2>3. OddResults' /\ (AnswersEvaluated' <=> AnswersEvaluated)
    BY <2>1, <2>2 DEF AnalysisInv, OddResults, AnswersEvaluated
  <2> QED
    BY <2>1, <2>2, <2>3 DEF AnalysisInv
<1> QED
  BY <1>1, <1>2, <1>3, <1>4, <1>5, <1>6, <1>7, <1>8, <1>9, <1>10, <1>11, <1>12
     DEF AnalysisNext

\* In every reachable state an odd result is one that the step of its name can
\* yield, and the answers are the oracle's to the requests that the results of
\* the whole analysis amount to: evaluate_scopes is never asked about half of
\* them, and nothing is reported that the oracle refused.
THEOREM AnalysisInvariant == AnalysisSpec => []AnalysisInv
<1>1. AnalysisInv /\ [AnalysisNext]_analysis_vars => AnalysisInv'
  BY AnalysisInvNext
<1> QED
  BY <1>1, AnalysisInvInit, PTL DEF AnalysisSpec

-----------------------------------------------------------------------------
(* What the results say *)

\* A result is the documented one exactly when it is not an odd one.
LEMMA ResultOf ==
  ASSUME AnalysisInv, NEW id, NEW what, NEW ops, NEW nominal, NEW others,
         Does(Table[kind], id, what, ops, nominal, others),
         ops \cap {"digest", "edge", "select", "inspect", "corrupt", "routes"} = {}
  PROVE  /\ results[<<id, what>>] = nominal <=> <<id, what>> \notin DOMAIN odd
         /\ results[<<id, what>>] \in others \cup {nominal}
<1> DEFINE name == <<id, what>>
           T == Table[kind]
<1>1. PICK i \in DOMAIN T : /\ T[i].name = name /\ T[i].op \in ops
                            /\ T[i].nominal = nominal /\ T[i].others = others
  BY DEF Does
<1>2. /\ name \in DOMAIN Nominal[kind] /\ Place[kind][name] = i
      /\ Nominal[kind][name] = nominal
  BY <1>1, NominalOfStep DEF AnalysisInv
<1>3. results[name] = IF name \in DOMAIN odd THEN odd[name] ELSE nominal
  BY <1>2 DEF results
<1>4. ASSUME name \in DOMAIN odd
      PROVE  odd[name] # nominal /\ odd[name] \in others
  <2>1. PICK j \in DOMAIN T :
          /\ T[j].name = name /\ odd[name] # T[j].nominal /\ OddValue(T[j], odd[name])
    BY <1>4 DEF AnalysisInv, OddResults
  <2>2. j = i
    BY <1>1, <2>1, TablesAreDistinct DEF Distinct, AnalysisInv
  <2>3. T[i].op \notin {"digest", "edge", "select", "inspect", "corrupt", "routes"}
    BY <1>1
  <2> QED
    BY <1>1, <2>1, <2>2, <2>3 DEF OddValue
<1> QED
  BY <1>3, <1>4

LEMMA RunResult ==
  ASSUME AnalysisInv, NEW id, NEW what, NEW v \in StackVerdict, Runs(Table[kind], id, what, v)
  PROVE  /\ results[<<id, what>>] = v <=> <<id, what>> \notin DOMAIN odd
         /\ results[<<id, what>>] \in StackVerdict
<1>1. Modes \cap {"digest", "edge", "select", "inspect", "corrupt", "routes"} = {}
  BY DEF Modes
<1> QED
  BY <1>1, ResultOf DEF Runs

LEMMA CheckedResult ==
  ASSUME AnalysisInv, NEW id, NEW what, Checked(Table[kind], id, what)
  PROVE  /\ results[<<id, what>>] = "Pass" <=> <<id, what>> \notin DOMAIN odd
         /\ results[<<id, what>>] \in {"Pass", "Fail"}
BY ResultOf DEF Checked

LEMMA HashResult ==
  ASSUME AnalysisInv, NEW id, NEW what, Hashes(Table[kind], id, what)
  PROVE  results[<<id, what>>] \in Sha256 /\ results[<<id, what>>] # None
<1> DEFINE name == <<id, what>>
           T == Table[kind]
<1>1. PICK i \in DOMAIN T : T[i].name = name /\ T[i].op \in {"digest", "edge"}
  BY DEF Hashes
<1>2. /\ name \in DOMAIN Nominal[kind] /\ Nominal[kind][name] = T[i].nominal
  BY <1>1, NominalOfStep DEF AnalysisInv
<1>3. results[name] = IF name \in DOMAIN odd THEN odd[name] ELSE T[i].nominal
  BY <1>2 DEF results
<1>4. T[i].nominal \in Sha256
  <2>1. T[i] \in Range(T) /\ kind \in Kinds
    BY DEF Range, AnalysisInv
  <2>2. Versions \in [HashedFiles[kind] -> {"v1", "v2"}]
    BY DEF Versions
  <2> QED
    BY <1>1, <2>1, <2>2, HashesAreWellFormed
<1>5. ASSUME name \in DOMAIN odd PROVE odd[name] \in Sha256
  <2>1. PICK j \in DOMAIN T : T[j].name = name /\ OddValue(T[j], odd[name])
    BY <1>5 DEF AnalysisInv, OddResults
  <2>2. j = i
    BY <1>1, <2>1, TablesAreDistinct DEF Distinct, AnalysisInv
  <2> QED
    BY <1>1, <2>1, <2>2 DEF OddValue
<1> QED
  BY <1>3, <1>4, <1>5, NoneIsNoValue

-----------------------------------------------------------------------------
(* What the evidence amounts to *)

LEMMA ItemMeans ==
  ASSUME NEW n, NEW knd, NEW artifact, NEW operation, NEW method,
         NEW signature, NEW binding, NEW path, NEW validity, NEW revocation, NEW sensitive,
         n.der_sha256 # None, n.issuer_edge_sha256 # None, artifact # None
  PROVE  LET checks == Checks(signature, binding, path, validity, revocation, sensitive)
             item == Item(n, knd, artifact, operation, checks, method)
         IN  /\ ItemPasses(n, item) <=>
                  Sound(signature, binding, path, validity, revocation, sensitive)
             /\ ItemFails(item) <=>
                  Broken(signature, binding, path, validity, revocation, sensitive)
<1> DEFINE checks == Checks(signature, binding, path, validity, revocation, sensitive)
           item == Item(n, knd, artifact, operation, checks, method)
<1>1. item.checks = checks
  BY ItemFields
<1>2. evidence_binding_state(n, item) = "Pass"
  <2>1. /\ item.certificate_der_sha256 = n.der_sha256
        /\ item.evidence_artifact_der_sha256 = artifact
        /\ item.issuer_edge_sha256 = n.issuer_edge_sha256
    BY ItemFields
  <2> HIDE DEF item
  <2> QED
    BY <2>1 DEF evidence_binding_state
<1>3. /\ checks["present"] = pass /\ checks["recognized"] = pass
      /\ checks["signature"] = signature /\ checks["binding"] = binding
      /\ checks["path"] = path /\ checks["validity"] = validity
      /\ checks["revocation"] = revocation /\ checks["decision_sensitive"] = sensitive
  BY ChecksFields
<1> HIDE DEF checks, item
<1>4. /\ item.checks["present"] = pass /\ item.checks["recognized"] = pass
      /\ item.checks["signature"] = signature /\ item.checks["binding"] = binding
      /\ item.checks["path"] = path /\ item.checks["validity"] = validity
      /\ item.checks["revocation"] = revocation /\ item.checks["decision_sensitive"] = sensitive
  BY <1>1, <1>3
<1>5. /\ ItemPasses(n, item) <=>
           Sound(signature, binding, path, validity, revocation, sensitive)
      /\ ItemFails(item) <=>
           Broken(signature, binding, path, validity, revocation, sensitive)
  BY <1>2, <1>4, ItemStates
<1> QED
  BY <1>5 DEF item, checks

\* The end entity and the intermediate, each with a classical and a
\* post-quantum item.
LEMMA BothClaims ==
  ASSUME NEW r, NEW n, NEW m, NEW ci, NEW qi, NEW cj, NEW qj,
         Certificates(r) = {n, m}, n.id # m.id, r.path_scope \in PathScope,
         n.position = "EndEntity", m.position = "Intermediate",
         r.revocation_policy.mode = "HardFail",
         requires_classical_certificate_signature_evidence(n),
         requires_classical_certificate_signature_evidence(m),
         requires_post_quantum_certificate_signature_evidence(n),
         requires_post_quantum_certificate_signature_evidence(m),
         EvidenceItems(r) = {ci, qi, cj, qj},
         ci.certificate_id = n.id, ci.position = "EndEntity", ci.kind = "Classical",
         qi.certificate_id = n.id, qi.position = "EndEntity", qi.kind = "PostQuantum",
         cj.certificate_id = m.id, cj.position = "Intermediate", cj.kind = "Classical",
         qj.certificate_id = m.id, qj.position = "Intermediate", qj.kind = "PostQuantum"
  PROVE  LET a == Aggregates(r)
             both == r.path_scope = "CertificationPath"
         IN  /\ a.has_classical
             /\ a.classical = "Pass" <=> ItemPasses(n, ci) /\ (both => ItemPasses(m, cj))
             /\ a.classical = "Fail" <=> ItemFails(ci) \/ (both /\ ItemFails(cj))
             /\ a.pq = "Pass" <=> ItemPasses(n, qi) /\ (both => ItemPasses(m, qj))
             /\ a.pq = "Fail" <=> ItemFails(qi) \/ (both /\ ItemFails(qj))
<1>1. classical_required(r) = ScopedCertificates(r) /\ pq_required(r) = ScopedCertificates(r)
  <2>1. ScopedCertificates(r) \subseteq {n, m}
    BY DEF ScopedCertificates, InScope
  <2> QED
    BY <2>1 DEF classical_required, pq_required
<1>2. classical_required(r) # {}
  BY <1>1 DEF ScopedCertificates, InScope, includes, PathScope
<1>3. \A item : item \in EvidenceItems(r) /\ item.kind = "Classical" <=> item \in {ci, cj}
  OBVIOUS
<1>4. \A item : item \in EvidenceItems(r) /\ item.kind = "PostQuantum" <=> item \in {qi, qj}
  OBVIOUS
<1>5. LET state == evidence_state(classical_required(r), OfKind(r, "Classical"), "HardFail") IN
      /\ state = "Pass" <=>
           ItemPasses(n, ci) /\ (r.path_scope = "CertificationPath" => ItemPasses(m, cj))
      /\ state = "Fail" <=>
           ItemFails(ci) \/ (r.path_scope = "CertificationPath" /\ ItemFails(cj))
  BY <1>1, <1>3, TwoItems
<1>6. LET state == evidence_state(pq_required(r), OfKind(r, "PostQuantum"), "HardFail") IN
      /\ state = "Pass" <=>
           ItemPasses(n, qi) /\ (r.path_scope = "CertificationPath" => ItemPasses(m, qj))
      /\ state = "Fail" <=>
           ItemFails(qi) \/ (r.path_scope = "CertificationPath" /\ ItemFails(qj))
  BY <1>1, <1>4, TwoItems
<1> QED
  BY <1>2, <1>5, <1>6, AggregateFields

\* Certificates with a hybrid signature of their own.
LEMMA HybridDesign ==
  ASSUME NEW r, \A c \in Certificates(r) : has_hybrid_certificate_signature_design(c)
  PROVE  Aggregates(r).design = "Pass"
<1> DEFINE states == UNION {design_states(r, c) : c \in ScopedCertificates(r)}
<1>1. \A c \in ScopedCertificates(r) : design_states(r, c) = {"Pass"}
  BY DEF ScopedCertificates, InScope, design_states
<1>2. \A s \in states : s = "Pass"
  BY <1>1
<1> HIDE DEF states
<1>3. Worst(states) = "Pass"
  BY <1>2 DEF Worst
<1> QED
  BY <1>3, AggregateFields DEF states, hybrid_authentication_design_state

\* A certificate of no hybrid design, whose use with another is not known.
LEMMA FailedDesign ==
  ASSUME NEW r, NEW c \in ScopedCertificates(r), "Fail" \in design_states(r, c)
  PROVE  Aggregates(r).design = "Fail"
BY AggregateFields DEF hybrid_authentication_design_state, Worst

\* What the analyses' requests have in common.
Stacked(r) ==
  /\ r.stack.verdict \in StackVerdict
  /\ r.stack.validation_profile \in {"X509Path", "WebPkiServer"}
  /\ r.stack.validation_time = pass
  /\ r.stack.applied_validation_time = r.validation_time
  /\ \A c \in Certificates(r) : ~has_unknown_crypto_property(c)

LEMMA StackStates ==
  ASSUME NEW r, Stacked(r), r.stack.verdict # "Unsupported"
  PROVE  /\ Aggregates(r).stack \in {"Pass", "Fail", "Indeterminate"}
         /\ Aggregates(r).stack = "Pass" <=> r.stack.verdict = "Accept"
         /\ Aggregates(r).stack = "Fail" <=> r.stack.verdict = "Reject"
         /\ Aggregates(r).profile = "Pass"
<1>1. required_check_state(r.stack.validation_time, FALSE) = "Pass"
  BY CheckStates DEF Stacked, pass, Passes
<1>2. stack_state(r) = CASE r.stack.verdict = "Accept" -> "Pass"
                         [] r.stack.verdict = "Reject" -> "Fail"
                         [] OTHER -> "Indeterminate"
  BY <1>1 DEF stack_state, Stacked, StackVerdict
<1>3. Aggregates(r).stack = stack_state(r)
  BY AggregateFields
<1>4. Aggregates(r).profile = "Pass"
  BY AggregateFields DEF authentication_profile_state, Stacked
<1> QED
  BY <1>2, <1>3, <1>4

\* The verdicts of the policies on such a request.
LEMMA VerdictsOf ==
  ASSUME NEW r, Stacked(r), validate_request(r) = "ok", r.policy \in Policy
  PROVE  LET v == evaluate(r).policy_verdict
             a == Aggregates(r)
             accept == r.stack.verdict = "Accept"
             reject == r.stack.verdict = "Reject"
         IN  /\ r.stack.verdict = "Unsupported" => v = "Unsupported"
             /\ v = "HybridClaimSetSatisfied" <=>
                  /\ accept /\ a.design = "Pass" /\ a.classical = "Pass" /\ a.pq = "Pass"
                  /\ a.path = "Pass"
                  /\ \/ r.policy = "P2RequiredHybrid"
                     \/ r.policy = "P1OptionalHybrid" /\ a.has_classical
             /\ r.policy = "P0Classical" =>
                  (v = "ClassicalClaimSetSatisfied" <=>
                     accept /\ a.has_classical /\ a.classical = "Pass")
             /\ v = "Reject" <=>
                  /\ r.stack.verdict # "Unsupported"
                  /\ \/ /\ r.policy \in {"P0Classical", "P1OptionalHybrid"}
                        /\ ~a.has_classical \/ a.classical = "Fail" \/ reject
                     \/ /\ r.policy = "P2RequiredHybrid"
                        /\ a.design = "Fail" \/ a.classical = "Fail" \/ a.pq = "Fail" \/ reject
<1> DEFINE a == Aggregates(r)
           v == evaluate(r).policy_verdict
<1>0. unsupported(r) <=> r.stack.verdict = "Unsupported"
  BY DEF unsupported, Stacked, ScopedCertificates, InScope
<1>1. CASE r.stack.verdict = "Unsupported"
  <2>1. evaluate(r).policy_verdict = "Unsupported"
    BY <1>0, <1>1, Decided
  <2> QED
    BY <1>1, <2>1
<1>2. CASE r.stack.verdict # "Unsupported"
  <2>1. v = policy_verdict(r.policy, a)
    BY <1>0, <1>2, Decided
  <2>2. /\ a.stack = "Pass" <=> r.stack.verdict = "Accept"
        /\ a.stack = "Fail" <=> r.stack.verdict = "Reject"
        /\ a.profile = "Pass"
    BY <1>2, StackStates
  <2>3. classical_authentication_succeeded(a) <=>
          a.has_classical /\ r.stack.verdict = "Accept" /\ a.classical = "Pass"
    BY <2>2 DEF classical_authentication_succeeded
  <2>4. AllPass(a) <=> /\ r.stack.verdict = "Accept" /\ a.design = "Pass"
                       /\ a.classical = "Pass" /\ a.pq = "Pass" /\ a.path = "Pass"
    BY <2>2 DEF AllPass
  <2>5. a.has_classical \in BOOLEAN
    BY AggregateFields
  <2> HIDE DEF a, v
  <2>6. CASE r.policy = "P0Classical"
    <3>1. v = p0_verdict(a)
      BY <2>1, <2>6 DEF policy_verdict
    <3> QED
      BY <1>2, <2>2, <2>3, <2>6, <3>1 DEF p0_verdict, a, v
  <2>7. CASE r.policy = "P1OptionalHybrid"
    <3>1. v = p1_verdict(a)
      BY <2>1, <2>7 DEF policy_verdict
    <3> QED
      BY <1>2, <2>2, <2>3, <2>4, <2>7, <3>1 DEF p1_verdict, a, v
  <2>8. CASE r.policy = "P2RequiredHybrid"
    <3>1. v = p2_verdict(a)
      BY <2>1, <2>8 DEF policy_verdict
    <3> QED
      BY <1>2, <2>2, <2>3, <2>4, <2>8, <3>1 DEF p2_verdict, a, v
  <2>9. CASE r.policy = "P3Continuity"
    BY <1>2, <2>1, <2>9 DEF policy_verdict, a, v
  <2> QED
    BY <2>6, <2>7, <2>8, <2>9 DEF Policy
<1> QED
  BY <1>1, <1>2

-----------------------------------------------------------------------------
(* The atomic route *)

LEMMA TupleRange ==
  /\ \A a, b : Range(<<a, b>>) = {a, b}
  /\ \A a, b, c : Range(<<a, b, c>>) = {a, b, c}
  /\ \A a, b, c, d : Range(<<a, b, c, d>>) = {a, b, c, d}
<1>1. ASSUME NEW a, NEW b PROVE Range(<<a, b>>) = {a, b}
  BY DEF Range
<1>2. ASSUME NEW a, NEW b, NEW c PROVE Range(<<a, b, c>>) = {a, b, c}
  BY DEF Range
<1>3. ASSUME NEW a, NEW b, NEW c, NEW d PROVE Range(<<a, b, c, d>>) = {a, b, c, d}
  BY DEF Range
<1> QED
  BY <1>1, <1>2, <1>3

\* The classical and the post-quantum item of a node.
ItemsOf(n, e) ==
  /\ e[1].certificate_id = n.id /\ e[1].position = n.position /\ e[1].kind = "Classical"
  /\ e[2].certificate_id = n.id /\ e[2].position = n.position /\ e[2].kind = "PostQuantum"

\* The nodes and the items of the leaf and of the intermediate of a request.
LEMMA RequestClaims ==
  ASSUME NEW p, NEW scope \in PathScope, NEW s, NEW n, NEW m, NEW e, NEW f,
         s.certificate_path = <<n, m>>, s.evidence = BothItems(e, f),
         n.id # m.id, n.position = "EndEntity", m.position = "Intermediate",
         ItemsOf(n, e), ItemsOf(m, f),
         requires_classical_certificate_signature_evidence(n),
         requires_classical_certificate_signature_evidence(m),
         requires_post_quantum_certificate_signature_evidence(n),
         requires_post_quantum_certificate_signature_evidence(m)
  PROVE  LET r == Request(p, scope, s)
             a == Aggregates(r)
             both == scope = "CertificationPath"
         IN  /\ Certificates(r) = {n, m}
             /\ a.has_classical
             /\ a.classical = "Pass" <=> ItemPasses(n, e[1]) /\ (both => ItemPasses(m, f[1]))
             /\ a.classical = "Fail" <=> ItemFails(e[1]) \/ (both /\ ItemFails(f[1]))
             /\ a.pq = "Pass" <=> ItemPasses(n, e[2]) /\ (both => ItemPasses(m, f[2]))
             /\ a.pq = "Fail" <=> ItemFails(e[2]) \/ (both /\ ItemFails(f[2]))
<1> DEFINE r == Request(p, scope, s)
<1>1. /\ r.path_scope = scope /\ r.revocation_policy.mode = "HardFail"
      /\ r.certificate_path = <<n, m>> /\ r.evidence = BothItems(e, f)
  BY RequestFields
<1> HIDE DEF r
<1>2. Certificates(r) = {n, m}
  BY <1>1, TupleRange DEF Certificates
<1>3. EvidenceItems(r) = {e[1], e[2], f[1], f[2]}
  BY <1>1, TupleRange DEF EvidenceItems, BothItems
<1> DEFINE ci == e[1]  qi == e[2]  cj == f[1]  qj == f[2]
<1>4. /\ ci.certificate_id = n.id /\ ci.position = "EndEntity" /\ ci.kind = "Classical"
      /\ qi.certificate_id = n.id /\ qi.position = "EndEntity" /\ qi.kind = "PostQuantum"
      /\ cj.certificate_id = m.id /\ cj.position = "Intermediate" /\ cj.kind = "Classical"
      /\ qj.certificate_id = m.id /\ qj.position = "Intermediate" /\ qj.kind = "PostQuantum"
  BY DEF ItemsOf
<1>5. EvidenceItems(r) = {ci, qi, cj, qj}
  BY <1>3
<1> HIDE DEF ci, qi, cj, qj
<1>6. LET a == Aggregates(r)
          both == r.path_scope = "CertificationPath"
      IN  /\ a.has_classical
          /\ a.classical = "Pass" <=> ItemPasses(n, ci) /\ (both => ItemPasses(m, cj))
          /\ a.classical = "Fail" <=> ItemFails(ci) \/ (both /\ ItemFails(cj))
          /\ a.pq = "Pass" <=> ItemPasses(n, qi) /\ (both => ItemPasses(m, qj))
          /\ a.pq = "Fail" <=> ItemFails(qi) \/ (both /\ ItemFails(qj))
  BY <1>1, <1>2, <1>4, <1>5, BothClaims
<1> QED
  BY <1>1, <1>2, <1>6 DEF r, ci, qi, cj, qj

LEMMA NodeOfFields ==
  ASSUME NEW g, NEW p \in {"EndEntity", "Intermediate"}, NEW key, NEW signature, NEW design
  PROVE  LET n == NodeOf(g, p, key, signature, design) IN
         /\ n.position = p /\ n.subject_public_key_scheme = key
         /\ n.certificate_signature_scheme = signature /\ n.binding_design = design
         /\ n.der_sha256 = g[<<p, "digest">>] /\ n.issuer_edge_sha256 = g[<<p, "edge">>]
         /\ n.id = IF p = "EndEntity" THEN <<"leaf">> ELSE <<"intermediate">>
BY NodeFields DEF NodeOf, position_id

\* The digests of leaf and intermediate.
Digested(g) ==
  \A p \in {"EndEntity", "Intermediate"} :
    g[<<p, "digest">>] # None /\ g[<<p, "edge">>] # None

LEMMA AtomicMeans ==
  ASSUME NEW g, NEW p \in {"EndEntity", "Intermediate"}, Digested(g)
  PROVE  LET n == AtomicNode(g, p)
             e == AtomicItems(g, p)
             common == /\ g[<<p, "valid_signature">>] = "Accept"
                       /\ g[<<"path", "valid_path">>] = "Accept"
                       /\ g[<<p, "validity">>] = "Pass" /\ g[<<p, "crl">>] = "Accept"
             refuted == \/ g[<<p, "valid_signature">>] = "Reject"
                        \/ g[<<"path", "valid_path">>] = "Reject"
                        \/ g[<<p, "validity">>] \in {"Fail", "NotApplicable"}
                        \/ g[<<p, "crl">>] = "Reject"
             unmoved == /\ g[<<"path", "valid_path">>] = "Accept"
                        /\ g[<<p, "valid_signature">>] = "Accept"
         IN  /\ ItemsOf(n, e)
             /\ ItemPasses(n, e[1]) <=>
                  /\ common /\ g[<<p, "invalid_classical_signature">>] = "Reject"
                  /\ g[<<p, "invalid_classical_path">>] = "Reject"
             /\ ItemFails(e[1]) <=>
                  \/ refuted
                  \/ /\ unmoved /\ g[<<p, "invalid_classical_signature">>] = "Reject"
                     /\ g[<<p, "invalid_classical_path">>] = "Accept"
             /\ ItemPasses(n, e[2]) <=>
                  /\ common /\ g[<<p, "invalid_post_quantum_signature">>] = "Reject"
                  /\ g[<<p, "invalid_post_quantum_path">>] = "Reject"
             /\ ItemFails(e[2]) <=>
                  \/ refuted
                  \/ /\ unmoved /\ g[<<p, "invalid_post_quantum_signature">>] = "Reject"
                     /\ g[<<p, "invalid_post_quantum_path">>] = "Accept"
<1> DEFINE n == AtomicNode(g, p)
           e == AtomicItems(g, p)
           signature == check_from_verdict(g[<<p, "valid_signature">>])
           path == check_from_verdict(g[<<"path", "valid_path">>])
           validity == observed(g[<<p, "validity">>])
           crl == check_from_verdict(g[<<p, "crl">>])
           classical == atomic_outcome(g, p, "invalid_classical_signature",
                                       "invalid_classical_path")
           pq == atomic_outcome(g, p, "invalid_post_quantum_signature",
                                "invalid_post_quantum_path")
           x == Checks(signature, not_applicable, path, validity, crl, classical)
           y == Checks(signature, not_applicable, path, validity, crl, pq)
<1>1. /\ n.position = p /\ n.der_sha256 # None /\ n.issuer_edge_sha256 # None
  BY NodeOfFields DEF AtomicNode, Digested
<1>2. e = <<Item(n, "Classical", n.der_sha256, None, x, "Crl"),
            Item(n, "PostQuantum", n.der_sha256, None, y, "Crl")>>
  <2> HIDE DEF n
  <2>1. e = atomic_position_evidence(g, n)
    BY DEF AtomicItems, n
  <2> QED
    BY <1>1, <2>1 DEF atomic_position_evidence
<1>3. /\ Passes(signature, FALSE) <=> g[<<p, "valid_signature">>] = "Accept"
      /\ Fails(signature, FALSE) <=> g[<<p, "valid_signature">>] = "Reject"
      /\ Passes(path, FALSE) <=> g[<<"path", "valid_path">>] = "Accept"
      /\ Fails(path, FALSE) <=> g[<<"path", "valid_path">>] = "Reject"
      /\ Passes(crl, FALSE) <=> g[<<p, "crl">>] = "Accept"
      /\ Fails(crl, FALSE) <=> g[<<p, "crl">>] = "Reject"
  BY VerdictStates
<1>4. /\ Passes(validity, FALSE) <=> g[<<p, "validity">>] = "Pass"
      /\ Fails(validity, FALSE) <=> g[<<p, "validity">>] \in {"Fail", "NotApplicable"}
      /\ Passes(not_applicable, TRUE) /\ ~Fails(not_applicable, TRUE)
  BY CheckStates DEF not_applicable
<1>5. /\ Passes(classical, FALSE) <=>
           /\ g[<<"path", "valid_path">>] = "Accept" /\ g[<<p, "valid_signature">>] = "Accept"
           /\ g[<<p, "invalid_classical_signature">>] = "Reject"
           /\ g[<<p, "invalid_classical_path">>] = "Reject"
      /\ Fails(classical, FALSE) <=>
           /\ g[<<"path", "valid_path">>] = "Accept" /\ g[<<p, "valid_signature">>] = "Accept"
           /\ g[<<p, "invalid_classical_signature">>] = "Reject"
           /\ g[<<p, "invalid_classical_path">>] = "Accept"
  BY OutcomeStates DEF atomic_outcome
<1>6. /\ Passes(pq, FALSE) <=>
           /\ g[<<"path", "valid_path">>] = "Accept" /\ g[<<p, "valid_signature">>] = "Accept"
           /\ g[<<p, "invalid_post_quantum_signature">>] = "Reject"
           /\ g[<<p, "invalid_post_quantum_path">>] = "Reject"
      /\ Fails(pq, FALSE) <=>
           /\ g[<<"path", "valid_path">>] = "Accept" /\ g[<<p, "valid_signature">>] = "Accept"
           /\ g[<<p, "invalid_post_quantum_signature">>] = "Reject"
           /\ g[<<p, "invalid_post_quantum_path">>] = "Accept"
  BY OutcomeStates DEF atomic_outcome
<1> HIDE DEF n, e, signature, path, validity, crl, classical, pq
<1>7. ItemsOf(n, e)
  BY <1>2, ItemFields DEF ItemsOf
<1>8. /\ ItemPasses(n, e[1]) <=> Sound(signature, not_applicable, path, validity, crl, classical)
      /\ ItemFails(e[1]) <=> Broken(signature, not_applicable, path, validity, crl, classical)
  BY <1>1, <1>2, ItemMeans
<1>9. /\ ItemPasses(n, e[2]) <=> Sound(signature, not_applicable, path, validity, crl, pq)
      /\ ItemFails(e[2]) <=> Broken(signature, not_applicable, path, validity, crl, pq)
  BY <1>1, <1>2, ItemMeans
<1> QED
  BY <1>3, <1>4, <1>5, <1>6, <1>7, <1>8, <1>9 DEF Sound, Broken, n, e

\* The result of the step, as documented unless it is odd.
As(id, what, v) == results[<<id, what>>] = v <=> <<id, what>> \notin DOMAIN odd
Ran(id, what, v) == As(id, what, v) /\ results[<<id, what>>] \in StackVerdict
Held(id, what) == As(id, what, "Pass") /\ results[<<id, what>>] \in {"Pass", "Fail"}

LEMMA ResultsAre ==
  ASSUME AnalysisInv, NEW id, NEW what
  PROVE  /\ \A v \in StackVerdict : Runs(Table[kind], id, what, v) => Ran(id, what, v)
         /\ Checked(Table[kind], id, what) => Held(id, what)
         /\ Hashes(Table[kind], id, what) => results[<<id, what>>] # None
BY RunResult, CheckedResult, HashResult DEF Ran, Held, As

AtomicResults(p) ==
  /\ Ran(p, "valid_signature", "Accept") /\ Ran(p, "invalid_classical_signature", "Reject")
  /\ Ran(p, "invalid_post_quantum_signature", "Reject")
  /\ Ran(p, "invalid_classical_path", "Reject")
  /\ Ran(p, "invalid_post_quantum_path", "Reject")
  /\ Held(p, "validity") /\ Ran(p, "crl", "Accept")
  /\ results[<<p, "digest">>] # None /\ results[<<p, "edge">>] # None

LEMMA AtomicResultsAre ==
  ASSUME AnalysisInv, NEW p, AtomicAt(Table[kind], p)
  PROVE  AtomicResults(p)
<1>1. {"Accept", "Reject"} \subseteq StackVerdict
  BY DEF StackVerdict
<1> QED
  BY <1>1, ResultsAre DEF AtomicAt, AtomicResults

\* What is known of the results of an atomic analysis.
LEMMA AtomicKnown ==
  ASSUME AnalysisInv, kind \in {"atomic", "cross_signed"}
  PROVE  /\ Ran("path", "valid_path", "Accept")
         /\ AtomicResults("EndEntity") /\ AtomicResults("Intermediate") /\ Digested(results)
<1>1. Table[kind] = StepsOf(kind)
  BY TablesAreDistinct DEF AnalysisInv
<1>2. Part(atomic_steps, Table[kind])
  BY <1>1, CrossTable DEF StepsOf, Part
<1>3. /\ Runs(Table[kind], "path", "valid_path", "Accept")
      /\ AtomicAt(Table[kind], "EndEntity") /\ AtomicAt(Table[kind], "Intermediate")
  BY <1>2, AtomicTable, AtomicPart, PartRuns
<1>4. "Accept" \in StackVerdict
  BY DEF StackVerdict
<1>5. AtomicResults("EndEntity") /\ AtomicResults("Intermediate")
  BY <1>3, AtomicResultsAre
<1> QED
  BY <1>3, <1>4, <1>5, ResultsAre DEF AtomicResults, Digested

\* Nothing odd at the positions in scope.
LEMMA NoneOddAt ==
  ASSUME NEW scope \in PathScope, NEW W
  PROVE  DOMAIN odd \cap AtPositions(scope, W) = {} <=>
           \A w \in W : /\ <<"EndEntity", w>> \notin DOMAIN odd
                        /\ scope = "CertificationPath" => <<"Intermediate", w>> \notin DOMAIN odd
<1>1. InScopeOf(scope) = IF scope = "CertificationPath" THEN {"EndEntity", "Intermediate"}
                         ELSE {"EndEntity"}
  BY DEF InScopeOf, includes, PathScope
<1> DEFINE D == DOMAIN odd
           S == InScopeOf(scope)
           N == AtPositions(scope, W)
<1>2. N = {<<p, w>> : p \in S, w \in W}
  BY DEF AtPositions
<1> HIDE DEF D, S, N
<1>3. D \cap N = {} <=> \A p \in S : \A w \in W : <<p, w>> \notin D
  <2>1. ASSUME D \cap N = {}, NEW p \in S, NEW w \in W PROVE <<p, w>> \notin D
    <3>1. <<p, w>> \in N
      BY <1>2
    <3> QED
      BY <2>1, <3>1, Zenon
  <2>2. ASSUME \A p \in S : \A w \in W : <<p, w>> \notin D, NEW x \in D \cap N PROVE FALSE
    <3>1. PICK p \in S, w \in W : x = <<p, w>>
      BY <1>2
    <3> QED
      BY <2>2, <3>1, Zenon
  <2> QED
    BY <2>1, <2>2, Zenon
<1>4. CASE scope = "CertificationPath"
  <2>1. S = {"EndEntity", "Intermediate"}
    BY <1>1, <1>4 DEF S
  <2> QED
    BY <1>3, <1>4, <2>1, Zenon DEF D, N
<1>5. CASE scope # "CertificationPath"
  <2>1. S = {"EndEntity"}
    BY <1>1, <1>5 DEF S
  <2> QED
    BY <1>3, <1>5, <2>1, Zenon DEF D, N
<1> QED
  BY <1>4, <1>5

\* An analysis of a path that was presented earns no hybrid verdict.
LEMMA PresentedIsNotHybrid ==
  ASSUME NEW r, r.stack.selected_path_source = "PresentedInput", validate_request(r) = "ok"
  PROVE  evaluate(r).policy_verdict # "HybridClaimSetSatisfied"
<1>1. Aggregates(r)["path"] # "Pass"
  <2>1. Aggregates(r).path = validated_path_state(r)
    BY AggregateFields
  <2> QED
    BY <2>1 DEF validated_path_state
<1>2. ~AllPass(Aggregates(r))
  BY <1>1 DEF AllPass
<1>3. policy_verdict(r.policy, Aggregates(r)) # "HybridClaimSetSatisfied"
  BY <1>2, VerdictMeans DEF policy_verdict
<1>4. CASE unsupported(r)
  BY <1>4, Decided
<1>5. CASE ~unsupported(r)
  BY <1>3, <1>5, Decided
<1> QED
  BY <1>4, <1>5

LEMMA PresentedSource ==
  ASSUME NEW verdict, NEW profile, NEW selected, NEW anchor, NEW path, NEW pairs, NEW evidence
  PROVE  Submission(Presented(verdict, profile, selected), anchor, path, pairs, evidence)
           .stack.selected_path_source = "PresentedInput"
BY StackFields, SubmissionFields

LEMMA PresentedSubmissions ==
  ASSUME NEW k \in AllKinds, NEW g, NEW i \in DOMAIN submissions(k, g),
         k # "cross_signed" \/ i = 1
  PROVE  submissions(k, g)[i].stack.selected_path_source = "PresentedInput"
<1>0. i = 1
  BY AllFormed
<1>1. atomic_submission(g).stack.selected_path_source = "PresentedInput"
  BY PresentedSource DEF atomic_submission
<1>2. catalyst_submission(g).stack.selected_path_source = "PresentedInput"
  BY PresentedSource DEF catalyst_submission
<1>3. chameleon_submission(g).stack.selected_path_source = "PresentedInput"
  BY PresentedSource DEF chameleon_submission
<1>4. pure_submission(g).stack.selected_path_source = "PresentedInput"
  BY PresentedSource DEF pure_submission
<1>5. related_submission(g).stack.selected_path_source = "PresentedInput"
  BY PresentedSource DEF related_submission
<1>6. catalyst_bouncy_castle_submission(g).stack.selected_path_source = "PresentedInput"
  BY PresentedSource DEF catalyst_bouncy_castle_submission
<1>7. related_openssl_submission(g).stack.selected_path_source = "PresentedInput"
  BY PresentedSource DEF related_openssl_submission, EndEntitySubmission
<1>8. atomic_tls_submission(g).stack.selected_path_source = "PresentedInput"
  BY PresentedSource DEF atomic_tls_submission, EndEntitySubmission
<1>9. catalyst_tls_submission(g).stack.selected_path_source = "PresentedInput"
  BY PresentedSource DEF catalyst_tls_submission, EndEntitySubmission
<1>10. chameleon_tls_submission(g).stack.selected_path_source = "PresentedInput"
  BY PresentedSource DEF chameleon_tls_submission, EndEntitySubmission
<1>11. related_tls_submission(g).stack.selected_path_source = "PresentedInput"
  BY PresentedSource DEF related_tls_submission, EndEntitySubmission
<1>12. CASE k = "cross_signed"
  BY <1>0, <1>1, <1>12 DEF submissions
<1>13. CASE k # "cross_signed"
  BY <1>0, <1>1, <1>2, <1>3, <1>4, <1>5, <1>6, <1>7, <1>8, <1>9, <1>10, <1>11, <1>13
     DEF submissions, AllKinds, PathScopeKinds, TlsKinds
<1> QED
  BY <1>12, <1>13

\* What a final answer was given to.
LEMMA AnsweredAt ==
  ASSUME AnalysisInv, Answered, NEW i \in DOMAIN answers, NEW scope \in scopes(kind)
  PROVE  LET r == RequestAt(i, scope) IN
         /\ answers[i][scope] = evaluate(r) /\ validate_request(r) = "ok"
         /\ i \in DOMAIN submissions(kind, results) /\ kind \in AllKinds /\ kind \in Kinds
         /\ r.policy = policy /\ r.path_scope = scope /\ policy \in Policy /\ scope \in PathScope
         /\ policy \in policies(kind) /\ answers # <<>>
<1> DEFINE r == RequestAt(i, scope)
<1>1. answers # <<>> /\ refusals = {}
  BY DEF AnalysisInv, Answered
<1>2. /\ answers[i][scope] = evaluate(r) /\ i \in DOMAIN submissions(kind, results)
  BY <1>1, AnswerAt
<1>3. answers[i][scope].error = "ok"
  <2> SUFFICES ASSUME answers[i][scope].error # "ok" PROVE FALSE
    OBVIOUS
  <2>1. answers[i][scope].error \in refusals
    BY SMT DEF refusals
  <2> QED
    BY <1>1, <2>1
<1>4. r.policy = policy /\ r.path_scope = scope
  BY RequestFields DEF RequestAt
<1>5. kind \in AllKinds /\ kind \in Kinds
  BY KindsAreAnalyses DEF AnalysisInv
<1>6. policy \in Policy /\ policy \in policies(kind)
  BY <1>1 DEF AnalysisInv, AnswersEvaluated, policies, Policy
<1>7. scope \in PathScope
  BY DEF scopes, PathScope
<1> HIDE DEF r
<1>8. validate_request(r) = "ok"
  BY <1>2, <1>3 DEF evaluate, Response
<1> QED
  BY <1>1, <1>2, <1>4, <1>5, <1>6, <1>7, <1>8 DEF r

-----------------------------------------------------------------------------
(* Hybrid verdicts *)

LEMMA NodeClaims ==
  ASSUME NEW n
  PROVE  /\ n.binding_design \in {"AtomicComposite", "Catalyst", "Chameleon"} =>
              /\ requires_classical_certificate_signature_evidence(n)
              /\ requires_post_quantum_certificate_signature_evidence(n)
              /\ has_hybrid_certificate_signature_design(n)
         /\ n.certificate_signature_scheme = "Classical" /\ n.binding_design = "None" =>
              /\ requires_classical_certificate_signature_evidence(n)
              /\ ~requires_post_quantum_certificate_signature_evidence(n)
              /\ ~has_hybrid_certificate_signature_design(n)
         /\ n.certificate_signature_scheme = "Classical"
              /\ n.binding_design = "RelatedCertificate" =>
              /\ requires_classical_certificate_signature_evidence(n)
              /\ requires_post_quantum_certificate_signature_evidence(n)
              /\ ~has_hybrid_certificate_signature_design(n)
         /\ n.certificate_signature_scheme = "PostQuantum" /\ n.binding_design = "None" =>
              /\ ~requires_classical_certificate_signature_evidence(n)
              /\ requires_post_quantum_certificate_signature_evidence(n)
              /\ ~has_hybrid_certificate_signature_design(n)
         /\ /\ n.subject_public_key_scheme \in {"Classical", "PostQuantum"}
            /\ n.certificate_signature_scheme \in {"Classical", "PostQuantum", "Hybrid"}
            /\ n.binding_design \in {"None", "AtomicComposite", "Catalyst", "Chameleon",
                                     "RelatedCertificate"}
            => ~has_unknown_crypto_property(n)
BY DEF requires_classical_certificate_signature_evidence, is_classical, is_post_quantum,
   requires_post_quantum_certificate_signature_evidence, has_unknown_crypto_property,
   has_hybrid_certificate_signature_design, is_hybrid_certificate_signature_design

\* A submission with the nodes and the evidence of the atomic analysis.
LEMMA AtomicClaims ==
  ASSUME NEW g, Digested(g), NEW p, NEW scope \in PathScope, NEW s,
         s.certificate_path = <<AtomicNode(g, "EndEntity"), AtomicNode(g, "Intermediate")>>,
         s.evidence = BothItems(AtomicItems(g, "EndEntity"), AtomicItems(g, "Intermediate"))
  PROVE  LET r == Request(p, scope, s)
             a == Aggregates(r)
             n == AtomicNode(g, "EndEntity")
             m == AtomicNode(g, "Intermediate")
             e == AtomicItems(g, "EndEntity")
             f == AtomicItems(g, "Intermediate")
             both == scope = "CertificationPath"
         IN  /\ Certificates(r) = {n, m}
             /\ a.has_classical /\ a.design = "Pass"
             /\ \A c \in Certificates(r) :
                  /\ ~has_unknown_crypto_property(c)
                  /\ c.der_sha256 # None /\ c.issuer_edge_sha256 # None
                  /\ c.position \in {"EndEntity", "Intermediate"}
             /\ n.position = "EndEntity"
             /\ a.classical = "Pass" <=> ItemPasses(n, e[1]) /\ (both => ItemPasses(m, f[1]))
             /\ a.classical = "Fail" <=> ItemFails(e[1]) \/ (both /\ ItemFails(f[1]))
             /\ a.pq = "Pass" <=> ItemPasses(n, e[2]) /\ (both => ItemPasses(m, f[2]))
             /\ a.pq = "Fail" <=> ItemFails(e[2]) \/ (both /\ ItemFails(f[2]))
<1> DEFINE r == Request(p, scope, s)
           n == AtomicNode(g, "EndEntity")
           m == AtomicNode(g, "Intermediate")
           e == AtomicItems(g, "EndEntity")
           f == AtomicItems(g, "Intermediate")
<1>1. /\ n.position = "EndEntity" /\ n.binding_design = "AtomicComposite" /\ n.id = <<"leaf">>
      /\ n.subject_public_key_scheme = "Classical" /\ n.certificate_signature_scheme = "Hybrid"
      /\ n.der_sha256 # None /\ n.issuer_edge_sha256 # None
  BY NodeOfFields DEF AtomicNode, Digested
<1>2. /\ m.position = "Intermediate" /\ m.binding_design = "AtomicComposite"
      /\ m.id = <<"intermediate">>
      /\ m.subject_public_key_scheme = "Classical" /\ m.certificate_signature_scheme = "Hybrid"
      /\ m.der_sha256 # None /\ m.issuer_edge_sha256 # None
  BY NodeOfFields DEF AtomicNode, Digested
<1>3. ItemsOf(n, e) /\ ItemsOf(m, f)
  BY AtomicMeans
<1>4. s.certificate_path = <<n, m>> /\ s.evidence = BothItems(e, f)
  OBVIOUS
<1> HIDE DEF r, n, m, e, f
<1>5. \A c \in {n, m} : /\ requires_classical_certificate_signature_evidence(c)
                        /\ requires_post_quantum_certificate_signature_evidence(c)
                        /\ has_hybrid_certificate_signature_design(c)
                        /\ ~has_unknown_crypto_property(c)
  BY <1>1, <1>2, NodeClaims
<1>6. n.id # m.id
  BY <1>1, <1>2
<1>7. LET a == Aggregates(r)
          both == scope = "CertificationPath"
      IN  /\ Certificates(r) = {n, m}
          /\ a.has_classical
          /\ a.classical = "Pass" <=> ItemPasses(n, e[1]) /\ (both => ItemPasses(m, f[1]))
          /\ a.classical = "Fail" <=> ItemFails(e[1]) \/ (both /\ ItemFails(f[1]))
          /\ a.pq = "Pass" <=> ItemPasses(n, e[2]) /\ (both => ItemPasses(m, f[2]))
          /\ a.pq = "Fail" <=> ItemFails(e[2]) \/ (both /\ ItemFails(f[2]))
  BY <1>1, <1>2, <1>3, <1>4, <1>5, <1>6, RequestClaims DEF r
<1>8. Aggregates(r).design = "Pass"
  BY <1>5, <1>7, HybridDesign
<1>9. \A c \in Certificates(r) :
        /\ ~has_unknown_crypto_property(c)
        /\ c.der_sha256 # None /\ c.issuer_edge_sha256 # None
        /\ c.position \in {"EndEntity", "Intermediate"}
  BY <1>1, <1>2, <1>5, <1>7
<1> QED
  BY <1>1, <1>7, <1>8, <1>9 DEF r, n, m, e, f

\* An observation of the builder.
LEMMA BuiltRequest ==
  ASSUME NEW p, NEW scope, NEW s, NEW g, NEW id, s.stack = Built(g, id),
         \A c \in Certificates(Request(p, scope, s)) :
           /\ ~has_unknown_crypto_property(c)
           /\ c.der_sha256 # None /\ c.issuer_edge_sha256 # None
           /\ c.position \in {"EndEntity", "Intermediate"},
         \E c \in Certificates(Request(p, scope, s)) : c.position = "EndEntity"
  PROVE  LET r == Request(p, scope, s) IN
         Stacked(r) /\ r.stack.verdict = "Accept" /\ Aggregates(r).path = "Pass"
<1> DEFINE r == Request(p, scope, s)
<1>1. /\ r.stack.verdict = "Accept" /\ r.stack.validation_profile = "X509Path"
      /\ r.stack.selected_path_source = "AdapterSelected"
      /\ r.stack.applied_validation_time = r.validation_time /\ r.stack.validation_time = pass
  BY RequestFields, BuiltFields
<1> HIDE DEF r
<1>2. \A c \in Certificates(r) :
        /\ ~has_unknown_crypto_property(c)
        /\ c.der_sha256 # None /\ c.issuer_edge_sha256 # None
        /\ c.position \in {"EndEntity", "Intermediate"}
  BY DEF r
<1>3. \E c \in Certificates(r) : c.position = "EndEntity"
  BY DEF r
<1>4. validated_path_state(r) = "Pass"
  BY <1>1, <1>2, <1>3 DEF validated_path_state
<1>5. Stacked(r)
  BY <1>1, <1>2 DEF Stacked, StackVerdict
<1> QED
  BY <1>1, <1>4, <1>5, AggregateFields DEF r

LEMMA AtomicRouteHybrid ==
  ASSUME AnalysisInv, Answered, kind = "cross_signed", 2 \in DOMAIN answers,
         NEW scope \in scopes(kind)
  PROVE  Verdict(2, scope) = "HybridClaimSetSatisfied" <=>
           /\ policy \in {"P1OptionalHybrid", "P2RequiredHybrid"}
           /\ DOMAIN odd \cap HybridNeeds(2, scope) = {}
<1> DEFINE g == results
           s == evaluate_atomic_route(g)
           r == Request(policy, scope, s)
           a == Aggregates(r)
           n == AtomicNode(g, "EndEntity")
           m == AtomicNode(g, "Intermediate")
           e == AtomicItems(g, "EndEntity")
           f == AtomicItems(g, "Intermediate")
           both == scope = "CertificationPath"
<1>1. /\ answers[2][scope] = evaluate(r) /\ validate_request(r) = "ok"
      /\ r.policy = policy /\ policy \in Policy /\ scope \in PathScope
  <2>1. submissions(kind, g)[2] = s
    BY DEF submissions
  <2> QED
    BY <2>1, AnsweredAt DEF RequestAt
<1>2. /\ s.certificate_path = <<n, m>> /\ s.evidence = BothItems(e, f)
      /\ s.stack = Built(g, "selected")
  <2>1. s = Submission(Built(g, "selected"), g[<<"anchor", "digest">>], atomic_nodes(g), <<>>,
                       atomic_evidence(g))
    BY DEF evaluate_atomic_route
  <2>2. /\ s.certificate_path = atomic_nodes(g) /\ s.evidence = atomic_evidence(g)
        /\ s.stack = Built(g, "selected")
    BY <2>1, SubmissionFields
  <2> QED
    BY <2>2, AtomicForm
<1>3. /\ Ran("path", "valid_path", "Accept")
      /\ AtomicResults("EndEntity") /\ AtomicResults("Intermediate") /\ Digested(g)
  BY AtomicKnown
<1>4. /\ Certificates(r) = {n, m}
      /\ a.has_classical /\ a.design = "Pass"
      /\ \A c \in Certificates(r) :
           /\ ~has_unknown_crypto_property(c)
           /\ c.der_sha256 # None /\ c.issuer_edge_sha256 # None
           /\ c.position \in {"EndEntity", "Intermediate"}
      /\ n.position = "EndEntity"
      /\ a.classical = "Pass" <=> ItemPasses(n, e[1]) /\ (both => ItemPasses(m, f[1]))
      /\ a.pq = "Pass" <=> ItemPasses(n, e[2]) /\ (both => ItemPasses(m, f[2]))
  BY <1>1, <1>2, <1>3, AtomicClaims
<1>5. Stacked(r) /\ r.stack.verdict = "Accept" /\ a.path = "Pass"
  BY <1>2, <1>4, BuiltRequest
<1>6. /\ ItemPasses(n, e[1]) <=>
           /\ g[<<"EndEntity", "valid_signature">>] = "Accept"
           /\ g[<<"path", "valid_path">>] = "Accept"
           /\ g[<<"EndEntity", "validity">>] = "Pass" /\ g[<<"EndEntity", "crl">>] = "Accept"
           /\ g[<<"EndEntity", "invalid_classical_signature">>] = "Reject"
           /\ g[<<"EndEntity", "invalid_classical_path">>] = "Reject"
      /\ ItemPasses(n, e[2]) <=>
           /\ g[<<"EndEntity", "valid_signature">>] = "Accept"
           /\ g[<<"path", "valid_path">>] = "Accept"
           /\ g[<<"EndEntity", "validity">>] = "Pass" /\ g[<<"EndEntity", "crl">>] = "Accept"
           /\ g[<<"EndEntity", "invalid_post_quantum_signature">>] = "Reject"
           /\ g[<<"EndEntity", "invalid_post_quantum_path">>] = "Reject"
  BY <1>3, AtomicMeans
<1>7. /\ ItemPasses(m, f[1]) <=>
           /\ g[<<"Intermediate", "valid_signature">>] = "Accept"
           /\ g[<<"path", "valid_path">>] = "Accept"
           /\ g[<<"Intermediate", "validity">>] = "Pass" /\ g[<<"Intermediate", "crl">>] = "Accept"
           /\ g[<<"Intermediate", "invalid_classical_signature">>] = "Reject"
           /\ g[<<"Intermediate", "invalid_classical_path">>] = "Reject"
      /\ ItemPasses(m, f[2]) <=>
           /\ g[<<"Intermediate", "valid_signature">>] = "Accept"
           /\ g[<<"path", "valid_path">>] = "Accept"
           /\ g[<<"Intermediate", "validity">>] = "Pass" /\ g[<<"Intermediate", "crl">>] = "Accept"
           /\ g[<<"Intermediate", "invalid_post_quantum_signature">>] = "Reject"
           /\ g[<<"Intermediate", "invalid_post_quantum_path">>] = "Reject"
  BY <1>3, AtomicMeans
<1> HIDE DEF s, r, n, m, e, f
<1>8. evaluate(r).policy_verdict = "HybridClaimSetSatisfied" <=>
        /\ a.classical = "Pass" /\ a.pq = "Pass"
        /\ policy \in {"P1OptionalHybrid", "P2RequiredHybrid"}
  BY <1>1, <1>4, <1>5, VerdictsOf
<1> DEFINE Sane(p) == /\ \A w \in AtomicControls : <<p, w>> \notin DOMAIN odd
                      /\ <<p, "crl">> \notin DOMAIN odd
<1>9. DOMAIN odd \cap HybridNeeds(2, scope) = {} <=>
        <<"path", "valid_path">> \notin DOMAIN odd /\ Sane("EndEntity")
          /\ (both => Sane("Intermediate"))
  <2>1. DOMAIN odd \cap HybridNeeds(2, scope) = {} <=>
          /\ <<"path", "valid_path">> \notin DOMAIN odd
          /\ DOMAIN odd \cap AtPositions(scope, AtomicControls) = {}
          /\ DOMAIN odd \cap AtPositions(scope, {"crl"}) = {}
    BY DEF HybridNeeds
  <2> QED
    BY <1>1, <2>1, NoneOddAt
<1>10. ItemPasses(n, e[1]) /\ ItemPasses(n, e[2]) <=>
         <<"path", "valid_path">> \notin DOMAIN odd /\ Sane("EndEntity")
  BY <1>3, <1>6 DEF Ran, As, Held, AtomicResults, AtomicControls
<1>11. ItemPasses(m, f[1]) /\ ItemPasses(m, f[2]) <=>
         <<"path", "valid_path">> \notin DOMAIN odd /\ Sane("Intermediate")
  BY <1>3, <1>7 DEF Ran, As, Held, AtomicResults, AtomicControls
<1> HIDE DEF Sane
<1> QED
  BY <1>1, <1>4, <1>8, <1>9, <1>10, <1>11 DEF Verdict

\* The classical route: the leaf's items are those of the atomic route with
\* the path, the revocation status and the digests of this one.
RouteLeaf(g) ==
  Node("leaf", "EndEntity", "Classical", "Hybrid", "AtomicComposite",
       g[<<"route", "leaf">>], g[<<"route", "leaf_edge">>])
RouteIntermediate(g) ==
  Node("intermediate", "Intermediate", "Classical", "Classical", "None",
       g[<<"route", "intermediate">>], g[<<"route", "intermediate_edge">>])
RouteItem(g, item) ==
  [item EXCEPT !.checks["path"] = check_from_verdict("Accept"),
               !.checks["revocation"] = check_from_verdict(g[<<"control", "ica_crl">>]),
               !.certificate_der_sha256 = RouteLeaf(g).der_sha256,
               !.issuer_edge_sha256 = RouteLeaf(g).issuer_edge_sha256]
RouteOutcome(g) ==
  outcome_check("Accept", g[<<"control", "invalid_intermediate_path">>],
    /\ g[<<"control", "intermediate_signature">>] = "Accept"
    /\ g[<<"control", "invalid_intermediate_signature">>] = "Reject")
RouteIntermediateItem(g) ==
  Item(RouteIntermediate(g), "Classical", RouteIntermediate(g).der_sha256, None,
       Checks(check_from_verdict(g[<<"control", "intermediate_signature">>]),
              not_applicable, check_from_verdict("Accept"),
              observed(g[<<"route", "intermediate_validity">>]),
              check_from_verdict(g[<<"control", "root_crl">>]), RouteOutcome(g)), "Crl")

LEMMA ClassicalRouteForm ==
  ASSUME NEW g
  PROVE  evaluate_classical_route(g) =
           Submission(Built(g, "classical_fallback"), g[<<"route", "root">>],
                      <<RouteLeaf(g), RouteIntermediate(g)>>, <<>>,
                      <<RouteItem(g, AtomicItems(g, "EndEntity")[1]),
                        RouteItem(g, AtomicItems(g, "EndEntity")[2]),
                        RouteIntermediateItem(g)>>)
<1>0. atomic_nodes(g) = <<AtomicNode(g, "EndEntity"), AtomicNode(g, "Intermediate")>>
  BY AtomicForm, Zenon
<1>1. atomic_nodes(g)[1] = AtomicNode(g, "EndEntity")
  BY <1>0
<1>2. atomic_position_evidence(g, atomic_nodes(g)[1]) = AtomicItems(g, "EndEntity")
  BY <1>1 DEF AtomicItems
<1> QED
  BY <1>2 DEF evaluate_classical_route, RouteLeaf, RouteIntermediate, RouteItem, RouteOutcome,
     RouteIntermediateItem

\* The fields of the leaf's items on this route.
LEMMA RouteItemFields ==
  ASSUME NEW g, NEW n, NEW knd, NEW checks, NEW method, NEW artifact, NEW operation,
         NEW signature, NEW binding, NEW path, NEW validity, NEW revocation, NEW sensitive,
         checks = Checks(signature, binding, path, validity, revocation, sensitive)
  PROVE  LET i == RouteItem(g, Item(n, knd, artifact, operation, checks, method)) IN
         /\ i.certificate_id = n.id /\ i.position = n.position /\ i.kind = knd
         /\ i.certificate_der_sha256 = RouteLeaf(g).der_sha256
         /\ i.evidence_artifact_der_sha256 = artifact
         /\ i.issuer_edge_sha256 = RouteLeaf(g).issuer_edge_sha256
         /\ i.checks["present"] = pass /\ i.checks["recognized"] = pass
         /\ i.checks["signature"] = signature /\ i.checks["binding"] = binding
         /\ i.checks["path"] = check_from_verdict("Accept")
         /\ i.checks["validity"] = validity
         /\ i.checks["revocation"] = check_from_verdict(g[<<"control", "ica_crl">>])
         /\ i.checks["decision_sensitive"] = sensitive
BY DEF RouteItem, Item, Checks

LEMMA RouteItemMeans ==
  ASSUME NEW g, NEW n, NEW knd, NEW artifact, NEW operation, NEW method,
         NEW signature, NEW binding, NEW path, NEW validity, NEW revocation, NEW sensitive,
         RouteLeaf(g).der_sha256 # None, RouteLeaf(g).issuer_edge_sha256 # None,
         artifact # None
  PROVE  LET checks == Checks(signature, binding, path, validity, revocation, sensitive)
             item == RouteItem(g, Item(n, knd, artifact, operation, checks, method))
             status == check_from_verdict(g[<<"control", "ica_crl">>])
             built == check_from_verdict("Accept")
         IN  /\ item.certificate_id = n.id /\ item.position = n.position /\ item.kind = knd
             /\ ItemPasses(RouteLeaf(g), item) <=>
                  Sound(signature, binding, built, validity, status, sensitive)
             /\ ItemFails(item) <=>
                  Broken(signature, binding, built, validity, status, sensitive)
<1> DEFINE checks == Checks(signature, binding, path, validity, revocation, sensitive)
           item == RouteItem(g, Item(n, knd, artifact, operation, checks, method))
<1>1. /\ item.certificate_id = n.id /\ item.position = n.position /\ item.kind = knd
      /\ item.certificate_der_sha256 = RouteLeaf(g).der_sha256
      /\ item.evidence_artifact_der_sha256 = artifact
      /\ item.issuer_edge_sha256 = RouteLeaf(g).issuer_edge_sha256
      /\ item.checks["present"] = pass /\ item.checks["recognized"] = pass
      /\ item.checks["signature"] = signature /\ item.checks["binding"] = binding
      /\ item.checks["path"] = check_from_verdict("Accept")
      /\ item.checks["validity"] = validity
      /\ item.checks["revocation"] = check_from_verdict(g[<<"control", "ica_crl">>])
      /\ item.checks["decision_sensitive"] = sensitive
  BY RouteItemFields
<1> HIDE DEF item
<1>2. evidence_binding_state(RouteLeaf(g), item) = "Pass"
  BY <1>1 DEF evidence_binding_state
<1>3. LET of == item.checks IN
      /\ ItemPasses(RouteLeaf(g), item) <=> Sound(of["signature"], of["binding"], of["path"],
           of["validity"], of["revocation"], of["decision_sensitive"])
      /\ ItemFails(item) <=> Broken(of["signature"], of["binding"], of["path"],
           of["validity"], of["revocation"], of["decision_sensitive"])
  BY <1>1, <1>2, ItemStates
<1> QED
  BY <1>1, <1>3 DEF item

\* The digests of the classical route.
Routed(g) ==
  /\ g[<<"route", "leaf">>] # None /\ g[<<"route", "leaf_edge">>] # None
  /\ g[<<"route", "intermediate">>] # None /\ g[<<"route", "intermediate_edge">>] # None

LEMMA RouteMeans ==
  ASSUME NEW g, Digested(g), Routed(g)
  PROVE  LET n == RouteLeaf(g)
             m == RouteIntermediate(g)
             i == RouteItem(g, AtomicItems(g, "EndEntity")[1])
             q == RouteItem(g, AtomicItems(g, "EndEntity")[2])
             j == RouteIntermediateItem(g)
             common == /\ g[<<"EndEntity", "valid_signature">>] = "Accept"
                       /\ g[<<"path", "valid_path">>] = "Accept"
                       /\ g[<<"EndEntity", "validity">>] = "Pass"
                       /\ g[<<"control", "ica_crl">>] = "Accept"
             refuted == \/ g[<<"EndEntity", "valid_signature">>] = "Reject"
                        \/ g[<<"EndEntity", "validity">>] \in {"Fail", "NotApplicable"}
                        \/ g[<<"control", "ica_crl">>] = "Reject"
             unmoved == /\ g[<<"path", "valid_path">>] = "Accept"
                        /\ g[<<"EndEntity", "valid_signature">>] = "Accept"
         IN  /\ i.certificate_id = <<"leaf">> /\ i.position = "EndEntity" /\ i.kind = "Classical"
             /\ q.certificate_id = <<"leaf">> /\ q.position = "EndEntity"
             /\ q.kind = "PostQuantum"
             /\ j.certificate_id = <<"intermediate">> /\ j.position = "Intermediate"
             /\ j.kind = "Classical"
             /\ ItemPasses(n, i) <=>
                  /\ common /\ g[<<"EndEntity", "invalid_classical_signature">>] = "Reject"
                  /\ g[<<"EndEntity", "invalid_classical_path">>] = "Reject"
             /\ ItemFails(i) <=>
                  \/ refuted
                  \/ /\ unmoved /\ g[<<"EndEntity", "invalid_classical_signature">>] = "Reject"
                     /\ g[<<"EndEntity", "invalid_classical_path">>] = "Accept"
             /\ ItemPasses(n, q) <=>
                  /\ common /\ g[<<"EndEntity", "invalid_post_quantum_signature">>] = "Reject"
                  /\ g[<<"EndEntity", "invalid_post_quantum_path">>] = "Reject"
             /\ ItemFails(q) <=>
                  \/ refuted
                  \/ /\ unmoved
                     /\ g[<<"EndEntity", "invalid_post_quantum_signature">>] = "Reject"
                     /\ g[<<"EndEntity", "invalid_post_quantum_path">>] = "Accept"
             /\ ItemPasses(m, j) <=>
                  /\ g[<<"control", "intermediate_signature">>] = "Accept"
                  /\ g[<<"route", "intermediate_validity">>] = "Pass"
                  /\ g[<<"control", "root_crl">>] = "Accept"
                  /\ g[<<"control", "invalid_intermediate_signature">>] = "Reject"
                  /\ g[<<"control", "invalid_intermediate_path">>] = "Reject"
             /\ ItemFails(j) <=>
                  \/ g[<<"control", "intermediate_signature">>] = "Reject"
                  \/ g[<<"route", "intermediate_validity">>] \in {"Fail", "NotApplicable"}
                  \/ g[<<"control", "root_crl">>] = "Reject"
                  \/ /\ g[<<"control", "intermediate_signature">>] = "Accept"
                     /\ g[<<"control", "invalid_intermediate_signature">>] = "Reject"
                     /\ g[<<"control", "invalid_intermediate_path">>] = "Accept"
<1> DEFINE p == "EndEntity"
           d == AtomicNode(g, p)
           n == RouteLeaf(g)
           m == RouteIntermediate(g)
           e == AtomicItems(g, p)
           i == RouteItem(g, e[1])
           q == RouteItem(g, e[2])
           j == RouteIntermediateItem(g)
           signature == check_from_verdict(g[<<p, "valid_signature">>])
           path == check_from_verdict(g[<<"path", "valid_path">>])
           built == check_from_verdict("Accept")
           validity == observed(g[<<p, "validity">>])
           crl == check_from_verdict(g[<<p, "crl">>])
           status == check_from_verdict(g[<<"control", "ica_crl">>])
           classical == atomic_outcome(g, p, "invalid_classical_signature",
                                       "invalid_classical_path")
           pq == atomic_outcome(g, p, "invalid_post_quantum_signature",
                                "invalid_post_quantum_path")
           x == Checks(signature, not_applicable, path, validity, crl, classical)
           y == Checks(signature, not_applicable, path, validity, crl, pq)
           s2 == check_from_verdict(g[<<"control", "intermediate_signature">>])
           v2 == observed(g[<<"route", "intermediate_validity">>])
           c2 == check_from_verdict(g[<<"control", "root_crl">>])
           o2 == RouteOutcome(g)
<1>1. /\ d.position = p /\ d.der_sha256 # None /\ d.id = <<"leaf">>
  BY NodeOfFields DEF AtomicNode, Digested
<1>2. e = <<Item(d, "Classical", d.der_sha256, None, x, "Crl"),
            Item(d, "PostQuantum", d.der_sha256, None, y, "Crl")>>
  <2> HIDE DEF d
  <2>1. e = atomic_position_evidence(g, d)
    BY DEF AtomicItems, d
  <2> QED
    BY <1>1, <2>1 DEF atomic_position_evidence
<1>3. /\ Passes(signature, FALSE) <=> g[<<p, "valid_signature">>] = "Accept"
      /\ Fails(signature, FALSE) <=> g[<<p, "valid_signature">>] = "Reject"
      /\ Passes(built, FALSE) /\ ~Fails(built, FALSE)
      /\ Passes(status, FALSE) <=> g[<<"control", "ica_crl">>] = "Accept"
      /\ Fails(status, FALSE) <=> g[<<"control", "ica_crl">>] = "Reject"
      /\ Passes(s2, FALSE) <=> g[<<"control", "intermediate_signature">>] = "Accept"
      /\ Fails(s2, FALSE) <=> g[<<"control", "intermediate_signature">>] = "Reject"
      /\ Passes(c2, FALSE) <=> g[<<"control", "root_crl">>] = "Accept"
      /\ Fails(c2, FALSE) <=> g[<<"control", "root_crl">>] = "Reject"
  BY VerdictStates
<1>4. /\ Passes(validity, FALSE) <=> g[<<p, "validity">>] = "Pass"
      /\ Fails(validity, FALSE) <=> g[<<p, "validity">>] \in {"Fail", "NotApplicable"}
      /\ Passes(v2, FALSE) <=> g[<<"route", "intermediate_validity">>] = "Pass"
      /\ Fails(v2, FALSE) <=>
           g[<<"route", "intermediate_validity">>] \in {"Fail", "NotApplicable"}
      /\ Passes(not_applicable, TRUE) /\ ~Fails(not_applicable, TRUE)
  BY CheckStates DEF not_applicable
<1>5. /\ Passes(classical, FALSE) <=>
           /\ g[<<"path", "valid_path">>] = "Accept" /\ g[<<p, "valid_signature">>] = "Accept"
           /\ g[<<p, "invalid_classical_signature">>] = "Reject"
           /\ g[<<p, "invalid_classical_path">>] = "Reject"
      /\ Fails(classical, FALSE) <=>
           /\ g[<<"path", "valid_path">>] = "Accept" /\ g[<<p, "valid_signature">>] = "Accept"
           /\ g[<<p, "invalid_classical_signature">>] = "Reject"
           /\ g[<<p, "invalid_classical_path">>] = "Accept"
  BY OutcomeStates DEF atomic_outcome
<1>6. /\ Passes(pq, FALSE) <=>
           /\ g[<<"path", "valid_path">>] = "Accept" /\ g[<<p, "valid_signature">>] = "Accept"
           /\ g[<<p, "invalid_post_quantum_signature">>] = "Reject"
           /\ g[<<p, "invalid_post_quantum_path">>] = "Reject"
      /\ Fails(pq, FALSE) <=>
           /\ g[<<"path", "valid_path">>] = "Accept" /\ g[<<p, "valid_signature">>] = "Accept"
           /\ g[<<p, "invalid_post_quantum_signature">>] = "Reject"
           /\ g[<<p, "invalid_post_quantum_path">>] = "Accept"
  BY OutcomeStates DEF atomic_outcome
<1>7. /\ Passes(o2, FALSE) <=>
           /\ g[<<"control", "intermediate_signature">>] = "Accept"
           /\ g[<<"control", "invalid_intermediate_signature">>] = "Reject"
           /\ g[<<"control", "invalid_intermediate_path">>] = "Reject"
      /\ Fails(o2, FALSE) <=>
           /\ g[<<"control", "intermediate_signature">>] = "Accept"
           /\ g[<<"control", "invalid_intermediate_signature">>] = "Reject"
           /\ g[<<"control", "invalid_intermediate_path">>] = "Accept"
  BY OutcomeStates DEF RouteOutcome
<1>8. /\ n.der_sha256 # None /\ n.issuer_edge_sha256 # None
      /\ m.der_sha256 # None /\ m.issuer_edge_sha256 # None
      /\ m.id = <<"intermediate">> /\ m.position = "Intermediate"
  BY NodeFields DEF RouteLeaf, RouteIntermediate, Routed
<1>9. j = Item(m, "Classical", m.der_sha256, None,
               Checks(s2, not_applicable, built, v2, c2, o2), "Crl")
  BY DEF RouteIntermediateItem
<1> HIDE DEF d, n, m, e, j, signature, path, built, validity, crl, status, classical, pq,
             s2, v2, c2, o2
<1>10. /\ i.certificate_id = d.id /\ i.position = d.position /\ i.kind = "Classical"
       /\ ItemPasses(n, i) <=> Sound(signature, not_applicable, built, validity, status, classical)
       /\ ItemFails(i) <=> Broken(signature, not_applicable, built, validity, status, classical)
  BY <1>1, <1>2, <1>8, RouteItemMeans DEF n, built, status
<1>11. /\ q.certificate_id = d.id /\ q.position = d.position /\ q.kind = "PostQuantum"
       /\ ItemPasses(n, q) <=> Sound(signature, not_applicable, built, validity, status, pq)
       /\ ItemFails(q) <=> Broken(signature, not_applicable, built, validity, status, pq)
  BY <1>1, <1>2, <1>8, RouteItemMeans DEF n, built, status
<1>12. /\ j.certificate_id = m.id /\ j.position = m.position /\ j.kind = "Classical"
       /\ ItemPasses(m, j) <=> Sound(s2, not_applicable, built, v2, c2, o2)
       /\ ItemFails(j) <=> Broken(s2, not_applicable, built, v2, c2, o2)
  BY <1>8, <1>9, ItemFields, ItemMeans
<1> HIDE DEF i, q
<1>13. /\ i.certificate_id = <<"leaf">> /\ i.position = "EndEntity" /\ i.kind = "Classical"
       /\ q.certificate_id = <<"leaf">> /\ q.position = "EndEntity" /\ q.kind = "PostQuantum"
       /\ j.certificate_id = <<"intermediate">> /\ j.position = "Intermediate"
       /\ j.kind = "Classical"
  BY <1>1, <1>8, <1>10, <1>11, <1>12
<1>14. /\ ItemPasses(n, i) <=>
            /\ g[<<p, "valid_signature">>] = "Accept" /\ g[<<"path", "valid_path">>] = "Accept"
            /\ g[<<p, "validity">>] = "Pass" /\ g[<<"control", "ica_crl">>] = "Accept"
            /\ g[<<p, "invalid_classical_signature">>] = "Reject"
            /\ g[<<p, "invalid_classical_path">>] = "Reject"
       /\ ItemFails(i) <=>
            \/ g[<<p, "valid_signature">>] = "Reject"
            \/ g[<<p, "validity">>] \in {"Fail", "NotApplicable"}
            \/ g[<<"control", "ica_crl">>] = "Reject"
            \/ /\ g[<<"path", "valid_path">>] = "Accept" /\ g[<<p, "valid_signature">>] = "Accept"
               /\ g[<<p, "invalid_classical_signature">>] = "Reject"
               /\ g[<<p, "invalid_classical_path">>] = "Accept"
  BY <1>3, <1>4, <1>5, <1>10 DEF Sound, Broken
<1>15. /\ ItemPasses(n, q) <=>
            /\ g[<<p, "valid_signature">>] = "Accept" /\ g[<<"path", "valid_path">>] = "Accept"
            /\ g[<<p, "validity">>] = "Pass" /\ g[<<"control", "ica_crl">>] = "Accept"
            /\ g[<<p, "invalid_post_quantum_signature">>] = "Reject"
            /\ g[<<p, "invalid_post_quantum_path">>] = "Reject"
       /\ ItemFails(q) <=>
            \/ g[<<p, "valid_signature">>] = "Reject"
            \/ g[<<p, "validity">>] \in {"Fail", "NotApplicable"}
            \/ g[<<"control", "ica_crl">>] = "Reject"
            \/ /\ g[<<"path", "valid_path">>] = "Accept" /\ g[<<p, "valid_signature">>] = "Accept"
               /\ g[<<p, "invalid_post_quantum_signature">>] = "Reject"
               /\ g[<<p, "invalid_post_quantum_path">>] = "Accept"
  BY <1>3, <1>4, <1>6, <1>11 DEF Sound, Broken
<1>16. /\ ItemPasses(m, j) <=>
            /\ g[<<"control", "intermediate_signature">>] = "Accept"
            /\ g[<<"route", "intermediate_validity">>] = "Pass"
            /\ g[<<"control", "root_crl">>] = "Accept"
            /\ g[<<"control", "invalid_intermediate_signature">>] = "Reject"
            /\ g[<<"control", "invalid_intermediate_path">>] = "Reject"
       /\ ItemFails(j) <=>
            \/ g[<<"control", "intermediate_signature">>] = "Reject"
            \/ g[<<"route", "intermediate_validity">>] \in {"Fail", "NotApplicable"}
            \/ g[<<"control", "root_crl">>] = "Reject"
            \/ /\ g[<<"control", "intermediate_signature">>] = "Accept"
               /\ g[<<"control", "invalid_intermediate_signature">>] = "Reject"
               /\ g[<<"control", "invalid_intermediate_path">>] = "Accept"
  BY <1>3, <1>4, <1>7, <1>12 DEF Sound, Broken
<1> QED
  BY <1>13, <1>14, <1>15, <1>16, Zenon DEF i, q, j, n, m, e

\* What the classical route's request amounts to.
LEMMA RouteClaims ==
  ASSUME NEW g, Digested(g), Routed(g), NEW p, NEW scope \in PathScope
  PROVE  LET r == Request(p, scope, evaluate_classical_route(g))
             a == Aggregates(r)
             n == RouteLeaf(g)
             m == RouteIntermediate(g)
             i == RouteItem(g, AtomicItems(g, "EndEntity")[1])
             q == RouteItem(g, AtomicItems(g, "EndEntity")[2])
             j == RouteIntermediateItem(g)
             both == scope = "CertificationPath"
         IN  /\ Stacked(r) /\ r.stack.verdict = "Accept" /\ a.path = "Pass" /\ a.has_classical
             /\ a.design = IF both THEN "Fail" ELSE "Pass"
             /\ a.classical = "Pass" <=> ItemPasses(n, i) /\ (both => ItemPasses(m, j))
             /\ a.classical = "Fail" <=> ItemFails(i) \/ (both /\ ItemFails(j))
             /\ a.pq = "Pass" <=> ItemPasses(n, q)
             /\ a.pq = "Fail" <=> ItemFails(q)
<1> DEFINE s == evaluate_classical_route(g)
           r == Request(p, scope, s)
           n == RouteLeaf(g)
           m == RouteIntermediate(g)
           i == RouteItem(g, AtomicItems(g, "EndEntity")[1])
           q == RouteItem(g, AtomicItems(g, "EndEntity")[2])
           j == RouteIntermediateItem(g)
<1>1. /\ s.certificate_path = <<n, m>> /\ s.evidence = <<i, q, j>>
      /\ s.stack = Built(g, "classical_fallback")
  <2>1. s = Submission(Built(g, "classical_fallback"), g[<<"route", "root">>],
                       <<n, m>>, <<>>, <<i, q, j>>)
    BY ClassicalRouteForm, Zenon
  <2> HIDE DEF s, n, m, i, q, j
  <2> QED
    BY <2>1, SubmissionFields
<1>2. /\ i.certificate_id = <<"leaf">> /\ i.position = "EndEntity" /\ i.kind = "Classical"
      /\ q.certificate_id = <<"leaf">> /\ q.position = "EndEntity" /\ q.kind = "PostQuantum"
      /\ j.certificate_id = <<"intermediate">> /\ j.position = "Intermediate"
      /\ j.kind = "Classical"
  BY RouteMeans
<1>3. /\ n.id = <<"leaf">> /\ n.position = "EndEntity" /\ n.binding_design = "AtomicComposite"
      /\ n.subject_public_key_scheme = "Classical" /\ n.certificate_signature_scheme = "Hybrid"
      /\ n.der_sha256 # None /\ n.issuer_edge_sha256 # None
  BY NodeFields DEF RouteLeaf, Routed
<1>4. /\ m.id = <<"intermediate">> /\ m.position = "Intermediate" /\ m.binding_design = "None"
      /\ m.subject_public_key_scheme = "Classical"
      /\ m.certificate_signature_scheme = "Classical"
      /\ m.der_sha256 # None /\ m.issuer_edge_sha256 # None
  BY NodeFields DEF RouteIntermediate, Routed
<1>5. /\ r.path_scope = scope /\ r.revocation_policy.mode = "HardFail"
      /\ r.certificate_path = <<n, m>> /\ r.evidence = <<i, q, j>>
  BY <1>1, RequestFields
<1> HIDE DEF n, m, i, q, j
<1>6. /\ requires_classical_certificate_signature_evidence(n)
      /\ requires_classical_certificate_signature_evidence(m)
      /\ requires_post_quantum_certificate_signature_evidence(n)
      /\ ~requires_post_quantum_certificate_signature_evidence(m)
      /\ has_hybrid_certificate_signature_design(n) /\ ~has_hybrid_certificate_signature_design(m)
      /\ ~has_unknown_crypto_property(n) /\ ~has_unknown_crypto_property(m)
  BY <1>3, <1>4, NodeClaims
<1>7. Certificates(r) = {n, m} /\ EvidenceItems(r) = {i, q, j}
  BY <1>5, TupleRange DEF Certificates, EvidenceItems
<1>8. Stacked(r) /\ r.stack.verdict = "Accept" /\ Aggregates(r).path = "Pass"
  <2>1. \A c \in Certificates(r) :
          /\ ~has_unknown_crypto_property(c)
          /\ c.der_sha256 # None /\ c.issuer_edge_sha256 # None
          /\ c.position \in {"EndEntity", "Intermediate"}
    BY <1>3, <1>4, <1>6, <1>7
  <2>2. \E c \in Certificates(r) : c.position = "EndEntity"
    BY <1>3, <1>7
  <2> QED
    BY <1>1, <2>1, <2>2, BuiltRequest
<1> HIDE DEF r, s
<1>9. /\ ScopedCertificates(r) = IF scope = "CertificationPath" THEN {n, m} ELSE {n}
      /\ n.id # m.id
  BY <1>3, <1>4, <1>5, <1>7 DEF ScopedCertificates, InScope, includes, PathScope
<1>10. classical_required(r) = ScopedCertificates(r) /\ pq_required(r) = {n}
  BY <1>6, <1>9 DEF classical_required, pq_required
<1>11. Aggregates(r).has_classical
  BY <1>9, <1>10, AggregateFields
<1>12. Aggregates(r).design = IF scope = "CertificationPath" THEN "Fail" ELSE "Pass"
  <2>1. CASE scope = "CertificationPath"
    <3>1. "Fail" \in design_states(r, m)
      BY <1>4, <1>6 DEF design_states
    <3> QED
      BY <1>9, <2>1, <3>1, FailedDesign
  <2>2. CASE scope # "CertificationPath"
    <3>1. design_states(r, n) = {"Pass"}
      BY <1>6 DEF design_states
    <3>2. UNION {design_states(r, c) : c \in ScopedCertificates(r)} = {"Pass"}
      BY <1>9, <2>2, <3>1
    <3> QED
      BY <2>2, <3>2, AggregateFields DEF hybrid_authentication_design_state, Worst
  <2> QED
    BY <2>1, <2>2
<1>13. LET state == evidence_state(classical_required(r), OfKind(r, "Classical"), "HardFail") IN
       /\ state = "Pass" <=>
            ItemPasses(n, i) /\ (r.path_scope = "CertificationPath" => ItemPasses(m, j))
       /\ state = "Fail" <=>
            ItemFails(i) \/ (r.path_scope = "CertificationPath" /\ ItemFails(j))
  <2>1. \A item : item \in EvidenceItems(r) /\ item.kind = "Classical" <=> item \in {i, j}
    BY <1>2, <1>7
  <2> QED
    BY <1>2, <1>3, <1>4, <1>5, <1>7, <1>9, <1>10, <2>1, TwoItems
<1>14. LET state == evidence_state(pq_required(r), OfKind(r, "PostQuantum"), "HardFail") IN
       /\ state = "Pass" <=> ItemPasses(n, q)
       /\ state = "Fail" <=> ItemFails(q)
  <2>1. \A item : item \in EvidenceItems(r) /\ item.kind = "PostQuantum" <=> item = q
    BY <1>2, <1>7
  <2> QED
    BY <1>2, <1>3, <1>5, <1>10, <2>1, OneItem
<1>15. LET a == Aggregates(r)
           both == scope = "CertificationPath"
       IN  /\ a.classical = "Pass" <=> ItemPasses(n, i) /\ (both => ItemPasses(m, j))
           /\ a.classical = "Fail" <=> ItemFails(i) \/ (both /\ ItemFails(j))
           /\ a.pq = "Pass" <=> ItemPasses(n, q)
           /\ a.pq = "Fail" <=> ItemFails(q)
  BY <1>5, <1>13, <1>14, AggregateFields
<1> QED
  BY <1>8, <1>11, <1>12, <1>15 DEF r, s, n, m, i, q, j

\* What is known of the results on the classical route.
LEMMA RouteKnown ==
  ASSUME AnalysisInv, kind = "cross_signed"
  PROVE  /\ Ran("control", "ica_crl", "Accept") /\ Ran("control", "root_crl", "Accept")
         /\ Ran("control", "intermediate_signature", "Accept")
         /\ Ran("control", "invalid_intermediate_signature", "Reject")
         /\ Ran("control", "invalid_intermediate_path", "Reject")
         /\ Held("route", "intermediate_validity") /\ Routed(results)
<1>1. Table[kind] = cross_signed_steps
  BY TablesAreDistinct DEF AnalysisInv, StepsOf
<1>2. Part(classical_control_steps, Table[kind]) /\ Part(classical_route_steps, Table[kind])
  BY <1>1, CrossTable
<1>3. /\ Runs(Table[kind], "control", "ica_crl", "Accept")
      /\ Runs(Table[kind], "control", "root_crl", "Accept")
      /\ Runs(Table[kind], "control", "intermediate_signature", "Accept")
      /\ Runs(Table[kind], "control", "invalid_intermediate_signature", "Reject")
      /\ Runs(Table[kind], "control", "invalid_intermediate_path", "Reject")
  BY <1>2, ControlTable, PartRuns
<1>4. /\ Checked(Table[kind], "route", "intermediate_validity")
      /\ Hashes(Table[kind], "route", "leaf") /\ Hashes(Table[kind], "route", "leaf_edge")
      /\ Hashes(Table[kind], "route", "intermediate")
      /\ Hashes(Table[kind], "route", "intermediate_edge")
  BY <1>2, RouteTable, PartChecked, PartHashes
<1>5. {"Accept", "Reject"} \subseteq StackVerdict
  BY DEF StackVerdict
<1> QED
  BY <1>3, <1>4, <1>5, ResultsAre DEF Routed

LEMMA ClassicalRouteHybrid ==
  ASSUME AnalysisInv, Answered, kind = "cross_signed", 3 \in DOMAIN answers,
         NEW scope \in scopes(kind)
  PROVE  Verdict(3, scope) = "HybridClaimSetSatisfied" <=>
           /\ policy \in {"P1OptionalHybrid", "P2RequiredHybrid"}
           /\ scope = "EndEntity"
           /\ DOMAIN odd \cap HybridNeeds(3, scope) = {}
<1> DEFINE g == results
           r == Request(policy, scope, evaluate_classical_route(g))
           a == Aggregates(r)
           n == RouteLeaf(g)
           m == RouteIntermediate(g)
           i == RouteItem(g, AtomicItems(g, "EndEntity")[1])
           q == RouteItem(g, AtomicItems(g, "EndEntity")[2])
           j == RouteIntermediateItem(g)
           both == scope = "CertificationPath"
           p == "EndEntity"
<1>1. /\ answers[3][scope] = evaluate(r) /\ validate_request(r) = "ok"
      /\ r.policy = policy /\ policy \in Policy /\ scope \in PathScope
  <2>1. submissions(kind, g)[3] = evaluate_classical_route(g)
    BY DEF submissions
  <2> QED
    BY <2>1, AnsweredAt DEF RequestAt
<1>2. /\ Ran("path", "valid_path", "Accept") /\ AtomicResults(p) /\ Digested(g)
      /\ Ran("control", "ica_crl", "Accept") /\ Routed(g)
  BY AtomicKnown, RouteKnown
<1>3. /\ Stacked(r) /\ r.stack.verdict = "Accept" /\ a.path = "Pass" /\ a.has_classical
      /\ a.design = IF both THEN "Fail" ELSE "Pass"
      /\ a.classical = "Pass" <=> ItemPasses(n, i) /\ (both => ItemPasses(m, j))
      /\ a.pq = "Pass" <=> ItemPasses(n, q)
  BY <1>1, <1>2, RouteClaims
<1>4. /\ ItemPasses(n, i) <=>
           /\ g[<<p, "valid_signature">>] = "Accept" /\ g[<<"path", "valid_path">>] = "Accept"
           /\ g[<<p, "validity">>] = "Pass" /\ g[<<"control", "ica_crl">>] = "Accept"
           /\ g[<<p, "invalid_classical_signature">>] = "Reject"
           /\ g[<<p, "invalid_classical_path">>] = "Reject"
      /\ ItemPasses(n, q) <=>
           /\ g[<<p, "valid_signature">>] = "Accept" /\ g[<<"path", "valid_path">>] = "Accept"
           /\ g[<<p, "validity">>] = "Pass" /\ g[<<"control", "ica_crl">>] = "Accept"
           /\ g[<<p, "invalid_post_quantum_signature">>] = "Reject"
           /\ g[<<p, "invalid_post_quantum_path">>] = "Reject"
  BY <1>2, RouteMeans
<1> HIDE DEF r, n, m, i, q, j
<1>5. evaluate(r).policy_verdict = "HybridClaimSetSatisfied" <=>
        /\ a.design = "Pass" /\ a.classical = "Pass" /\ a.pq = "Pass"
        /\ policy \in {"P1OptionalHybrid", "P2RequiredHybrid"}
  BY <1>1, <1>3, VerdictsOf
<1> DEFINE Sane == \A w \in AtomicControls : <<p, w>> \notin DOMAIN odd
<1>6. scope = "EndEntity" =>
        (DOMAIN odd \cap HybridNeeds(3, scope) = {} <=>
           /\ <<"path", "valid_path">> \notin DOMAIN odd /\ Sane
           /\ <<"control", "ica_crl">> \notin DOMAIN odd)
  <2>1. DOMAIN odd \cap HybridNeeds(3, scope) = {} <=>
          /\ <<"path", "valid_path">> \notin DOMAIN odd
          /\ DOMAIN odd \cap AtPositions(scope, AtomicControls) = {}
          /\ <<"control", "ica_crl">> \notin DOMAIN odd
    BY DEF HybridNeeds
  <2> QED
    BY <1>1, <2>1, NoneOddAt
<1>7. ItemPasses(n, i) /\ ItemPasses(n, q) <=>
        /\ <<"path", "valid_path">> \notin DOMAIN odd /\ Sane
        /\ <<"control", "ica_crl">> \notin DOMAIN odd
  BY <1>2, <1>4 DEF Ran, As, Held, AtomicResults, AtomicControls
<1> HIDE DEF Sane
<1>8. both <=> scope # "EndEntity"
  BY <1>1 DEF PathScope
<1> QED
  BY <1>1, <1>3, <1>5, <1>6, <1>7, <1>8 DEF Verdict

LEMMA HybridEarned == AnalysisInv => HybridIsEarned
<1> SUFFICES ASSUME AnalysisInv, Answered, NEW i \in DOMAIN answers, NEW scope \in scopes(kind)
             PROVE  Verdict(i, scope) = "HybridClaimSetSatisfied" <=>
                      /\ kind = "cross_signed"
                      /\ policy \in {"P1OptionalHybrid", "P2RequiredHybrid"}
                      /\ i = 2 \/ (i = 3 /\ scope = "EndEntity")
                      /\ DOMAIN odd \cap HybridNeeds(i, scope) = {}
  BY DEF HybridIsEarned
<1> DEFINE r == RequestAt(i, scope)
<1>1. /\ answers[i][scope] = evaluate(r) /\ validate_request(r) = "ok"
      /\ i \in DOMAIN submissions(kind, results) /\ kind \in AllKinds
  BY AnsweredAt
<1>2. CASE kind # "cross_signed" \/ i = 1
  <2>1. submissions(kind, results)[i].stack.selected_path_source = "PresentedInput"
    BY <1>1, <1>2, PresentedSubmissions
  <2>2. r.stack.selected_path_source = "PresentedInput"
    BY <2>1, RequestFields DEF RequestAt
  <2> HIDE DEF r
  <2>3. evaluate(r).policy_verdict # "HybridClaimSetSatisfied"
    BY <1>1, <2>2, PresentedIsNotHybrid
  <2> QED
    BY <1>1, <1>2, <2>3 DEF Verdict
<1>3. CASE kind = "cross_signed" /\ i # 1
  <2>1. i \in {2, 3}
    BY <1>1, <1>3, AllFormed
  <2>2. CASE i = 2
    BY <1>3, <2>2, AtomicRouteHybrid
  <2>3. CASE i = 3
    BY <1>3, <2>3, ClassicalRouteHybrid
  <2> QED
    BY <2>1, <2>2, <2>3
<1> QED
  BY <1>2, <1>3

\* Only the path builder's cross-signed analysis earns a hybrid verdict, and
\* exactly when every control at every position in scope came out as it must,
\* however many results are odd and whatever files are replaced meanwhile.
THEOREM HybridOnlyEarned == AnalysisSpec => []HybridIsEarned
BY AnalysisInvariant, HybridEarned, PTL

-----------------------------------------------------------------------------
(* Verdicts of the other analyses *)

\* The nodes of leaf and intermediate.
LEMMA HierarchyNodes ==
  ASSUME NEW g, NEW key, NEW signature, NEW design
  PROVE  LET n == NodeOf(g, "EndEntity", key, signature, design)
             m == NodeOf(g, "Intermediate", key, signature, design)
         IN  /\ n.position = "EndEntity" /\ n.binding_design = design /\ n.id = <<"leaf">>
             /\ n.subject_public_key_scheme = key /\ n.certificate_signature_scheme = signature
             /\ m.position = "Intermediate" /\ m.binding_design = design
             /\ m.id = <<"intermediate">>
             /\ m.subject_public_key_scheme = key /\ m.certificate_signature_scheme = signature
<1>1. position_id("EndEntity") = "leaf" /\ position_id("Intermediate") = "intermediate"
  BY DEF position_id
<1> QED
  BY <1>1, NodeFields DEF NodeOf

\* A leaf and an intermediate of one hybrid design.
Hybrids(n, m, design) ==
  /\ design \in {"AtomicComposite", "Catalyst", "Chameleon", "RelatedCertificate"}
  /\ n.position = "EndEntity" /\ m.position = "Intermediate" /\ n.id # m.id
  /\ \A c \in {n, m} :
       /\ c.binding_design = design /\ c.subject_public_key_scheme = "Classical"
       /\ c.certificate_signature_scheme =
            IF design = "AtomicComposite" THEN "Hybrid" ELSE "Classical"

LEMMA HybridNodes ==
  ASSUME NEW g
  PROVE  /\ Hybrids(AtomicNode(g, "EndEntity"), AtomicNode(g, "Intermediate"), "AtomicComposite")
         /\ Hybrids(CatalystNode(g, "EndEntity"), CatalystNode(g, "Intermediate"), "Catalyst")
         /\ Hybrids(ChameleonNode(g, "EndEntity"), ChameleonNode(g, "Intermediate"), "Chameleon")
         /\ Hybrids(RelatedNode(g, "EndEntity"), RelatedNode(g, "Intermediate"),
                    "RelatedCertificate")
<1>1. ASSUME NEW signature, NEW design,
             design \in {"AtomicComposite", "Catalyst", "Chameleon", "RelatedCertificate"},
             signature = IF design = "AtomicComposite" THEN "Hybrid" ELSE "Classical"
      PROVE  Hybrids(NodeOf(g, "EndEntity", "Classical", signature, design),
                     NodeOf(g, "Intermediate", "Classical", signature, design), design)
  <2> DEFINE n == NodeOf(g, "EndEntity", "Classical", signature, design)
             m == NodeOf(g, "Intermediate", "Classical", signature, design)
  <2>1. /\ n.position = "EndEntity" /\ n.binding_design = design /\ n.id = <<"leaf">>
        /\ n.subject_public_key_scheme = "Classical" /\ n.certificate_signature_scheme = signature
        /\ m.position = "Intermediate" /\ m.binding_design = design
        /\ m.id = <<"intermediate">>
        /\ m.subject_public_key_scheme = "Classical" /\ m.certificate_signature_scheme = signature
    BY HierarchyNodes
  <2> HIDE DEF n, m
  <2>2. Hybrids(n, m, design)
    BY <1>1, <2>1 DEF Hybrids
  <2> QED
    BY <2>2 DEF n, m
<1> QED
  BY <1>1 DEF AtomicNode, CatalystNode, ChameleonNode, RelatedNode

\* A submission with both items about the leaf and both about the intermediate.
Evidenced(s, n, m, e, f) ==
  /\ s.certificate_path = <<n, m>> /\ s.evidence = BothItems(e, f)
  /\ ItemsOf(n, e) /\ ItemsOf(m, f)

\* A request made of the path-scope analyses' nodes.
LEMMA HierarchyClaims ==
  ASSUME NEW p, NEW scope \in PathScope, NEW s, NEW e, NEW f, NEW n, NEW m, NEW design,
         Hybrids(n, m, design), Evidenced(s, n, m, e, f)
  PROVE  LET r == Request(p, scope, s)
             a == Aggregates(r)
             both == scope = "CertificationPath"
         IN  /\ Certificates(r) = {n, m} /\ n \in ScopedCertificates(r)
             /\ \A c \in Certificates(r) : ~has_unknown_crypto_property(c)
             /\ a.has_classical
             /\ design # "RelatedCertificate" => a.design = "Pass"
             /\ a.classical = "Pass" <=> ItemPasses(n, e[1]) /\ (both => ItemPasses(m, f[1]))
             /\ a.classical = "Fail" <=> ItemFails(e[1]) \/ (both /\ ItemFails(f[1]))
             /\ a.pq = "Pass" <=> ItemPasses(n, e[2]) /\ (both => ItemPasses(m, f[2]))
             /\ a.pq = "Fail" <=> ItemFails(e[2]) \/ (both /\ ItemFails(f[2]))
<1> DEFINE r == Request(p, scope, s)
<1>1. /\ s.certificate_path = <<n, m>> /\ s.evidence = BothItems(e, f)
      /\ ItemsOf(n, e) /\ ItemsOf(m, f)
  BY DEF Evidenced
<1>2. /\ n.position = "EndEntity" /\ m.position = "Intermediate" /\ n.id # m.id
      /\ \A c \in {n, m} :
           /\ c.binding_design = design /\ c.subject_public_key_scheme = "Classical"
           /\ c.certificate_signature_scheme \in {"Classical", "Hybrid"}
           /\ design = "RelatedCertificate" => c.certificate_signature_scheme = "Classical"
      /\ design \in {"AtomicComposite", "Catalyst", "Chameleon", "RelatedCertificate"}
  BY DEF Hybrids
<1> HIDE DEF r
<1>3. \A c \in {n, m} : /\ requires_classical_certificate_signature_evidence(c)
                        /\ requires_post_quantum_certificate_signature_evidence(c)
                        /\ design # "RelatedCertificate" =>
                             has_hybrid_certificate_signature_design(c)
                        /\ ~has_unknown_crypto_property(c)
  BY <1>2, NodeClaims
<1>5. LET a == Aggregates(r)
          both == scope = "CertificationPath"
      IN  /\ Certificates(r) = {n, m}
          /\ a.has_classical
          /\ a.classical = "Pass" <=> ItemPasses(n, e[1]) /\ (both => ItemPasses(m, f[1]))
          /\ a.classical = "Fail" <=> ItemFails(e[1]) \/ (both /\ ItemFails(f[1]))
          /\ a.pq = "Pass" <=> ItemPasses(n, e[2]) /\ (both => ItemPasses(m, f[2]))
          /\ a.pq = "Fail" <=> ItemFails(e[2]) \/ (both /\ ItemFails(f[2]))
  BY <1>1, <1>2, <1>3, RequestClaims DEF r
<1>6. design # "RelatedCertificate" => Aggregates(r).design = "Pass"
  BY <1>3, <1>5, HybridDesign
<1>7. n \in ScopedCertificates(r)
  <2>1. r.path_scope = scope
    BY RequestFields DEF r
  <2> QED
    BY <1>2, <1>5, <2>1 DEF ScopedCertificates, InScope, includes, PathScope
<1>8. \A c \in Certificates(r) : ~has_unknown_crypto_property(c)
  BY <1>3, <1>5
<1> QED
  BY <1>5, <1>6, <1>7, <1>8 DEF r

LEMMA PresentedRequest ==
  ASSUME NEW p, NEW scope, NEW s, NEW v \in StackVerdict, NEW selected,
         NEW profile \in {"X509Path", "WebPkiServer"},
         s.stack = Presented(v, profile, selected),
         \A c \in Certificates(Request(p, scope, s)) : ~has_unknown_crypto_property(c)
  PROVE  LET r == Request(p, scope, s) IN Stacked(r) /\ r.stack.verdict = v
<1> DEFINE r == Request(p, scope, s)
<1>1. /\ r.stack.verdict = v /\ r.stack.validation_profile = profile
      /\ r.stack.applied_validation_time = r.validation_time /\ r.stack.validation_time = pass
  BY RequestFields, StackFields
<1> HIDE DEF r
<1>2. \A c \in Certificates(r) : ~has_unknown_crypto_property(c)
  BY DEF r
<1>3. Stacked(r)
  BY <1>1, <1>2 DEF Stacked
<1> QED
  BY <1>1, <1>3 DEF r

\* Evidence of a certificate that is expired or revoked.
Outdated(item) ==
  "Fail" \in {item.checks["validity"].state, item.checks["revocation"].state}

\* The answer on a path that was presented, from the verdict of the stack and
\* from what the evidence amounts to.
Judged(i, scope, v, a) ==
  /\ Verdict(i, scope) \in PolicyVerdict
  /\ answers[i][scope].lifecycle_desynchronization \in BOOLEAN
  /\ policy = "P0Classical" =>
       (Verdict(i, scope) = "ClassicalClaimSetSatisfied" <=>
          v = "Accept" /\ a.has_classical /\ a.classical = "Pass")
  /\ Verdict(i, scope) = "Reject" <=>
       /\ v # "Unsupported"
       /\ \/ /\ policy \in {"P0Classical", "P1OptionalHybrid"}
             /\ ~a.has_classical \/ a.classical = "Fail" \/ v = "Reject"
          \/ /\ policy = "P2RequiredHybrid"
             /\ a.design = "Fail" \/ a.classical = "Fail" \/ a.pq = "Fail" \/ v = "Reject"
  /\ policy = "P2RequiredHybrid" /\ v = "Accept" =>
       /\ Verdict(i, scope) \notin {"ClassicalClaimSetSatisfied", "Unsupported"}
       /\ answers[i][scope].classical_only_fallback <=>
            a.has_classical /\ a.classical = "Pass" /\ (a.pq # "Pass" \/ a.design # "Pass")
       /\ answers[i][scope].lifecycle_desynchronization <=>
            /\ answers[i][scope].classical_only_fallback
            /\ \E item \in OfKind(RequestAt(i, scope), "PostQuantum") : Outdated(item)

LEMMA Judging ==
  ASSUME AnalysisInv, Answered, NEW i \in DOMAIN answers, NEW scope \in scopes(kind),
         Stacked(RequestAt(i, scope))
  PROVE  LET r == RequestAt(i, scope) IN Judged(i, scope, r.stack.verdict, Aggregates(r))
<1> DEFINE r == RequestAt(i, scope)
           a == Aggregates(r)
           v == r.stack.verdict
<1>1. /\ answers[i][scope] = evaluate(r) /\ validate_request(r) = "ok" /\ r.policy = policy
      /\ policy \in Policy /\ answers # <<>>
  BY AnsweredAt
<1>2. v \in StackVerdict
  BY DEF Stacked
<1>3. /\ evaluate(r).policy_verdict \in PolicyVerdict
      /\ evaluate(r).lifecycle_desynchronization \in BOOLEAN
  <2>1. /\ DOMAIN r.evidence \subseteq Nat /\ DOMAIN r.certificate_path \subseteq Nat
        /\ DOMAIN r.paired_authentications \subseteq Nat
    BY <1>1, RequestAtForm
  <2>2. evaluate(r).status = "result"
    BY <1>1, Decided
  <2> QED
    BY <1>2, <2>1, <2>2, EvaluateType
<1> HIDE DEF r
<1>4. /\ policy = "P0Classical" =>
           (evaluate(r).policy_verdict = "ClassicalClaimSetSatisfied" <=>
              v = "Accept" /\ a.has_classical /\ a.classical = "Pass")
      /\ evaluate(r).policy_verdict = "Reject" <=>
           /\ v # "Unsupported"
           /\ \/ /\ policy \in {"P0Classical", "P1OptionalHybrid"}
                 /\ ~a.has_classical \/ a.classical = "Fail" \/ v = "Reject"
              \/ /\ policy = "P2RequiredHybrid"
                 /\ a.design = "Fail" \/ a.classical = "Fail" \/ a.pq = "Fail" \/ v = "Reject"
  BY <1>1, VerdictsOf DEF r
<1>5. ASSUME policy = "P2RequiredHybrid", v = "Accept"
      PROVE  /\ evaluate(r).policy_verdict \notin {"ClassicalClaimSetSatisfied", "Unsupported"}
             /\ evaluate(r).classical_only_fallback <=>
                  a.has_classical /\ a.classical = "Pass" /\ (a.pq # "Pass" \/ a.design # "Pass")
             /\ evaluate(r).lifecycle_desynchronization <=>
                  /\ evaluate(r).classical_only_fallback
                  /\ \E item \in OfKind(r, "PostQuantum") : Outdated(item)
  <2>1. ~unsupported(r)
    BY <1>5 DEF unsupported, Stacked, ScopedCertificates, InScope, r
  <2>2. /\ evaluate(r).policy_verdict = p2_verdict(a)
        /\ evaluate(r).classical_only_fallback
             = classical_only_fallback(r, a, evaluate(r).policy_verdict)
        /\ evaluate(r).lifecycle_desynchronization
             = lifecycle_desynchronization(r, evaluate(r).classical_only_fallback)
    BY <1>1, <1>5, <2>1, Decided DEF policy_verdict
  <2>3. a.stack = "Pass" /\ a.profile = "Pass"
    BY <1>5, StackStates DEF r
  <2>4. classical_authentication_succeeded(a) <=> a.has_classical /\ a.classical = "Pass"
    BY <2>3 DEF classical_authentication_succeeded
  <2>5. p2_verdict(a) \notin {"ClassicalClaimSetSatisfied", "Unsupported"}
    BY DEF p2_verdict
  <2> HIDE DEF a, v
  <2> QED
    BY <1>1, <1>5, <2>2, <2>4, <2>5
       DEF classical_only_fallback, lifecycle_desynchronization, Outdated
<1> QED
  BY <1>1, <1>3, <1>4, <1>5 DEF Judged, Verdict, r

LEMMA OutdatedItem ==
  ASSUME NEW n, NEW knd, NEW artifact, NEW operation, NEW method,
         NEW signature, NEW binding, NEW path, NEW validity, NEW revocation, NEW sensitive
  PROVE  LET checks == Checks(signature, binding, path, validity, revocation, sensitive)
             item == Item(n, knd, artifact, operation, checks, method)
         IN  Outdated(item) <=> "Fail" \in {validity.state, revocation.state}
<1> DEFINE checks == Checks(signature, binding, path, validity, revocation, sensitive)
           item == Item(n, knd, artifact, operation, checks, method)
<1>1. item.checks["validity"] = validity /\ item.checks["revocation"] = revocation
  BY ItemFields, ChecksFields
<1> HIDE DEF item
<1>2. Outdated(item) <=> "Fail" \in {validity.state, revocation.state}
  BY <1>1 DEF Outdated
<1> QED
  BY <1>2 DEF item

LEMMA StatesOf ==
  ASSUME NEW state, NEW v
  PROVE  /\ observed(state).state = state
         /\ check_from_verdict(v).state = "Fail" <=> v = "Reject"
BY DEF observed, check_from_verdict

LEMMA CatalystMeans ==
  ASSUME NEW g, NEW p \in {"EndEntity", "Intermediate"}, Digested(g)
  PROVE  LET n == CatalystNode(g, p)
             e == CatalystItems(g, p)
             failed == {"Fail", "NotApplicable"}
         IN  /\ ItemsOf(n, e)
             /\ ItemPasses(n, e[1]) <=>
                  /\ g[<<p, "crl_status">>][1] = "Pass" /\ g[<<"path", "valid_path">>] = "Accept"
                  /\ g[<<p, "validity">>] = "Pass" /\ g[<<p, "crl_status">>][2] = "Pass"
                  /\ g[<<p, "valid_default">>] = "Accept"
                  /\ g[<<p, "invalid_classical_path">>] = "Reject"
             /\ ItemFails(e[1]) <=>
                  \/ g[<<p, "crl_status">>][1] \in failed \/ g[<<"path", "valid_path">>] = "Reject"
                  \/ g[<<p, "validity">>] \in failed \/ g[<<p, "crl_status">>][2] \in failed
                  \/ /\ g[<<p, "valid_default">>] = "Accept"
                     /\ g[<<p, "invalid_classical_path">>] = "Accept"
             /\ ItemFails(e[2]) <=>
                  \/ g[<<p, "valid_alternative">>] = "Reject"
                  \/ g[<<p, "validity">>] \in failed \/ g[<<p, "crl_status">>][2] \in failed
                  \/ /\ g[<<p, "valid_default">>] = "Accept"
                     /\ g[<<p, "valid_alternative">>] = "Accept"
                     /\ g[<<p, "invalid_alternative">>] = "Reject"
                     /\ g[<<p, "invalid_alternative_path">>] = "Accept"
             /\ Outdated(e[2]) <=>
                  g[<<p, "validity">>] = "Fail" \/ g[<<p, "crl_status">>][2] = "Fail"
<1> DEFINE n == CatalystNode(g, p)
           e == CatalystItems(g, p)
           failed == {"Fail", "NotApplicable"}
           issued == observed(g[<<p, "crl_status">>][1])
           alternative == check_from_verdict(g[<<p, "valid_alternative">>])
           path == check_from_verdict(g[<<"path", "valid_path">>])
           validity == observed(g[<<p, "validity">>])
           crl == observed(g[<<p, "crl_status">>][2])
           classical == outcome_check(g[<<p, "valid_default">>],
                                      g[<<p, "invalid_classical_path">>], TRUE)
           pq == outcome_check(g[<<p, "valid_default">>], g[<<p, "invalid_alternative_path">>],
                               /\ g[<<p, "valid_alternative">>] = "Accept"
                               /\ g[<<p, "invalid_alternative">>] = "Reject")
           x == Checks(issued, not_applicable, path, validity, crl, classical)
           y == Checks(alternative, alternative, alternative, validity, crl, pq)
<1>1. /\ n.position = p /\ n.der_sha256 # None /\ n.issuer_edge_sha256 # None
  BY NodeOfFields DEF CatalystNode, Digested
<1>2. e = <<Item(n, "Classical", n.der_sha256, None, x, "Crl"),
            Item(n, "PostQuantum", n.der_sha256, None, y, "Crl")>>
  <2> HIDE DEF n
  <2>1. e = catalyst_position_evidence(g, n)
    BY DEF CatalystItems, n
  <2> QED
    BY <1>1, <2>1 DEF catalyst_position_evidence
<1>3. /\ Passes(path, FALSE) <=> g[<<"path", "valid_path">>] = "Accept"
      /\ Fails(path, FALSE) <=> g[<<"path", "valid_path">>] = "Reject"
      /\ Fails(alternative, FALSE) <=> g[<<p, "valid_alternative">>] = "Reject"
      /\ Fails(alternative, TRUE) <=> g[<<p, "valid_alternative">>] = "Reject"
  BY VerdictStates
<1>4. /\ Passes(issued, FALSE) <=> g[<<p, "crl_status">>][1] = "Pass"
      /\ Fails(issued, FALSE) <=> g[<<p, "crl_status">>][1] \in failed
      /\ Passes(validity, FALSE) <=> g[<<p, "validity">>] = "Pass"
      /\ Fails(validity, FALSE) <=> g[<<p, "validity">>] \in failed
      /\ Passes(crl, FALSE) <=> g[<<p, "crl_status">>][2] = "Pass"
      /\ Fails(crl, FALSE) <=> g[<<p, "crl_status">>][2] \in failed
      /\ Passes(not_applicable, TRUE) /\ ~Fails(not_applicable, TRUE)
  BY CheckStates DEF not_applicable
<1>5. /\ Passes(classical, FALSE) <=>
           g[<<p, "valid_default">>] = "Accept" /\ g[<<p, "invalid_classical_path">>] = "Reject"
      /\ Fails(classical, FALSE) <=>
           g[<<p, "valid_default">>] = "Accept" /\ g[<<p, "invalid_classical_path">>] = "Accept"
  BY OutcomeStates
<1>6. Fails(pq, FALSE) <=>
        /\ g[<<p, "valid_default">>] = "Accept"
        /\ g[<<p, "valid_alternative">>] = "Accept" /\ g[<<p, "invalid_alternative">>] = "Reject"
        /\ g[<<p, "invalid_alternative_path">>] = "Accept"
  BY OutcomeStates
<1>7. validity.state = g[<<p, "validity">>] /\ crl.state = g[<<p, "crl_status">>][2]
  BY StatesOf
<1> HIDE DEF n, e, issued, alternative, path, validity, crl, classical, pq
<1>8. ItemsOf(n, e)
  BY <1>2, ItemFields DEF ItemsOf
<1>9. /\ ItemPasses(n, e[1]) <=> Sound(issued, not_applicable, path, validity, crl, classical)
      /\ ItemFails(e[1]) <=> Broken(issued, not_applicable, path, validity, crl, classical)
  BY <1>1, <1>2, ItemMeans
<1>10. ItemFails(e[2]) <=> Broken(alternative, alternative, alternative, validity, crl, pq)
  BY <1>1, <1>2, ItemMeans
<1>11. Outdated(e[2]) <=> "Fail" \in {validity.state, crl.state}
  BY <1>2, OutdatedItem
<1> QED
  BY <1>3, <1>4, <1>5, <1>6, <1>7, <1>8, <1>9, <1>10, <1>11 DEF Sound, Broken, n, e

LEMMA ChameleonMeans ==
  ASSUME NEW g, NEW p \in {"EndEntity", "Intermediate"}, Digested(g)
  PROVE  LET n == ChameleonNode(g, p)
             e == ChameleonItems(g, p)
         IN  /\ ItemsOf(n, e)
             /\ ItemPasses(n, e[1]) <=>
                  /\ g[<<p, "delta_signature">>] = "Accept"
                  /\ g[<<"path", "delta_path">>] = "Accept"
                  /\ g[<<p, "delta_validity">>] = "Pass" /\ g[<<p, "delta_crl">>] = "Accept"
                  /\ g[<<"path", "base_path">>] = "Accept"
                  /\ g[<<p, "invalid_delta_signature">>] = "Reject"
                  /\ g[<<p, "invalid_delta_path">>] = "Reject"
             /\ ItemFails(e[1]) <=>
                  \/ g[<<p, "delta_signature">>] = "Reject"
                  \/ g[<<"path", "delta_path">>] = "Reject"
                  \/ g[<<p, "delta_validity">>] \in {"Fail", "NotApplicable"}
                  \/ g[<<p, "delta_crl">>] = "Reject"
                  \/ /\ g[<<"path", "base_path">>] = "Accept"
                     /\ g[<<p, "delta_signature">>] = "Accept"
                     /\ g[<<p, "invalid_delta_signature">>] = "Reject"
                     /\ g[<<p, "invalid_delta_path">>] = "Accept"
<1> DEFINE n == ChameleonNode(g, p)
           e == ChameleonItems(g, p)
           delta == check_from_verdict(g[<<p, "delta_signature">>])
           path == check_from_verdict(g[<<"path", "delta_path">>])
           validity == observed(g[<<p, "delta_validity">>])
           crl == check_from_verdict(g[<<p, "delta_crl">>])
           classical == dual_outcome(g, p, "base_path", "delta_signature",
                                     "invalid_delta_signature", "invalid_delta_path")
           x == Checks(delta, delta, path, validity, crl, classical)
           y == Checks(check_from_verdict(g[<<p, "base_signature">>]), not_applicable,
                       check_from_verdict(g[<<"path", "base_path">>]),
                       observed(g[<<p, "base_validity">>]),
                       check_from_verdict(g[<<p, "base_crl">>]),
                       dual_outcome(g, p, "base_path", "base_signature",
                                    "invalid_base_signature", "invalid_base_path"))
<1>1. /\ n.position = p /\ n.der_sha256 # None /\ n.issuer_edge_sha256 # None
  BY NodeOfFields DEF ChameleonNode, Digested
<1>2. e = <<Item(n, "Classical", n.der_sha256, None, x, "Crl"),
            Item(n, "PostQuantum", n.der_sha256, None, y, "Crl")>>
  <2> HIDE DEF n
  <2>1. e = chameleon_position_evidence(g, n)
    BY DEF ChameleonItems, n
  <2> QED
    BY <1>1, <2>1 DEF chameleon_position_evidence
<1>3. /\ Passes(delta, FALSE) <=> g[<<p, "delta_signature">>] = "Accept"
      /\ Fails(delta, FALSE) <=> g[<<p, "delta_signature">>] = "Reject"
      /\ Passes(delta, TRUE) <=> g[<<p, "delta_signature">>] = "Accept"
      /\ Fails(delta, TRUE) <=> g[<<p, "delta_signature">>] = "Reject"
      /\ Passes(path, FALSE) <=> g[<<"path", "delta_path">>] = "Accept"
      /\ Fails(path, FALSE) <=> g[<<"path", "delta_path">>] = "Reject"
      /\ Passes(crl, FALSE) <=> g[<<p, "delta_crl">>] = "Accept"
      /\ Fails(crl, FALSE) <=> g[<<p, "delta_crl">>] = "Reject"
  BY VerdictStates
<1>4. /\ Passes(validity, FALSE) <=> g[<<p, "delta_validity">>] = "Pass"
      /\ Fails(validity, FALSE) <=> g[<<p, "delta_validity">>] \in {"Fail", "NotApplicable"}
  BY CheckStates
<1>5. /\ Passes(classical, FALSE) <=>
           /\ g[<<"path", "base_path">>] = "Accept" /\ g[<<p, "delta_signature">>] = "Accept"
           /\ g[<<p, "invalid_delta_signature">>] = "Reject"
           /\ g[<<p, "invalid_delta_path">>] = "Reject"
      /\ Fails(classical, FALSE) <=>
           /\ g[<<"path", "base_path">>] = "Accept" /\ g[<<p, "delta_signature">>] = "Accept"
           /\ g[<<p, "invalid_delta_signature">>] = "Reject"
           /\ g[<<p, "invalid_delta_path">>] = "Accept"
  BY OutcomeStates DEF dual_outcome
<1> HIDE DEF n, e, delta, path, validity, crl, classical, y
<1>6. ItemsOf(n, e)
  BY <1>2, ItemFields DEF ItemsOf
<1>7. /\ ItemPasses(n, e[1]) <=> Sound(delta, delta, path, validity, crl, classical)
      /\ ItemFails(e[1]) <=> Broken(delta, delta, path, validity, crl, classical)
  BY <1>1, <1>2, ItemMeans
<1> QED
  BY <1>3, <1>4, <1>5, <1>6, <1>7 DEF Sound, Broken, n, e

LEMMA RelatedMeans ==
  ASSUME NEW g, NEW p \in {"EndEntity", "Intermediate"}, Digested(g)
  PROVE  LET n == RelatedNode(g, p)
             e == RelatedItems(g, p)
         IN  /\ ItemsOf(n, e)
             /\ ItemPasses(n, e[1]) <=>
                  /\ g[<<p, "classical_signature">>] = "Accept"
                  /\ g[<<"path", "classical_path">>] = "Accept"
                  /\ g[<<p, "classical_validity">>] = "Pass"
                  /\ g[<<p, "classical_crl">>] = "Accept"
                  /\ g[<<p, "invalid_classical_signature">>] = "Reject"
                  /\ g[<<p, "invalid_classical_path">>] = "Reject"
             /\ ItemFails(e[1]) <=>
                  \/ g[<<p, "classical_signature">>] = "Reject"
                  \/ g[<<"path", "classical_path">>] = "Reject"
                  \/ g[<<p, "classical_validity">>] \in {"Fail", "NotApplicable"}
                  \/ g[<<p, "classical_crl">>] = "Reject"
                  \/ /\ g[<<"path", "classical_path">>] = "Accept"
                     /\ g[<<p, "classical_signature">>] = "Accept"
                     /\ g[<<p, "invalid_classical_signature">>] = "Reject"
                     /\ g[<<p, "invalid_classical_path">>] = "Accept"
             /\ Outdated(e[2]) <=>
                  \/ g[<<p, "post_quantum_validity">>] = "Fail"
                  \/ g[<<p, "post_quantum_crl">>] = "Reject"
<1> DEFINE n == RelatedNode(g, p)
           e == RelatedItems(g, p)
           signature == check_from_verdict(g[<<p, "classical_signature">>])
           path == check_from_verdict(g[<<"path", "classical_path">>])
           validity == observed(g[<<p, "classical_validity">>])
           crl == check_from_verdict(g[<<p, "classical_crl">>])
           classical == dual_outcome(g, p, "classical_path", "classical_signature",
                                     "invalid_classical_signature", "invalid_classical_path")
           valid == observed(g[<<p, "post_quantum_validity">>])
           status == check_from_verdict(g[<<p, "post_quantum_crl">>])
           bound == related_conformance_check(g[<<p, "conformance">>])
           signed == check_from_verdict(g[<<p, "post_quantum_signature">>])
           other == check_from_verdict(g[<<"path", "post_quantum_path">>])
           pq == related_post_quantum_outcome(g, p)
           artifact == g[<<p, "post_quantum_digest">>]
           x == Checks(signature, not_applicable, path, validity, crl, classical)
           y == Checks(signed, bound, other, valid, status, pq)
<1>1. /\ n.position = p /\ n.der_sha256 # None /\ n.issuer_edge_sha256 # None
  BY NodeOfFields DEF RelatedNode, Digested
<1>2. e = <<Item(n, "Classical", n.der_sha256, related_operation(n), x, "Crl"),
            Item(n, "PostQuantum", artifact, related_operation(n), y, "Crl")>>
  <2> HIDE DEF n
  <2>1. e = related_position_evidence(g, n)
    BY DEF RelatedItems, n
  <2> QED
    BY <1>1, <2>1 DEF related_position_evidence
<1>3. /\ Passes(signature, FALSE) <=> g[<<p, "classical_signature">>] = "Accept"
      /\ Fails(signature, FALSE) <=> g[<<p, "classical_signature">>] = "Reject"
      /\ Passes(path, FALSE) <=> g[<<"path", "classical_path">>] = "Accept"
      /\ Fails(path, FALSE) <=> g[<<"path", "classical_path">>] = "Reject"
      /\ Passes(crl, FALSE) <=> g[<<p, "classical_crl">>] = "Accept"
      /\ Fails(crl, FALSE) <=> g[<<p, "classical_crl">>] = "Reject"
  BY VerdictStates
<1>4. /\ Passes(validity, FALSE) <=> g[<<p, "classical_validity">>] = "Pass"
      /\ Fails(validity, FALSE) <=> g[<<p, "classical_validity">>] \in {"Fail", "NotApplicable"}
      /\ Passes(not_applicable, TRUE) /\ ~Fails(not_applicable, TRUE)
  BY CheckStates DEF not_applicable
<1>5. /\ Passes(classical, FALSE) <=>
           /\ g[<<"path", "classical_path">>] = "Accept"
           /\ g[<<p, "classical_signature">>] = "Accept"
           /\ g[<<p, "invalid_classical_signature">>] = "Reject"
           /\ g[<<p, "invalid_classical_path">>] = "Reject"
      /\ Fails(classical, FALSE) <=>
           /\ g[<<"path", "classical_path">>] = "Accept"
           /\ g[<<p, "classical_signature">>] = "Accept"
           /\ g[<<p, "invalid_classical_signature">>] = "Reject"
           /\ g[<<p, "invalid_classical_path">>] = "Accept"
  BY OutcomeStates DEF dual_outcome
<1>6. /\ valid.state = g[<<p, "post_quantum_validity">>]
      /\ status.state = "Fail" <=> g[<<p, "post_quantum_crl">>] = "Reject"
  BY StatesOf
<1> HIDE DEF n, e, signature, path, validity, crl, classical, valid, status, bound, signed, other,
             pq, artifact
<1>7. ItemsOf(n, e)
  BY <1>2, ItemFields DEF ItemsOf
<1>8. /\ ItemPasses(n, e[1]) <=> Sound(signature, not_applicable, path, validity, crl, classical)
      /\ ItemFails(e[1]) <=> Broken(signature, not_applicable, path, validity, crl, classical)
  BY <1>1, <1>2, ItemMeans
<1>9. Outdated(e[2]) <=> "Fail" \in {valid.state, status.state}
  BY <1>2, OutdatedItem
<1> QED
  BY <1>3, <1>4, <1>5, <1>6, <1>7, <1>8, <1>9 DEF Sound, Broken, n, e

\* The answer of a path-scope analysis.
LEMMA HierarchyAnswer ==
  ASSUME AnalysisInv, Answered, NEW i \in DOMAIN answers, NEW scope \in scopes(kind),
         NEW n, NEW m, NEW e, NEW f, NEW design,
         NEW v \in StackVerdict, NEW selected, NEW anchor, NEW pairs,
         submissions(kind, results)[i]
           = Submission(Presented(v, "X509Path", selected), anchor, <<n, m>>, pairs,
                        BothItems(e, f)),
         Hybrids(n, m, design), ItemsOf(n, e), ItemsOf(m, f)
  PROVE  LET r == RequestAt(i, scope)
             a == Aggregates(r)
             both == scope = "CertificationPath"
         IN  /\ Judged(i, scope, v, a)
             /\ n \in ScopedCertificates(r) /\ r.paired_authentications = pairs
             /\ a.has_classical
             /\ design # "RelatedCertificate" => a.design = "Pass"
             /\ a.classical = "Pass" <=> ItemPasses(n, e[1]) /\ (both => ItemPasses(m, f[1]))
             /\ a.classical = "Fail" <=> ItemFails(e[1]) \/ (both /\ ItemFails(f[1]))
             /\ a.pq = "Pass" <=> ItemPasses(n, e[2]) /\ (both => ItemPasses(m, f[2]))
             /\ a.pq = "Fail" <=> ItemFails(e[2]) \/ (both /\ ItemFails(f[2]))
<1> DEFINE s == submissions(kind, results)[i]
           r == Request(policy, scope, s)
           a == Aggregates(r)
           both == scope = "CertificationPath"
<1>0. scope \in PathScope
  BY AnsweredAt
<1>1. /\ s.certificate_path = <<n, m>> /\ s.evidence = BothItems(e, f)
      /\ s.stack = Presented(v, "X509Path", selected) /\ s.paired_authentications = pairs
  BY SubmissionFields
<1> HIDE DEF s
<1>s. Evidenced(s, n, m, e, f)
  BY <1>1 DEF Evidenced
<1>2. r.paired_authentications = pairs
  BY <1>1, RequestFields
<1>3. /\ Certificates(r) = {n, m} /\ n \in ScopedCertificates(r)
      /\ \A c \in Certificates(r) : ~has_unknown_crypto_property(c)
      /\ a.has_classical
      /\ design # "RelatedCertificate" => a.design = "Pass"
      /\ a.classical = "Pass" <=> ItemPasses(n, e[1]) /\ (both => ItemPasses(m, f[1]))
      /\ a.classical = "Fail" <=> ItemFails(e[1]) \/ (both /\ ItemFails(f[1]))
      /\ a.pq = "Pass" <=> ItemPasses(n, e[2]) /\ (both => ItemPasses(m, f[2]))
      /\ a.pq = "Fail" <=> ItemFails(e[2]) \/ (both /\ ItemFails(f[2]))
  BY <1>0, <1>s, HierarchyClaims
<1>4. Stacked(r) /\ r.stack.verdict = v
  BY <1>1, <1>3, PresentedRequest
<1>5. r = RequestAt(i, scope)
  BY DEF RequestAt, s
<1> HIDE DEF r
<1>6. Judged(i, scope, v, a)
  BY <1>4, <1>5, Judging
<1> QED
  BY <1>2, <1>3, <1>5, <1>6

\* A certificate's CRL status, as documented unless it is odd.
Cleared(id, what) ==
  /\ (results[<<id, what>>][1] = "Pass" /\ results[<<id, what>>][2] = "Pass") <=>
       <<id, what>> \notin DOMAIN odd
  /\ results[<<id, what>>][2] = "Pass" <=> <<id, what>> \notin DOMAIN odd
  /\ results[<<id, what>>][1] \in {"Pass", "Fail"}
  /\ results[<<id, what>>][2] \in {"Pass", "Fail", "Indeterminate"}

LEMMA StatusResult ==
  ASSUME AnalysisInv, NEW id, NEW what,
         Does(Table[kind], id, what, {"crl_status"}, <<"Pass", "Pass">>,
              CrlAnswers \ {<<"Pass", "Pass">>})
  PROVE  Cleared(id, what)
<1>1. /\ results[<<id, what>>] = <<"Pass", "Pass">> <=> <<id, what>> \notin DOMAIN odd
      /\ results[<<id, what>>] \in CrlAnswers
  BY ResultOf DEF CrlAnswers
<1> DEFINE x == results[<<id, what>>]
<1> HIDE DEF x
<1>2. /\ (x[1] = "Pass" /\ x[2] = "Pass") <=> x = <<"Pass", "Pass">>
      /\ x[2] = "Pass" <=> x = <<"Pass", "Pass">>
      /\ x[1] \in {"Pass", "Fail"} /\ x[2] \in {"Pass", "Fail", "Indeterminate"}
  BY <1>1 DEF x, CrlAnswers
<1> QED
  BY <1>1, <1>2 DEF Cleared, x

CatalystResults(p) ==
  /\ Cleared(p, "crl_status") /\ Held(p, "validity") /\ Ran(p, "valid_default", "Accept")
  /\ Ran(p, "invalid_classical_path", "Reject") /\ Ran(p, "valid_alternative", "Accept")
  /\ Ran(p, "invalid_alternative", "Reject") /\ Ran(p, "invalid_alternative_path", "Accept")

LEMMA CatalystKnown ==
  ASSUME AnalysisInv, kind = "catalyst"
  PROVE  /\ Ran("path", "valid_path", "Accept") /\ Digested(results)
         /\ CatalystResults("EndEntity") /\ CatalystResults("Intermediate")
<1>1. Table[kind] = catalyst_steps
  BY TablesAreDistinct DEF AnalysisInv, StepsOf
<1>2. /\ Runs(Table[kind], "path", "valid_path", "Accept")
      /\ CatalystAt(Table[kind], "EndEntity") /\ CatalystAt(Table[kind], "Intermediate")
  BY <1>1, CatalystTable
<1>3. {"Accept", "Reject"} \subseteq StackVerdict
  BY DEF StackVerdict
<1>4. ASSUME NEW p, CatalystAt(Table[kind], p)
      PROVE  /\ CatalystResults(p)
             /\ results[<<p, "digest">>] # None /\ results[<<p, "edge">>] # None
  <2>1. Cleared(p, "crl_status")
    BY <1>4, StatusResult DEF CatalystAt
  <2> QED
    BY <1>3, <1>4, <2>1, ResultsAre DEF CatalystAt, CatalystResults
<1> QED
  BY <1>2, <1>3, <1>4, ResultsAre DEF Digested

LEMMA CatalystAnswer ==
  ASSUME AnalysisInv, Answered, kind = "catalyst", NEW scope \in scopes(kind), 1 \in DOMAIN answers
  PROVE  LET g == results
             a == Aggregates(RequestAt(1, scope))
             n == CatalystNode(g, "EndEntity")
             m == CatalystNode(g, "Intermediate")
             e == CatalystItems(g, "EndEntity")
             f == CatalystItems(g, "Intermediate")
             both == scope = "CertificationPath"
         IN  /\ Judged(1, scope, g[<<"path", "valid_path">>], a)
             /\ a.has_classical /\ a.design = "Pass"
             /\ a.classical = "Pass" <=> ItemPasses(n, e[1]) /\ (both => ItemPasses(m, f[1]))
             /\ a.classical = "Fail" <=> ItemFails(e[1]) \/ (both /\ ItemFails(f[1]))
             /\ a.pq = "Fail" <=> ItemFails(e[2]) \/ (both /\ ItemFails(f[2]))
<1> DEFINE g == results
           n == CatalystNode(g, "EndEntity")
           m == CatalystNode(g, "Intermediate")
           e == CatalystItems(g, "EndEntity")
           f == CatalystItems(g, "Intermediate")
           v == g[<<"path", "valid_path">>]
<1>1. submissions(kind, g)[1]
        = Submission(Presented(v, "X509Path", g[<<"path", "selected">>]),
                     g[<<"anchor", "digest">>], <<n, m>>, <<>>, BothItems(e, f))
  BY CatalystForm DEF submissions
<1>2. v \in StackVerdict /\ Digested(g)
  BY CatalystKnown DEF Ran
<1>3. ItemsOf(n, e) /\ ItemsOf(m, f)
  BY <1>2, CatalystMeans
<1>4. Hybrids(n, m, "Catalyst")
  BY HybridNodes
<1> HIDE DEF n, m, e, f, v
<1> QED
  BY <1>1, <1>2, <1>3, <1>4, HierarchyAnswer DEF n, m, e, f, v

LEMMA AtomicAnswer ==
  ASSUME AnalysisInv, Answered, kind \in {"atomic", "cross_signed"}, NEW scope \in scopes(kind),
           1 \in DOMAIN answers
  PROVE  LET g == results
             a == Aggregates(RequestAt(1, scope))
             n == AtomicNode(g, "EndEntity")
             m == AtomicNode(g, "Intermediate")
             e == AtomicItems(g, "EndEntity")
             f == AtomicItems(g, "Intermediate")
             both == scope = "CertificationPath"
         IN  /\ Judged(1, scope, g[<<"path", "valid_path">>], a)
             /\ a.has_classical /\ a.design = "Pass"
             /\ a.classical = "Pass" <=> ItemPasses(n, e[1]) /\ (both => ItemPasses(m, f[1]))
             /\ a.classical = "Fail" <=> ItemFails(e[1]) \/ (both /\ ItemFails(f[1]))
             /\ a.pq = "Fail" <=> ItemFails(e[2]) \/ (both /\ ItemFails(f[2]))
<1> DEFINE g == results
           n == AtomicNode(g, "EndEntity")
           m == AtomicNode(g, "Intermediate")
           e == AtomicItems(g, "EndEntity")
           f == AtomicItems(g, "Intermediate")
           v == g[<<"path", "valid_path">>]
<1>1. submissions(kind, g)[1]
        = Submission(Presented(v, "X509Path", g[<<"path", "selected">>]),
                     g[<<"anchor", "digest">>], <<n, m>>, <<>>, BothItems(e, f))
  BY AtomicForm DEF submissions
<1>2. v \in StackVerdict /\ Digested(g)
  BY AtomicKnown DEF Ran
<1>3. ItemsOf(n, e) /\ ItemsOf(m, f)
  BY <1>2, AtomicMeans
<1>4. Hybrids(n, m, "AtomicComposite")
  BY HybridNodes
<1> HIDE DEF n, m, e, f, v
<1> QED
  BY <1>1, <1>2, <1>3, <1>4, HierarchyAnswer DEF n, m, e, f, v

ChameleonResults(p) ==
  /\ Ran(p, "delta_signature", "Accept") /\ Held(p, "delta_validity")
  /\ Ran(p, "delta_crl", "Accept") /\ Ran(p, "invalid_delta_signature", "Reject")
  /\ Ran(p, "invalid_delta_path", "Accept")

LEMMA ChameleonKnown ==
  ASSUME AnalysisInv, kind = "chameleon"
  PROVE  /\ Ran("path", "base_path", "Accept") /\ Ran("path", "delta_path", "Accept")
         /\ Digested(results)
         /\ ChameleonResults("EndEntity") /\ ChameleonResults("Intermediate")
<1>1. Table[kind] = chameleon_steps
  BY TablesAreDistinct DEF AnalysisInv, StepsOf
<1>2. /\ Runs(Table[kind], "path", "base_path", "Accept")
      /\ Runs(Table[kind], "path", "delta_path", "Accept")
      /\ ChameleonAt(Table[kind], "EndEntity") /\ ChameleonAt(Table[kind], "Intermediate")
  BY <1>1, ChameleonTable
<1>3. {"Accept", "Reject"} \subseteq StackVerdict
  BY DEF StackVerdict
<1>4. ASSUME NEW p, ChameleonAt(Table[kind], p)
      PROVE  /\ ChameleonResults(p)
             /\ results[<<p, "digest">>] # None /\ results[<<p, "edge">>] # None
  BY <1>3, <1>4, ResultsAre DEF ChameleonAt, ChameleonResults
<1> QED
  BY <1>2, <1>3, <1>4, ResultsAre DEF Digested

LEMMA ChameleonAnswer ==
  ASSUME AnalysisInv, Answered, kind = "chameleon", NEW scope \in scopes(kind), 1 \in DOMAIN answers
  PROVE  LET g == results
             a == Aggregates(RequestAt(1, scope))
             n == ChameleonNode(g, "EndEntity")
             m == ChameleonNode(g, "Intermediate")
             e == ChameleonItems(g, "EndEntity")
             f == ChameleonItems(g, "Intermediate")
             both == scope = "CertificationPath"
         IN  /\ Judged(1, scope, g[<<"path", "base_path">>], a)
             /\ a.has_classical /\ a.design = "Pass"
             /\ a.classical = "Pass" <=> ItemPasses(n, e[1]) /\ (both => ItemPasses(m, f[1]))
             /\ a.classical = "Fail" <=> ItemFails(e[1]) \/ (both /\ ItemFails(f[1]))
             /\ a.pq = "Fail" <=> ItemFails(e[2]) \/ (both /\ ItemFails(f[2]))
<1> DEFINE g == results
           n == ChameleonNode(g, "EndEntity")
           m == ChameleonNode(g, "Intermediate")
           e == ChameleonItems(g, "EndEntity")
           f == ChameleonItems(g, "Intermediate")
           v == g[<<"path", "base_path">>]
<1>1. submissions(kind, g)[1]
        = Submission(Presented(v, "X509Path", g[<<"path", "selected">>]),
                     g[<<"anchor", "digest">>], <<n, m>>, <<>>, BothItems(e, f))
  BY ChameleonForm DEF submissions
<1>2. v \in StackVerdict /\ Digested(g)
  BY ChameleonKnown DEF Ran
<1>3. ItemsOf(n, e) /\ ItemsOf(m, f)
  BY <1>2, ChameleonMeans
<1>4. Hybrids(n, m, "Chameleon")
  BY HybridNodes
<1> HIDE DEF n, m, e, f, v
<1> QED
  BY <1>1, <1>2, <1>3, <1>4, HierarchyAnswer DEF n, m, e, f, v

RelatedResults(p) ==
  /\ Ran(p, "classical_signature", "Accept") /\ Held(p, "classical_validity")
  /\ Ran(p, "classical_crl", "Accept") /\ Ran(p, "invalid_classical_signature", "Reject")
  /\ Ran(p, "invalid_classical_path", "Reject")
  /\ Held(p, "post_quantum_validity") /\ Ran(p, "post_quantum_crl", "Accept")

LEMMA RelatedKnown ==
  ASSUME AnalysisInv, kind = "related"
  PROVE  /\ Ran("path", "classical_path", "Accept") /\ Digested(results)
         /\ RelatedResults("EndEntity") /\ RelatedResults("Intermediate")
<1>1. Table[kind] = related_steps
  BY TablesAreDistinct DEF AnalysisInv, StepsOf
<1>2. /\ Runs(Table[kind], "path", "classical_path", "Accept")
      /\ RelatedAt(Table[kind], "EndEntity") /\ RelatedAt(Table[kind], "Intermediate")
  BY <1>1, RelatedTable
<1>3. {"Accept", "Reject"} \subseteq StackVerdict
  BY DEF StackVerdict
<1>4. ASSUME NEW p, RelatedAt(Table[kind], p)
      PROVE  /\ RelatedResults(p)
             /\ results[<<p, "digest">>] # None /\ results[<<p, "edge">>] # None
  BY <1>3, <1>4, ResultsAre DEF RelatedAt, RelatedResults
<1> QED
  BY <1>2, <1>3, <1>4, ResultsAre DEF Digested

\* A related certificate that was used with no other.
LEMMA UnpairedDesign ==
  ASSUME NEW r, NEW n \in ScopedCertificates(r),
         \A pair \in Pairs(r) : pair.same_authentication_operation = observed("Fail"),
         n.binding_design = "RelatedCertificate", n.certificate_signature_scheme = "Classical"
  PROVE  Aggregates(r).design = "Fail"
<1>1. \A pair \in pair_of(r, n) : pair.same_authentication_operation = observed("Fail")
  BY DEF pair_of
<1>2. ~has_hybrid_certificate_signature_design(n)
  BY NodeClaims
<1>3. required_check_state(observed("Fail"), FALSE) = "Fail"
  BY CheckStates DEF Fails
<1>4. "Fail" \in design_states(r, n)
  BY <1>1, <1>2, <1>3 DEF design_states
<1> QED
  BY <1>4, FailedDesign

LEMMA RelatedAnswer ==
  ASSUME AnalysisInv, Answered, kind = "related", NEW scope \in scopes(kind), 1 \in DOMAIN answers
  PROVE  LET g == results
             a == Aggregates(RequestAt(1, scope))
             n == RelatedNode(g, "EndEntity")
             m == RelatedNode(g, "Intermediate")
             e == RelatedItems(g, "EndEntity")
             f == RelatedItems(g, "Intermediate")
             both == scope = "CertificationPath"
         IN  /\ Judged(1, scope, g[<<"path", "classical_path">>], a)
             /\ a.has_classical /\ a.design = "Fail"
             /\ a.classical = "Pass" <=> ItemPasses(n, e[1]) /\ (both => ItemPasses(m, f[1]))
             /\ a.classical = "Fail" <=> ItemFails(e[1]) \/ (both /\ ItemFails(f[1]))
             /\ a.pq = "Fail" <=> ItemFails(e[2]) \/ (both /\ ItemFails(f[2]))
<1> DEFINE g == results
           n == RelatedNode(g, "EndEntity")
           m == RelatedNode(g, "Intermediate")
           e == RelatedItems(g, "EndEntity")
           f == RelatedItems(g, "Intermediate")
           v == g[<<"path", "classical_path">>]
<1>1. submissions(kind, g)[1]
        = Submission(Presented(v, "X509Path", g[<<"path", "selected">>]),
                     g[<<"anchor", "digest">>], <<n, m>>,
                     <<RelatedPair(g, "EndEntity"), RelatedPair(g, "Intermediate")>>,
                     BothItems(e, f))
  BY RelatedForm DEF submissions
<1>2. v \in StackVerdict /\ Digested(g)
  BY RelatedKnown DEF Ran
<1>3. ItemsOf(n, e) /\ ItemsOf(m, f)
  BY <1>2, RelatedMeans
<1>4. Hybrids(n, m, "RelatedCertificate")
  BY HybridNodes
<1> DEFINE r == RequestAt(1, scope)
           a == Aggregates(r)
           pair == RelatedPair(g, "EndEntity")
           other == RelatedPair(g, "Intermediate")
           both == scope = "CertificationPath"
<1>5. /\ n.binding_design = "RelatedCertificate" /\ n.certificate_signature_scheme = "Classical"
      /\ pair.same_authentication_operation = observed("Fail")
      /\ other.same_authentication_operation = observed("Fail")
  BY <1>4 DEF Hybrids, RelatedPair, UnpairedUse
<1> HIDE DEF n, m, e, f, v, r, pair, other
<1>6. /\ Judged(1, scope, v, a)
      /\ n \in ScopedCertificates(r) /\ r.paired_authentications = <<pair, other>>
      /\ a.has_classical
      /\ a.classical = "Pass" <=> ItemPasses(n, e[1]) /\ (both => ItemPasses(m, f[1]))
      /\ a.classical = "Fail" <=> ItemFails(e[1]) \/ (both /\ ItemFails(f[1]))
      /\ a.pq = "Fail" <=> ItemFails(e[2]) \/ (both /\ ItemFails(f[2]))
  BY <1>1, <1>2, <1>3, <1>4, HierarchyAnswer DEF r, pair, other
<1>7. a.design = "Fail"
  <2>1. Pairs(r) = {pair, other}
    BY <1>6, TupleRange DEF Pairs
  <2> QED
    BY <1>5, <1>6, <2>1, UnpairedDesign
<1> QED
  BY <1>6, <1>7 DEF n, m, e, f, v, r

\* The post-quantum evidence in scope.
LEMMA HierarchyEvidence ==
  ASSUME NEW p, NEW scope \in PathScope, NEW s, NEW n, NEW m, NEW e, NEW f, NEW design,
         Hybrids(n, m, design), Evidenced(s, n, m, e, f)
  PROVE  OfKind(Request(p, scope, s), "PostQuantum")
           = IF scope = "CertificationPath" THEN {e[2], f[2]} ELSE {e[2]}
<1> DEFINE r == Request(p, scope, s)
<1>1. r.path_scope = scope /\ r.evidence = BothItems(e, f)
  BY RequestFields DEF Evidenced
<1> HIDE DEF r
<1> DEFINE ci == e[1]  qi == e[2]  cj == f[1]  qj == f[2]
<1>2. EvidenceItems(r) = {ci, qi, cj, qj}
  BY <1>1, TupleRange DEF EvidenceItems, BothItems
<1>3. /\ ci.kind = "Classical" /\ qi.kind = "PostQuantum" /\ qi.position = "EndEntity"
      /\ cj.kind = "Classical" /\ qj.kind = "PostQuantum" /\ qj.position = "Intermediate"
  BY DEF Evidenced, ItemsOf, Hybrids
<1> HIDE DEF ci, qi, cj, qj
<1>4. OfKind(r, "PostQuantum") = IF scope = "CertificationPath" THEN {qi, qj} ELSE {qi}
  BY <1>1, <1>2, <1>3 DEF OfKind, InScope, includes, PathScope
<1> QED
  BY <1>4 DEF r, qi, qj

-----------------------------------------------------------------------------
(* Analyses of one credential *)

CredentialNode(g, signature, design) ==
  Node("end-entity", "EndEntity", "Classical", signature, design,
       g[<<"node", "digest">>], g[<<"node", "edge">>])
CredentialIssuer(g) ==
  Node("issuer", "Intermediate", "Classical", "Classical", "None",
       g[<<"issuer", "digest">>], g[<<"issuer", "edge">>])

\* The digests of the credential.
Identified(g) ==
  /\ g[<<"node", "digest">>] # None /\ g[<<"node", "edge">>] # None
  /\ g[<<"evidence", "digest">>] # None /\ g[<<"evidence", "edge">>] # None

LEMMA CredentialNodeFields ==
  ASSUME NEW g, NEW signature, NEW design
  PROVE  LET n == CredentialNode(g, signature, design) IN
         /\ n.id = <<"end-entity">> /\ n.position = "EndEntity"
         /\ n.subject_public_key_scheme = "Classical"
         /\ n.certificate_signature_scheme = signature /\ n.binding_design = design
         /\ n.der_sha256 = g[<<"node", "digest">>] /\ n.issuer_edge_sha256 = g[<<"node", "edge">>]
BY NodeFields DEF CredentialNode

LEMMA LeafItemMeans ==
  ASSUME NEW g, Identified(g), NEW n, NEW knd, NEW artifact, NEW operation, NEW method,
         NEW signature, NEW binding, NEW path, NEW validity, NEW revocation, NEW sensitive,
         n.der_sha256 # None, n.issuer_edge_sha256 # None, artifact # None
  PROVE  LET checks == Checks(signature, binding, path, validity, revocation, sensitive)
             item == LeafItem(g, n, knd, artifact, operation, checks, method)
         IN  /\ ItemPasses(n, item) <=>
                  Sound(signature, binding, path, validity, revocation, sensitive)
             /\ ItemFails(item) <=>
                  Broken(signature, binding, path, validity, revocation, sensitive)
             /\ Outdated(item) <=> "Fail" \in {validity.state, revocation.state}
<1> DEFINE checks == Checks(signature, binding, path, validity, revocation, sensitive)
           item == LeafItem(g, n, knd, artifact, operation, checks, method)
<1>1. item.checks = checks
  BY LeafItemFields
<1>2. evidence_binding_state(n, item) = "Pass"
  <2>1. /\ item.certificate_der_sha256 = g[<<"evidence", "digest">>]
        /\ item.evidence_artifact_der_sha256 = artifact
        /\ item.issuer_edge_sha256 = g[<<"evidence", "edge">>]
    BY LeafItemFields
  <2> HIDE DEF item
  <2> QED
    BY <2>1 DEF evidence_binding_state, Identified
<1>3. /\ checks["present"] = pass /\ checks["recognized"] = pass
      /\ checks["signature"] = signature /\ checks["binding"] = binding
      /\ checks["path"] = path /\ checks["validity"] = validity
      /\ checks["revocation"] = revocation /\ checks["decision_sensitive"] = sensitive
  BY ChecksFields
<1> HIDE DEF checks, item
<1>4. /\ item.checks["present"] = pass /\ item.checks["recognized"] = pass
      /\ item.checks["signature"] = signature /\ item.checks["binding"] = binding
      /\ item.checks["path"] = path /\ item.checks["validity"] = validity
      /\ item.checks["revocation"] = revocation /\ item.checks["decision_sensitive"] = sensitive
  BY <1>1, <1>3
<1>5. /\ ItemPasses(n, item) <=>
           Sound(signature, binding, path, validity, revocation, sensitive)
      /\ ItemFails(item) <=>
           Broken(signature, binding, path, validity, revocation, sensitive)
  BY <1>2, <1>4, ItemStates
<1>6. Outdated(item) <=> "Fail" \in {validity.state, revocation.state}
  BY <1>4 DEF Outdated
<1> QED
  BY <1>5, <1>6 DEF item, checks

\* A credential of a hybrid design under an issuer of none, and its two items.
Credential(n, m, design, e) ==
  /\ design \in {"AtomicComposite", "Catalyst", "Chameleon", "RelatedCertificate"}
  /\ n.position = "EndEntity" /\ m.position = "Intermediate"
  /\ n.binding_design = design /\ n.subject_public_key_scheme = "Classical"
  /\ n.certificate_signature_scheme \in {"Classical", "Hybrid"}
  /\ design = "RelatedCertificate" => n.certificate_signature_scheme = "Classical"
  /\ m.binding_design = "None" /\ m.subject_public_key_scheme = "Classical"
  /\ m.certificate_signature_scheme = "Classical"
  /\ e = <<e[1], e[2]>> /\ ItemsOf(n, e)

Presents(s, n, m, e) == s.certificate_path = <<n, m>> /\ s.evidence = e

LEMMA CredentialClaims ==
  ASSUME NEW p, NEW s, NEW n, NEW m, NEW e, NEW design, Credential(n, m, design, e),
         Presents(s, n, m, e)
  PROVE  LET r == Request(p, "EndEntity", s)
             a == Aggregates(r)
         IN  /\ n \in ScopedCertificates(r)
             /\ \A c \in Certificates(r) : ~has_unknown_crypto_property(c)
             /\ a.has_classical
             /\ design # "RelatedCertificate" => a.design = "Pass"
             /\ a.classical = "Pass" <=> ItemPasses(n, e[1])
             /\ a.classical = "Fail" <=> ItemFails(e[1])
             /\ a.pq = "Pass" <=> ItemPasses(n, e[2])
             /\ a.pq = "Fail" <=> ItemFails(e[2])
             /\ \A item \in OfKind(r, "PostQuantum") : item = e[2]
             /\ e[2] \in OfKind(r, "PostQuantum")
<1> DEFINE r == Request(p, "EndEntity", s)
           c == e[1]
           q == e[2]
<1>1. /\ r.path_scope = "EndEntity" /\ r.revocation_policy.mode = "HardFail"
      /\ r.certificate_path = <<n, m>> /\ r.evidence = <<c, q>>
  BY RequestFields DEF Credential, Presents
<1>2. /\ c.certificate_id = n.id /\ c.position = "EndEntity" /\ c.kind = "Classical"
      /\ q.certificate_id = n.id /\ q.position = "EndEntity" /\ q.kind = "PostQuantum"
  BY DEF Credential, ItemsOf
<1> HIDE DEF r, c, q
<1>3. Certificates(r) = {n, m} /\ EvidenceItems(r) = {c, q}
  BY <1>1, TupleRange DEF Certificates, EvidenceItems
<1>4. /\ requires_classical_certificate_signature_evidence(n)
      /\ requires_post_quantum_certificate_signature_evidence(n)
      /\ design # "RelatedCertificate" => has_hybrid_certificate_signature_design(n)
      /\ ~has_unknown_crypto_property(n) /\ ~has_unknown_crypto_property(m)
  BY NodeClaims DEF Credential
<1>5. ScopedCertificates(r) = {n}
  BY <1>1, <1>3 DEF ScopedCertificates, InScope, includes, Credential
<1>6. classical_required(r) = {n} /\ pq_required(r) = {n}
  BY <1>4, <1>5 DEF classical_required, pq_required
<1>7. Aggregates(r).has_classical
  BY <1>6, AggregateFields
<1>8. ASSUME design # "RelatedCertificate" PROVE Aggregates(r).design = "Pass"
  <2>1. design_states(r, n) = {"Pass"}
    BY <1>4, <1>8 DEF design_states
  <2>2. UNION {design_states(r, x) : x \in ScopedCertificates(r)} = {"Pass"}
    BY <1>5, <2>1
  <2> QED
    BY <2>2, AggregateFields DEF hybrid_authentication_design_state, Worst
<1>9. LET state == evidence_state(classical_required(r), OfKind(r, "Classical"), "HardFail") IN
      /\ state = "Pass" <=> ItemPasses(n, c)
      /\ state = "Fail" <=> ItemFails(c)
  <2>1. \A item : item \in EvidenceItems(r) /\ item.kind = "Classical" <=> item = c
    BY <1>2, <1>3
  <2>2. r.path_scope \in PathScope
    BY <1>1 DEF PathScope
  <2> QED
    BY <1>2, <1>6, <2>1, <2>2, OneItem
<1>10. LET state == evidence_state(pq_required(r), OfKind(r, "PostQuantum"), "HardFail") IN
       /\ state = "Pass" <=> ItemPasses(n, q)
       /\ state = "Fail" <=> ItemFails(q)
  <2>1. \A item : item \in EvidenceItems(r) /\ item.kind = "PostQuantum" <=> item = q
    BY <1>2, <1>3
  <2>2. r.path_scope \in PathScope
    BY <1>1 DEF PathScope
  <2> QED
    BY <1>2, <1>6, <2>1, <2>2, OneItem
<1>11. LET a == Aggregates(r) IN
       /\ a.classical = "Pass" <=> ItemPasses(n, c)
       /\ a.classical = "Fail" <=> ItemFails(c)
       /\ a.pq = "Pass" <=> ItemPasses(n, q)
       /\ a.pq = "Fail" <=> ItemFails(q)
  BY <1>1, <1>9, <1>10, AggregateFields
<1>12. OfKind(r, "PostQuantum") = {q}
  BY <1>1, <1>2, <1>3 DEF OfKind, InScope, includes
<1>13. \A x \in Certificates(r) : ~has_unknown_crypto_property(x)
  BY <1>3, <1>4
<1>14. n \in ScopedCertificates(r)
  BY <1>5
<1> QED
  BY <1>3, <1>7, <1>8, <1>11, <1>12, <1>13, <1>14 DEF r, c, q

\* The answer of an analysis of a credential.
LEMMA CredentialAnswer ==
  ASSUME AnalysisInv, Answered, 1 \in DOMAIN answers, NEW scope \in scopes(kind),
         kind \in TlsKinds \cup {"related_openssl"},
         NEW n, NEW m, NEW e, NEW design, NEW v \in StackVerdict,
         NEW profile \in {"X509Path", "WebPkiServer"}, NEW selected, NEW anchor, NEW pairs,
         submissions(kind, results)[1]
           = Submission(Presented(v, profile, selected), anchor, <<n, m>>, pairs, e),
         Credential(n, m, design, e)
  PROVE  LET r == RequestAt(1, scope)
             a == Aggregates(r)
         IN  /\ scope = "EndEntity" /\ Judged(1, scope, v, a)
             /\ n \in ScopedCertificates(r) /\ r.paired_authentications = pairs
             /\ a.has_classical
             /\ design # "RelatedCertificate" => a.design = "Pass"
             /\ a.classical = "Pass" <=> ItemPasses(n, e[1])
             /\ a.classical = "Fail" <=> ItemFails(e[1])
             /\ a.pq = "Pass" <=> ItemPasses(n, e[2])
             /\ a.pq = "Fail" <=> ItemFails(e[2])
             /\ \A item \in OfKind(r, "PostQuantum") : item = e[2]
             /\ e[2] \in OfKind(r, "PostQuantum")
<1> DEFINE s == submissions(kind, results)[1]
           r == Request(policy, "EndEntity", s)
           a == Aggregates(r)
<1>0. scope = "EndEntity"
  BY DEF scopes
<1>1. /\ s.certificate_path = <<n, m>> /\ s.evidence = e
      /\ s.stack = Presented(v, profile, selected) /\ s.paired_authentications = pairs
  BY SubmissionFields
<1> HIDE DEF s
<1>s. Presents(s, n, m, e)
  BY <1>1 DEF Presents
<1>2. r.paired_authentications = pairs
  BY <1>1, RequestFields
<1>3. /\ n \in ScopedCertificates(r)
      /\ \A c \in Certificates(r) : ~has_unknown_crypto_property(c)
      /\ a.has_classical
      /\ design # "RelatedCertificate" => a.design = "Pass"
      /\ a.classical = "Pass" <=> ItemPasses(n, e[1])
      /\ a.classical = "Fail" <=> ItemFails(e[1])
      /\ a.pq = "Pass" <=> ItemPasses(n, e[2])
      /\ a.pq = "Fail" <=> ItemFails(e[2])
      /\ \A item \in OfKind(r, "PostQuantum") : item = e[2]
      /\ e[2] \in OfKind(r, "PostQuantum")
  BY <1>s, CredentialClaims
<1>4. Stacked(r) /\ r.stack.verdict = v
  BY <1>1, <1>3, PresentedRequest
<1>5. r = RequestAt(1, scope)
  BY <1>0 DEF RequestAt, s
<1> HIDE DEF r
<1>6. Judged(1, scope, v, a)
  BY <1>4, <1>5, Judging
<1> QED
  BY <1>0, <1>2, <1>3, <1>5, <1>6

LEMMA ControlStates ==
  ASSUME NEW g, NEW valid, NEW invalid
  PROVE  /\ Passes(rejects_control(g, valid, invalid), FALSE) <=>
              g[valid] = "Accept" /\ g[invalid] = "Reject"
         /\ ~Fails(rejects_control(g, valid, invalid), FALSE)
BY CheckStates DEF rejects_control

\* The Catalyst leaf and its issuer under Bouncy Castle.
BouncyCastleIssuer(g) ==
  Node("intermediate", "Intermediate", "Classical", "Classical", "Catalyst",
       g[<<"issuer", "digest">>], g[<<"issuer", "edge">>])
BouncyCastleLeafItems(g) ==
  LET leaf == CredentialNode(g, "Classical", "Catalyst")
      run == <<"leaf", "valid_default">>
      default == check_from_verdict(g[run])
      alternative == check_from_verdict(g[<<"leaf", "valid_post_quantum">>])
      validity == observed(g[<<"leaf", "validity">>])
      crl == observed(g[<<"leaf", "crl_status">>][2])
  IN  <<Item(leaf, "Classical", leaf.der_sha256, None,
             Checks(default, not_applicable, default, validity, crl,
                    rejects_control(g, run, <<"leaf", "invalid_classical">>)), "Crl"),
        Item(leaf, "PostQuantum", leaf.der_sha256, None,
             Checks(alternative, alternative, default, validity, crl,
                    catalyst_post_quantum_outcome(g, run,
                      <<"leaf", "invalid_post_quantum_default">>)), "Crl")>>
BouncyCastleIssuerItems(g) ==
  LET issuer == BouncyCastleIssuer(g)
      run == <<"leaf", "valid_default">>
      validity == observed(g[<<"issuer", "validity">>])
      crl == observed(g[<<"issuer", "crl_status">>][2])
  IN  <<Item(issuer, "Classical", issuer.der_sha256, None,
             Checks(observed(g[<<"issuer", "crl_status">>][1]), not_applicable,
                    check_from_verdict(g[run]), validity, crl,
                    rejects_control(g, run, <<"issuer", "invalid_classical">>)), "Crl"),
        Item(issuer, "PostQuantum", issuer.der_sha256, None,
             missing_alternative(validity, crl), "Crl")>>

LEMMA BouncyCastleForm ==
  ASSUME NEW g
  PROVE  catalyst_bouncy_castle_submission(g) =
           Submission(Presented(g[<<"leaf", "valid_default">>], "X509Path",
                                g[<<"path", "selected">>]),
                      g[<<"anchor", "digest">>],
                      <<CredentialNode(g, "Classical", "Catalyst"), BouncyCastleIssuer(g)>>, <<>>,
                      BothItems(BouncyCastleLeafItems(g), BouncyCastleIssuerItems(g)))
<1> DEFINE e == BouncyCastleLeafItems(g)
           f == BouncyCastleIssuerItems(g)
<1>1. BothItems(e, f) = <<e[1], e[2], f[1], f[2]>>
  BY DEF BothItems
<1> QED
  BY <1>1 DEF catalyst_bouncy_castle_submission, BouncyCastleLeafItems, BouncyCastleIssuerItems,
     BouncyCastleIssuer, CredentialNode

BouncyCastleIdentified(g) ==
  /\ g[<<"node", "digest">>] # None /\ g[<<"node", "edge">>] # None
  /\ g[<<"issuer", "digest">>] # None /\ g[<<"issuer", "edge">>] # None

LEMMA BouncyCastleNodes ==
  ASSUME NEW g, BouncyCastleIdentified(g)
  PROVE  LET n == CredentialNode(g, "Classical", "Catalyst")
             m == BouncyCastleIssuer(g)
         IN  /\ Hybrids(n, m, "Catalyst")
             /\ n.der_sha256 # None /\ n.issuer_edge_sha256 # None
             /\ m.der_sha256 # None /\ m.issuer_edge_sha256 # None
<1> DEFINE n == CredentialNode(g, "Classical", "Catalyst")
           m == BouncyCastleIssuer(g)
<1>1. /\ n.id = <<"end-entity">> /\ n.position = "EndEntity"
      /\ n.subject_public_key_scheme = "Classical"
      /\ n.certificate_signature_scheme = "Classical" /\ n.binding_design = "Catalyst"
      /\ n.der_sha256 # None /\ n.issuer_edge_sha256 # None
  BY NodeFields DEF CredentialNode, BouncyCastleIdentified
<1>2. /\ m.id = <<"intermediate">> /\ m.position = "Intermediate"
      /\ m.subject_public_key_scheme = "Classical"
      /\ m.certificate_signature_scheme = "Classical" /\ m.binding_design = "Catalyst"
      /\ m.der_sha256 # None /\ m.issuer_edge_sha256 # None
  BY NodeFields DEF BouncyCastleIssuer, BouncyCastleIdentified
<1> HIDE DEF n, m
<1>3. Hybrids(n, m, "Catalyst")
  BY <1>1, <1>2 DEF Hybrids
<1> QED
  BY <1>1, <1>2, <1>3 DEF n, m

LEMMA BouncyCastleLeafMeans ==
  ASSUME NEW g, BouncyCastleIdentified(g)
  PROVE  LET n == CredentialNode(g, "Classical", "Catalyst")
             e == BouncyCastleLeafItems(g)
             failed == {"Fail", "NotApplicable"}
         IN  /\ ItemsOf(n, e)
             /\ ItemPasses(n, e[1]) <=>
                  /\ g[<<"leaf", "valid_default">>] = "Accept"
                  /\ g[<<"leaf", "validity">>] = "Pass" /\ g[<<"leaf", "crl_status">>][2] = "Pass"
                  /\ g[<<"leaf", "invalid_classical">>] = "Reject"
             /\ ItemFails(e[1]) <=>
                  \/ g[<<"leaf", "valid_default">>] = "Reject"
                  \/ g[<<"leaf", "validity">>] \in failed
                  \/ g[<<"leaf", "crl_status">>][2] \in failed
             /\ /\ g[<<"leaf", "valid_default">>] = "Accept"
                /\ g[<<"leaf", "invalid_post_quantum_default">>] = "Accept"
                /\ g[<<"leaf", "valid_post_quantum">>] = "Accept"
                /\ g[<<"leaf", "invalid_post_quantum">>] = "Reject"
                => ItemFails(e[2])
             /\ Outdated(e[2]) <=>
                  g[<<"leaf", "validity">>] = "Fail" \/ g[<<"leaf", "crl_status">>][2] = "Fail"
<1> DEFINE n == CredentialNode(g, "Classical", "Catalyst")
           e == BouncyCastleLeafItems(g)
           failed == {"Fail", "NotApplicable"}
           run == <<"leaf", "valid_default">>
           default == check_from_verdict(g[run])
           alternative == check_from_verdict(g[<<"leaf", "valid_post_quantum">>])
           validity == observed(g[<<"leaf", "validity">>])
           crl == observed(g[<<"leaf", "crl_status">>][2])
           classical == rejects_control(g, run, <<"leaf", "invalid_classical">>)
           pq == catalyst_post_quantum_outcome(g, run, <<"leaf", "invalid_post_quantum_default">>)
           x == Checks(default, not_applicable, default, validity, crl, classical)
           y == Checks(alternative, alternative, default, validity, crl, pq)
<1>1. n.der_sha256 # None /\ n.issuer_edge_sha256 # None
  BY BouncyCastleNodes
<1>2. e = <<Item(n, "Classical", n.der_sha256, None, x, "Crl"),
            Item(n, "PostQuantum", n.der_sha256, None, y, "Crl")>>
  BY Zenon DEF BouncyCastleLeafItems
<1>3. /\ Passes(default, FALSE) <=> g[run] = "Accept"
      /\ Fails(default, FALSE) <=> g[run] = "Reject"
  BY VerdictStates
<1>4. /\ Passes(validity, FALSE) <=> g[<<"leaf", "validity">>] = "Pass"
      /\ Fails(validity, FALSE) <=> g[<<"leaf", "validity">>] \in failed
      /\ Passes(crl, FALSE) <=> g[<<"leaf", "crl_status">>][2] = "Pass"
      /\ Fails(crl, FALSE) <=> g[<<"leaf", "crl_status">>][2] \in failed
      /\ Passes(not_applicable, TRUE) /\ ~Fails(not_applicable, TRUE)
  BY CheckStates DEF not_applicable
<1>5. /\ Passes(classical, FALSE) <=>
           g[run] = "Accept" /\ g[<<"leaf", "invalid_classical">>] = "Reject"
      /\ ~Fails(classical, FALSE)
  BY ControlStates
<1>6. /\ g[<<"leaf", "valid_default">>] = "Accept"
      /\ g[<<"leaf", "invalid_post_quantum_default">>] = "Accept"
      /\ g[<<"leaf", "valid_post_quantum">>] = "Accept"
      /\ g[<<"leaf", "invalid_post_quantum">>] = "Reject"
      => Fails(pq, FALSE)
  BY CheckStates DEF catalyst_post_quantum_outcome
<1>7. validity.state = g[<<"leaf", "validity">>] /\ crl.state = g[<<"leaf", "crl_status">>][2]
  BY StatesOf
<1> HIDE DEF n, e, default, alternative, validity, crl, classical, pq
<1>8. ItemsOf(n, e)
  BY <1>2, ItemFields DEF ItemsOf
<1>9. /\ ItemPasses(n, e[1]) <=> Sound(default, not_applicable, default, validity, crl, classical)
      /\ ItemFails(e[1]) <=> Broken(default, not_applicable, default, validity, crl, classical)
  BY <1>1, <1>2, ItemMeans
<1>10. ItemFails(e[2]) <=> Broken(alternative, alternative, default, validity, crl, pq)
  BY <1>1, <1>2, ItemMeans
<1>11. Outdated(e[2]) <=> "Fail" \in {validity.state, crl.state}
  BY <1>2, OutdatedItem
<1> QED
  BY <1>3, <1>4, <1>5, <1>6, <1>7, <1>8, <1>9, <1>10, <1>11 DEF Sound, Broken, n, e

LEMMA BouncyCastleIssuerMeans ==
  ASSUME NEW g, BouncyCastleIdentified(g)
  PROVE  LET m == BouncyCastleIssuer(g)
             f == BouncyCastleIssuerItems(g)
             failed == {"Fail", "NotApplicable"}
         IN  /\ ItemsOf(m, f)
             /\ ItemPasses(m, f[1]) <=>
                  /\ g[<<"issuer", "crl_status">>][1] = "Pass"
                  /\ g[<<"leaf", "valid_default">>] = "Accept"
                  /\ g[<<"issuer", "validity">>] = "Pass"
                  /\ g[<<"issuer", "crl_status">>][2] = "Pass"
                  /\ g[<<"issuer", "invalid_classical">>] = "Reject"
             /\ ItemFails(f[1]) <=>
                  \/ g[<<"issuer", "crl_status">>][1] \in failed
                  \/ g[<<"leaf", "valid_default">>] = "Reject"
                  \/ g[<<"issuer", "validity">>] \in failed
                  \/ g[<<"issuer", "crl_status">>][2] \in failed
             /\ Outdated(f[2]) <=>
                  g[<<"issuer", "validity">>] = "Fail" \/ g[<<"issuer", "crl_status">>][2] = "Fail"
<1> DEFINE m == BouncyCastleIssuer(g)
           f == BouncyCastleIssuerItems(g)
           failed == {"Fail", "NotApplicable"}
           run == <<"leaf", "valid_default">>
           issued == observed(g[<<"issuer", "crl_status">>][1])
           default == check_from_verdict(g[run])
           validity == observed(g[<<"issuer", "validity">>])
           crl == observed(g[<<"issuer", "crl_status">>][2])
           classical == rejects_control(g, run, <<"issuer", "invalid_classical">>)
           x == Checks(issued, not_applicable, default, validity, crl, classical)
           y == missing_alternative(validity, crl)
<1>1. m.der_sha256 # None /\ m.issuer_edge_sha256 # None
  BY BouncyCastleNodes
<1>2. f = <<Item(m, "Classical", m.der_sha256, None, x, "Crl"),
            Item(m, "PostQuantum", m.der_sha256, None, y, "Crl")>>
  BY Zenon DEF BouncyCastleIssuerItems
<1>3. /\ Passes(default, FALSE) <=> g[run] = "Accept"
      /\ Fails(default, FALSE) <=> g[run] = "Reject"
  BY VerdictStates
<1>4. /\ Passes(issued, FALSE) <=> g[<<"issuer", "crl_status">>][1] = "Pass"
      /\ Fails(issued, FALSE) <=> g[<<"issuer", "crl_status">>][1] \in failed
      /\ Passes(validity, FALSE) <=> g[<<"issuer", "validity">>] = "Pass"
      /\ Fails(validity, FALSE) <=> g[<<"issuer", "validity">>] \in failed
      /\ Passes(crl, FALSE) <=> g[<<"issuer", "crl_status">>][2] = "Pass"
      /\ Fails(crl, FALSE) <=> g[<<"issuer", "crl_status">>][2] \in failed
      /\ Passes(not_applicable, TRUE) /\ ~Fails(not_applicable, TRUE)
  BY CheckStates DEF not_applicable
<1>5. /\ Passes(classical, FALSE) <=>
           g[run] = "Accept" /\ g[<<"issuer", "invalid_classical">>] = "Reject"
      /\ ~Fails(classical, FALSE)
  BY ControlStates
<1>6. /\ validity.state = g[<<"issuer", "validity">>]
      /\ crl.state = g[<<"issuer", "crl_status">>][2]
  BY StatesOf
<1> HIDE DEF m, f, issued, default, validity, crl, classical
<1>7. y["validity"] = validity /\ y["revocation"] = crl
  BY DEF missing_alternative, Checks
<1> HIDE DEF y
<1>8. ItemsOf(m, f)
  BY <1>2, ItemFields DEF ItemsOf
<1>9. /\ ItemPasses(m, f[1]) <=> Sound(issued, not_applicable, default, validity, crl, classical)
      /\ ItemFails(f[1]) <=> Broken(issued, not_applicable, default, validity, crl, classical)
  BY <1>1, <1>2, ItemMeans
<1>10. Outdated(f[2]) <=> "Fail" \in {validity.state, crl.state}
  <2>1. f[2].checks = y
    BY <1>2, ItemFields
  <2> QED
    BY <1>7, <2>1 DEF Outdated
<1> QED
  BY <1>3, <1>4, <1>5, <1>6, <1>8, <1>9, <1>10 DEF Sound, Broken, m, f

BouncyCastleResults ==
  /\ Ran("leaf", "valid_default", "Accept") /\ Ran("leaf", "invalid_classical", "Reject")
  /\ Ran("issuer", "invalid_classical", "Reject")
  /\ Held("leaf", "validity") /\ Held("issuer", "validity")
  /\ Cleared("leaf", "crl_status") /\ Cleared("issuer", "crl_status")
  /\ Ran("leaf", "invalid_post_quantum_default", "Accept")
  /\ Ran("leaf", "valid_post_quantum", "Accept") /\ Ran("leaf", "invalid_post_quantum", "Reject")

LEMMA BouncyCastleKnown ==
  ASSUME AnalysisInv, kind = "catalyst_bouncy_castle"
  PROVE  BouncyCastleResults /\ BouncyCastleIdentified(results)
<1>1. Table[kind] = catalyst_bouncy_castle_steps
  BY TablesAreDistinct DEF AnalysisInv, StepsOf
<1>2. CatalystBouncyCastleSteps(Table[kind])
  BY <1>1, CatalystBouncyCastleTable
<1>3. {"Accept", "Reject"} \subseteq StackVerdict
  BY DEF StackVerdict
<1>4. Cleared("leaf", "crl_status") /\ Cleared("issuer", "crl_status")
  BY <1>2, StatusResult DEF CatalystBouncyCastleSteps
<1> QED
  BY <1>2, <1>3, <1>4, ResultsAre
     DEF CatalystBouncyCastleSteps, BouncyCastleResults, BouncyCastleIdentified

LEMMA BouncyCastleAnswer ==
  ASSUME AnalysisInv, Answered, kind = "catalyst_bouncy_castle", NEW scope \in scopes(kind),
         1 \in DOMAIN answers
  PROVE  LET g == results
             a == Aggregates(RequestAt(1, scope))
             n == CredentialNode(g, "Classical", "Catalyst")
             m == BouncyCastleIssuer(g)
             e == BouncyCastleLeafItems(g)
             f == BouncyCastleIssuerItems(g)
             both == scope = "CertificationPath"
         IN  /\ Judged(1, scope, g[<<"leaf", "valid_default">>], a)
             /\ a.has_classical /\ a.design = "Pass"
             /\ a.classical = "Pass" <=> ItemPasses(n, e[1]) /\ (both => ItemPasses(m, f[1]))
             /\ a.classical = "Fail" <=> ItemFails(e[1]) \/ (both /\ ItemFails(f[1]))
             /\ a.pq = "Fail" <=> ItemFails(e[2]) \/ (both /\ ItemFails(f[2]))
<1> DEFINE g == results
           n == CredentialNode(g, "Classical", "Catalyst")
           m == BouncyCastleIssuer(g)
           e == BouncyCastleLeafItems(g)
           f == BouncyCastleIssuerItems(g)
           v == g[<<"leaf", "valid_default">>]
<1>1. submissions(kind, g)[1]
        = Submission(Presented(v, "X509Path", g[<<"path", "selected">>]),
                     g[<<"anchor", "digest">>], <<n, m>>, <<>>, BothItems(e, f))
  BY BouncyCastleForm DEF submissions
<1>2. v \in StackVerdict /\ BouncyCastleIdentified(g)
  BY BouncyCastleKnown DEF Ran, BouncyCastleResults
<1>3. ItemsOf(n, e) /\ ItemsOf(m, f)
  BY <1>2, BouncyCastleLeafMeans, BouncyCastleIssuerMeans
<1>4. Hybrids(n, m, "Catalyst")
  BY <1>2, BouncyCastleNodes
<1> HIDE DEF n, m, e, f, v
<1> QED
  BY <1>1, <1>2, <1>3, <1>4, HierarchyAnswer DEF n, m, e, f, v

\* A pure post-quantum chain has no classical claim and no hybrid design.
LEMMA PureAnswer ==
  ASSUME AnalysisInv, Answered, kind = "pure", NEW scope \in scopes(kind), 1 \in DOMAIN answers
  PROVE  LET a == Aggregates(RequestAt(1, scope)) IN
         /\ Judged(1, scope, results[<<"path", "valid_path">>], a)
         /\ ~a.has_classical /\ a.design = "Fail"
<1> DEFINE g == results
           n == PureNode(g, "EndEntity")
           m == PureNode(g, "Intermediate")
           v == g[<<"path", "valid_path">>]
           selected == g[<<"path", "selected">>]
           s == submissions(kind, g)[1]
           r == Request(policy, scope, s)
           a == Aggregates(r)
<1>1. s = Submission(Presented(v, "X509Path", selected), g[<<"anchor", "digest">>], <<n, m>>, <<>>,
                     <<PureItems(g, "EndEntity")[1], PureItems(g, "Intermediate")[1]>>)
  BY PureForm DEF submissions
<1>2. v \in StackVerdict
  <2>1. Table[kind] = pure_steps
    BY TablesAreDistinct DEF AnalysisInv, StepsOf
  <2>2. Runs(Table[kind], "path", "valid_path", "Accept")
    BY <2>1, PureTable
  <2> QED
    BY <2>2, ResultsAre DEF Ran, StackVerdict
<1>3. /\ n.position = "EndEntity" /\ n.binding_design = "None"
      /\ n.certificate_signature_scheme = "PostQuantum"
      /\ n.subject_public_key_scheme = "PostQuantum"
      /\ m.position = "Intermediate" /\ m.binding_design = "None"
      /\ m.certificate_signature_scheme = "PostQuantum"
      /\ m.subject_public_key_scheme = "PostQuantum"
  BY HierarchyNodes DEF PureNode
<1> HIDE DEF n, m, v, selected, s
<1>4. s.certificate_path = <<n, m>> /\ s.stack = Presented(v, "X509Path", selected)
  BY <1>1, SubmissionFields
<1>5. r.certificate_path = <<n, m>> /\ r.path_scope = scope /\ scope \in PathScope
  BY <1>4, RequestFields, AnsweredAt
<1>6. r = RequestAt(1, scope)
  BY DEF RequestAt, s
<1>7. Certificates(r) = {n, m}
  BY <1>5, TupleRange DEF Certificates
<1>8. \A c \in {n, m} : /\ ~requires_classical_certificate_signature_evidence(c)
                        /\ ~has_hybrid_certificate_signature_design(c)
                        /\ ~has_unknown_crypto_property(c)
  BY <1>3, NodeClaims
<1>9. Stacked(r) /\ r.stack.verdict = v
  <2>1. \A c \in Certificates(r) : ~has_unknown_crypto_property(c)
    BY <1>7, <1>8
  <2> QED
    BY <1>2, <1>4, <2>1, PresentedRequest
<1> HIDE DEF r
<1>10. n \in ScopedCertificates(r) /\ ScopedCertificates(r) \subseteq {n, m}
  BY <1>3, <1>5, <1>7 DEF ScopedCertificates, InScope, includes, PathScope
<1>11. classical_required(r) = {}
  BY <1>8, <1>10 DEF classical_required
<1>12. ~a.has_classical
  BY <1>11, AggregateFields
<1>13. a.design = "Fail"
  <2>1. "Fail" \in design_states(r, n)
    BY <1>3, <1>8 DEF design_states
  <2> QED
    BY <1>10, <2>1, FailedDesign
<1>14. Judged(1, scope, v, a)
  BY <1>6, <1>9, Judging
<1> QED
  BY <1>6, <1>12, <1>13, <1>14 DEF v

-----------------------------------------------------------------------------
(* The related pair under OpenSSL *)

LEMMA CredentialsAre ==
  ASSUME NEW g, NEW e, NEW signature, NEW design, Identified(g),
         design \in {"AtomicComposite", "Catalyst", "Chameleon", "RelatedCertificate"},
         signature = IF design = "AtomicComposite" THEN "Hybrid" ELSE "Classical",
         e = <<e[1], e[2]>>, ItemsOf(CredentialNode(g, signature, design), e)
  PROVE  Credential(CredentialNode(g, signature, design), CredentialIssuer(g), design, e)
<1> DEFINE n == CredentialNode(g, signature, design)
           m == CredentialIssuer(g)
<1>1. /\ n.position = "EndEntity" /\ n.subject_public_key_scheme = "Classical"
      /\ n.certificate_signature_scheme = signature /\ n.binding_design = design
  BY CredentialNodeFields
<1>2. /\ m.position = "Intermediate" /\ m.subject_public_key_scheme = "Classical"
      /\ m.certificate_signature_scheme = "Classical" /\ m.binding_design = "None"
  BY NodeFields DEF CredentialIssuer
<1> HIDE DEF n, m
<1>3. Credential(n, m, design, e)
  BY <1>1, <1>2 DEF Credential, n
<1> QED
  BY <1>3 DEF n, m

OpenSslNode(g) == CredentialNode(g, "Classical", "RelatedCertificate")

LEMMA OpenSslForm ==
  ASSUME NEW g
  PROVE  LET n == OpenSslNode(g) IN
         related_openssl_submission(g) =
           Submission(Presented(g[<<"leaf", "classical">>], "X509Path", g[<<"path", "selected">>]),
                      g[<<"anchor", "digest">>], <<n, CredentialIssuer(g)>>, unpaired(g, n),
                      related_openssl_evidence(g, n))
<1> DEFINE n == OpenSslNode(g)
           path == end_entity_certification_path(g, "Classical", "RelatedCertificate")
<1>1. path = <<n, CredentialIssuer(g)>>
  BY DEF end_entity_certification_path, CredentialNode, CredentialIssuer, OpenSslNode
<1>2. path[1] = n
  BY <1>1
<1> HIDE DEF n, path
<1> QED
  BY <1>1, <1>2 DEF related_openssl_submission, EndEntitySubmission, n, path

LEMMA OpenSslMeans ==
  ASSUME NEW g, Identified(g), g[<<"pair", "digest">>] # None
  PROVE  LET n == OpenSslNode(g)
             e == related_openssl_evidence(g, n)
         IN  /\ Credential(n, CredentialIssuer(g), "RelatedCertificate", e)
             /\ ItemPasses(n, e[1]) <=>
                  /\ g[<<"leaf", "classical">>] = "Accept"
                  /\ g[<<"leaf", "classical_crl">>][2] = "Pass"
                  /\ g[<<"leaf", "classical_invalid">>] = "Reject"
             /\ ItemFails(e[1]) <=>
                  \/ g[<<"leaf", "classical">>] = "Reject"
                  \/ g[<<"leaf", "classical_crl">>][2] \in {"Fail", "NotApplicable"}
             /\ Outdated(e[2]) <=>
                  \/ g[<<"leaf", "post_quantum">>] = "Reject"
                  \/ g[<<"leaf", "post_quantum_crl">>][2] = "Fail"
<1> DEFINE n == OpenSslNode(g)
           e == related_openssl_evidence(g, n)
           classical == check_from_verdict(g[<<"leaf", "classical">>])
           post_quantum == check_from_verdict(g[<<"leaf", "post_quantum">>])
           conformance == related_conformance_check(g[<<"pair", "conformance">>])
           crl == observed(g[<<"leaf", "classical_crl">>][2])
           other_crl == observed(g[<<"leaf", "post_quantum_crl">>][2])
           sensitive == rejects_control(g, <<"leaf", "classical">>, <<"leaf", "classical_invalid">>)
           c == e[1]
           q == e[2]
<1>1. n.der_sha256 # None /\ n.issuer_edge_sha256 # None
  BY CredentialNodeFields DEF Identified, OpenSslNode
<1> HIDE DEF n
<1>2. c = LeafItem(g, n, "Classical", g[<<"evidence", "digest">>], PairOperation,
                   Checks(classical, not_applicable, classical, classical, crl, sensitive), "Crl")
  BY DEF related_openssl_evidence
<1>3. PICK outcome_of : q = LeafItem(g, n, "PostQuantum", g[<<"pair", "digest">>], PairOperation,
                                     Checks(post_quantum, conformance, post_quantum, post_quantum,
                                            other_crl, outcome_of), "Crl")
  BY DEF related_openssl_evidence
<1>4. e = <<c, q>>
  BY DEF related_openssl_evidence
<1>5. /\ Passes(classical, FALSE) <=> g[<<"leaf", "classical">>] = "Accept"
      /\ Fails(classical, FALSE) <=> g[<<"leaf", "classical">>] = "Reject"
  BY VerdictStates
<1>6. /\ Passes(crl, FALSE) <=> g[<<"leaf", "classical_crl">>][2] = "Pass"
      /\ Fails(crl, FALSE) <=> g[<<"leaf", "classical_crl">>][2] \in {"Fail", "NotApplicable"}
      /\ Passes(not_applicable, TRUE) /\ ~Fails(not_applicable, TRUE)
  BY CheckStates DEF not_applicable
<1>7. /\ Passes(sensitive, FALSE) <=> /\ g[<<"leaf", "classical">>] = "Accept"
                                      /\ g[<<"leaf", "classical_invalid">>] = "Reject"
      /\ ~Fails(sensitive, FALSE)
  BY ControlStates
<1>8. /\ post_quantum.state = "Fail" <=> g[<<"leaf", "post_quantum">>] = "Reject"
      /\ other_crl.state = g[<<"leaf", "post_quantum_crl">>][2]
  BY StatesOf
<1> HIDE DEF e, classical, post_quantum, conformance, crl, other_crl, sensitive
<1>9. /\ ItemPasses(n, c) <=> Sound(classical, not_applicable, classical, classical, crl, sensitive)
      /\ ItemFails(c) <=> Broken(classical, not_applicable, classical, classical, crl, sensitive)
  <2>1. g[<<"evidence", "digest">>] # None
    BY DEF Identified
  <2> QED
    BY <1>1, <1>2, <2>1, LeafItemMeans
<1>10. Outdated(q) <=> "Fail" \in {post_quantum.state, other_crl.state}
  BY <1>1, <1>3, LeafItemMeans
<1>11. ItemsOf(n, e)
  <2>1. c.certificate_id = n.id /\ c.position = n.position /\ c.kind = "Classical"
    BY <1>2, LeafItemFields
  <2>2. q.certificate_id = n.id /\ q.position = n.position /\ q.kind = "PostQuantum"
    BY <1>3, LeafItemFields
  <2> QED
    BY <2>1, <2>2 DEF ItemsOf
<1>12. Credential(n, CredentialIssuer(g), "RelatedCertificate", e)
  BY <1>4, <1>11, CredentialsAre DEF n, OpenSslNode
<1> HIDE DEF c, q
<1>13. /\ ItemPasses(n, c) <=>
            /\ g[<<"leaf", "classical">>] = "Accept"
            /\ g[<<"leaf", "classical_crl">>][2] = "Pass"
            /\ g[<<"leaf", "classical_invalid">>] = "Reject"
       /\ ItemFails(c) <=>
            \/ g[<<"leaf", "classical">>] = "Reject"
            \/ g[<<"leaf", "classical_crl">>][2] \in {"Fail", "NotApplicable"}
  BY <1>5, <1>6, <1>7, <1>9 DEF Sound, Broken
<1>14. Outdated(q) <=> \/ g[<<"leaf", "post_quantum">>] = "Reject"
                       \/ g[<<"leaf", "post_quantum_crl">>][2] = "Fail"
  BY <1>8, <1>10
<1> QED
  BY <1>12, <1>13, <1>14 DEF n, e, c, q

\* The revoked certificate's CRL status, as documented unless it is odd.
Revoked(id, what) ==
  results[<<id, what>>] = <<"Pass", "Fail">> <=> <<id, what>> \notin DOMAIN odd

OpenSslResults ==
  /\ Ran("leaf", "classical", "Accept") /\ Ran("leaf", "classical_invalid", "Reject")
  /\ Cleared("leaf", "classical_crl") /\ Revoked("leaf", "post_quantum_crl")

LEMMA OpenSslKnown ==
  ASSUME AnalysisInv, kind = "related_openssl"
  PROVE  OpenSslResults /\ Identified(results) /\ results[<<"pair", "digest">>] # None
<1>1. Table[kind] = related_openssl_steps
  BY TablesAreDistinct DEF AnalysisInv, StepsOf
<1>2. RelatedOpenSslSteps(Table[kind])
  BY <1>1, RelatedOpenSslTable
<1>3. {"Accept", "Reject"} \subseteq StackVerdict
  BY DEF StackVerdict
<1>4. Cleared("leaf", "classical_crl")
  BY <1>2, StatusResult DEF RelatedOpenSslSteps
<1>5. Revoked("leaf", "post_quantum_crl")
  BY <1>2, ResultOf DEF RelatedOpenSslSteps, Revoked
<1> QED
  BY <1>2, <1>3, <1>4, <1>5, ResultsAre DEF RelatedOpenSslSteps, OpenSslResults, Identified

\* The pair of an analysis of related certificates was not used in one operation.
LEMMA UnpairedRequest ==
  ASSUME NEW r, NEW g, NEW n \in ScopedCertificates(r),
         r.paired_authentications = unpaired(g, n),
         n.binding_design = "RelatedCertificate", n.certificate_signature_scheme = "Classical"
  PROVE  Aggregates(r).design = "Fail"
<1> DEFINE pair == UnpairedUse(n, PairOperation, g[<<"pair", "digest">>])
<1>1. pair.same_authentication_operation = observed("Fail")
  BY DEF UnpairedUse
<1>2. r.paired_authentications = <<pair>>
  BY DEF unpaired
<1> HIDE DEF pair
<1>3. Pairs(r) = {pair}
  BY <1>2 DEF Pairs, Range
<1> QED
  BY <1>1, <1>3, UnpairedDesign

LEMMA OpenSslAnswer ==
  ASSUME AnalysisInv, Answered, kind = "related_openssl", NEW scope \in scopes(kind),
         1 \in DOMAIN answers
  PROVE  LET g == results
             r == RequestAt(1, scope)
             a == Aggregates(r)
             n == OpenSslNode(g)
             e == related_openssl_evidence(g, n)
         IN  /\ Judged(1, scope, g[<<"leaf", "classical">>], a)
             /\ a.has_classical /\ a.design = "Fail"
             /\ a.classical = "Pass" <=> ItemPasses(n, e[1])
             /\ a.classical = "Fail" <=> ItemFails(e[1])
             /\ e[2] \in OfKind(r, "PostQuantum")
<1> DEFINE g == results
           n == OpenSslNode(g)
           m == CredentialIssuer(g)
           e == related_openssl_evidence(g, n)
           v == g[<<"leaf", "classical">>]
           r == RequestAt(1, scope)
           a == Aggregates(r)
           pairs == unpaired(g, n)
<1>1. submissions(kind, g)[1]
        = Submission(Presented(v, "X509Path", g[<<"path", "selected">>]),
                     g[<<"anchor", "digest">>], <<n, m>>, pairs, e)
  BY OpenSslForm DEF submissions
<1>2. v \in StackVerdict /\ Identified(g) /\ g[<<"pair", "digest">>] # None
  BY OpenSslKnown DEF Ran, OpenSslResults
<1>3. Credential(n, m, "RelatedCertificate", e)
  BY <1>2, OpenSslMeans
<1>4. n.binding_design = "RelatedCertificate" /\ n.certificate_signature_scheme = "Classical"
  BY CredentialNodeFields DEF OpenSslNode
<1> HIDE DEF n, m, e, v, r, pairs
<1>5. /\ Judged(1, scope, v, a)
      /\ n \in ScopedCertificates(r) /\ r.paired_authentications = pairs
      /\ a.has_classical
      /\ a.classical = "Pass" <=> ItemPasses(n, e[1])
      /\ a.classical = "Fail" <=> ItemFails(e[1])
      /\ e[2] \in OfKind(r, "PostQuantum")
  BY <1>1, <1>2, <1>3, CredentialAnswer DEF r
<1>6. a.design = "Fail"
  BY <1>4, <1>5, UnpairedRequest DEF pairs
<1> QED
  BY <1>5, <1>6 DEF n, e, v, r

-----------------------------------------------------------------------------
(* Classical verdicts *)

LEMMA FirstAnswer ==
  ASSUME AnalysisInv, Answered
  PROVE  1 \in DOMAIN answers /\ answers # <<>>
<1>1. answers # <<>> /\ kind \in Kinds
  BY DEF AnalysisInv, Answered
<1>2. DOMAIN answers = DOMAIN submissions(kind, results)
  BY <1>1, AnswerAt
<1>3. kind \in AllKinds
  BY <1>1, KindsAreAnalyses
<1>4. 1 \in DOMAIN submissions(kind, results)
  BY <1>3 DEF submissions, AllKinds, PathScopeKinds, TlsKinds
<1> QED
  BY <1>1, <1>2, <1>4

LEMMA AtomicClassical ==
  ASSUME AnalysisInv, Answered, policy = "P0Classical", NEW scope \in scopes(kind),
         kind \in {"atomic", "cross_signed"}
  PROVE  Verdict(1, scope) = "ClassicalClaimSetSatisfied" <=>
           DOMAIN odd \cap ClassicalNeeds(scope) = {}
<1> DEFINE g == results
           D == DOMAIN odd
           Passing(p) == ItemPasses(AtomicNode(g, p), AtomicItems(g, p)[1])
           W == {"valid_signature", "invalid_classical_signature", "invalid_classical_path",
                  "validity", "crl"}
           Sane(p) == \A w \in W : <<p, w>> \notin D
           both == scope = "CertificationPath"
<1>1. 1 \in DOMAIN answers /\ scope \in PathScope
  BY FirstAnswer, AnsweredAt
<1>2. Verdict(1, scope) = "ClassicalClaimSetSatisfied" <=>
        /\ g[<<"path", "valid_path">>] = "Accept"
        /\ Passing("EndEntity") /\ (both => Passing("Intermediate"))
  BY <1>1, AtomicAnswer DEF Judged
<1>3. ASSUME NEW p \in {"EndEntity", "Intermediate"}
      PROVE  Passing(p) <=>
        /\ <<"path", "valid_path">> \notin D /\ Sane(p)
  <2>1. AtomicResults(p) /\ Digested(g)
    BY AtomicKnown
  <2>2. Ran("path", "valid_path", "Accept")
    BY AtomicKnown
  <2> QED
    BY <2>1, <2>2, AtomicMeans DEF AtomicResults, Ran, Held, As
<1>4. g[<<"path", "valid_path">>] = "Accept" <=> <<"path", "valid_path">> \notin D
  BY AtomicKnown DEF Ran, As
<1>5. D \cap ClassicalNeeds(scope) = {} <=>
        <<"path", "valid_path">> \notin D /\ D \cap AtPositions(scope, W) = {}
  BY DEF ClassicalNeeds
<1>6. D \cap AtPositions(scope, W) = {} <=> Sane("EndEntity") /\ (both => Sane("Intermediate"))
  BY <1>1, NoneOddAt
<1> HIDE DEF Passing, Sane, W
<1> QED
  BY <1>2, <1>3, <1>4, <1>5, <1>6

LEMMA CatalystClassical ==
  ASSUME AnalysisInv, Answered, policy = "P0Classical", NEW scope \in scopes(kind),
         kind = "catalyst"
  PROVE  Verdict(1, scope) = "ClassicalClaimSetSatisfied" <=>
           DOMAIN odd \cap ClassicalNeeds(scope) = {}
<1> DEFINE g == results
           D == DOMAIN odd
           Passing(p) == ItemPasses(CatalystNode(g, p), CatalystItems(g, p)[1])
           W == {"crl_status", "validity", "valid_default", "invalid_classical_path"}
           Sane(p) == \A w \in W : <<p, w>> \notin D
           both == scope = "CertificationPath"
<1>1. 1 \in DOMAIN answers /\ scope \in PathScope
  BY FirstAnswer, AnsweredAt
<1>2. Verdict(1, scope) = "ClassicalClaimSetSatisfied" <=>
        /\ g[<<"path", "valid_path">>] = "Accept"
        /\ Passing("EndEntity") /\ (both => Passing("Intermediate"))
  BY <1>1, CatalystAnswer DEF Judged
<1>3. ASSUME NEW p \in {"EndEntity", "Intermediate"}
      PROVE  Passing(p) <=>
        /\ <<"path", "valid_path">> \notin D /\ Sane(p)
  <2>1. CatalystResults(p) /\ Digested(g)
    BY CatalystKnown
  <2>2. Ran("path", "valid_path", "Accept")
    BY CatalystKnown
  <2> QED
    BY <2>1, <2>2, CatalystMeans DEF CatalystResults, Ran, Held, As, Cleared
<1>4. g[<<"path", "valid_path">>] = "Accept" <=> <<"path", "valid_path">> \notin D
  BY CatalystKnown DEF Ran, As
<1>5. D \cap ClassicalNeeds(scope) = {} <=>
        <<"path", "valid_path">> \notin D /\ D \cap AtPositions(scope, W) = {}
  BY DEF ClassicalNeeds
<1>6. D \cap AtPositions(scope, W) = {} <=> Sane("EndEntity") /\ (both => Sane("Intermediate"))
  BY <1>1, NoneOddAt
<1> HIDE DEF Passing, Sane, W
<1> QED
  BY <1>2, <1>3, <1>4, <1>5, <1>6

LEMMA RelatedClassical ==
  ASSUME AnalysisInv, Answered, policy = "P0Classical", NEW scope \in scopes(kind),
         kind = "related"
  PROVE  Verdict(1, scope) = "ClassicalClaimSetSatisfied" <=>
           DOMAIN odd \cap ClassicalNeeds(scope) = {}
<1> DEFINE g == results
           D == DOMAIN odd
           Passing(p) == ItemPasses(RelatedNode(g, p), RelatedItems(g, p)[1])
           W == {"classical_signature", "invalid_classical_signature",
                  "invalid_classical_path", "classical_validity", "classical_crl"}
           Sane(p) == \A w \in W : <<p, w>> \notin D
           both == scope = "CertificationPath"
<1>1. 1 \in DOMAIN answers /\ scope \in PathScope
  BY FirstAnswer, AnsweredAt
<1>2. Verdict(1, scope) = "ClassicalClaimSetSatisfied" <=>
        /\ g[<<"path", "classical_path">>] = "Accept"
        /\ Passing("EndEntity") /\ (both => Passing("Intermediate"))
  BY <1>1, RelatedAnswer DEF Judged
<1>3. ASSUME NEW p \in {"EndEntity", "Intermediate"}
      PROVE  Passing(p) <=>
        /\ <<"path", "classical_path">> \notin D /\ Sane(p)
  <2>1. RelatedResults(p) /\ Digested(g)
    BY RelatedKnown
  <2>2. Ran("path", "classical_path", "Accept")
    BY RelatedKnown
  <2> QED
    BY <2>1, <2>2, RelatedMeans DEF RelatedResults, Ran, Held, As
<1>4. g[<<"path", "classical_path">>] = "Accept" <=> <<"path", "classical_path">> \notin D
  BY RelatedKnown DEF Ran, As
<1>5. D \cap ClassicalNeeds(scope) = {} <=>
        <<"path", "classical_path">> \notin D /\ D \cap AtPositions(scope, W) = {}
  BY DEF ClassicalNeeds
<1>6. D \cap AtPositions(scope, W) = {} <=> Sane("EndEntity") /\ (both => Sane("Intermediate"))
  BY <1>1, NoneOddAt
<1> HIDE DEF Passing, Sane, W
<1> QED
  BY <1>2, <1>3, <1>4, <1>5, <1>6

LEMMA ChameleonClassical ==
  ASSUME AnalysisInv, Answered, policy = "P0Classical", NEW scope \in scopes(kind),
         kind = "chameleon"
  PROVE  Verdict(1, scope) = "ClassicalClaimSetSatisfied" <=>
           DOMAIN odd \cap ClassicalNeeds(scope) = {} /\ DeltaDecides(scope)
<1> DEFINE g == results
           D == DOMAIN odd
           Passing(p) == ItemPasses(ChameleonNode(g, p), ChameleonItems(g, p)[1])
           W == {"delta_signature", "invalid_delta_signature", "delta_validity", "delta_crl"}
           Sane(p) == \A w \in W : <<p, w>> \notin D
           both == scope = "CertificationPath"
<1>1. 1 \in DOMAIN answers /\ scope \in PathScope
  BY FirstAnswer, AnsweredAt
<1>2. Verdict(1, scope) = "ClassicalClaimSetSatisfied" <=>
        /\ g[<<"path", "base_path">>] = "Accept"
        /\ Passing("EndEntity") /\ (both => Passing("Intermediate"))
  BY <1>1, ChameleonAnswer DEF Judged
<1>3. ASSUME NEW p \in {"EndEntity", "Intermediate"}
      PROVE  Passing(p) <=>
        /\ <<"path", "base_path">> \notin D /\ <<"path", "delta_path">> \notin D /\ Sane(p)
        /\ g[<<p, "invalid_delta_path">>] = "Reject"
  <2>1. ChameleonResults(p) /\ Digested(g)
    BY ChameleonKnown
  <2>2. Ran("path", "base_path", "Accept") /\ Ran("path", "delta_path", "Accept")
    BY ChameleonKnown
  <2> QED
    BY <2>1, <2>2, ChameleonMeans DEF ChameleonResults, Ran, Held, As
<1>4. g[<<"path", "base_path">>] = "Accept" <=> <<"path", "base_path">> \notin D
  BY ChameleonKnown DEF Ran, As
<1>5. D \cap ClassicalNeeds(scope) = {} <=>
        <<"path", "base_path">> \notin D /\ <<"path", "delta_path">> \notin D
          /\ D \cap AtPositions(scope, W) = {}
  BY DEF ClassicalNeeds
<1>6. D \cap AtPositions(scope, W) = {} <=> Sane("EndEntity") /\ (both => Sane("Intermediate"))
  BY <1>1, NoneOddAt
<1>7. DeltaDecides(scope) <=>
        /\ g[<<"EndEntity", "invalid_delta_path">>] = "Reject"
        /\ both => g[<<"Intermediate", "invalid_delta_path">>] = "Reject"
  BY <1>1 DEF DeltaDecides, InScopeOf, includes, PathScope
<1> HIDE DEF Passing, Sane, W
<1> QED
  BY <1>2, <1>3, <1>4, <1>5, <1>6, <1>7

LEMMA BouncyCastleClassical ==
  ASSUME AnalysisInv, Answered, policy = "P0Classical", NEW scope \in scopes(kind),
         kind = "catalyst_bouncy_castle"
  PROVE  Verdict(1, scope) = "ClassicalClaimSetSatisfied" <=>
           DOMAIN odd \cap ClassicalNeeds(scope) = {}
<1> DEFINE g == results
           D == DOMAIN odd
           leaf == ItemPasses(CredentialNode(g, "Classical", "Catalyst"),
                              BouncyCastleLeafItems(g)[1])
           issuer == ItemPasses(BouncyCastleIssuer(g), BouncyCastleIssuerItems(g)[1])
           W == {"invalid_classical", "validity", "crl_status"}
           Sane(id) == \A w \in W : <<id, w>> \notin D
           both == scope = "CertificationPath"
<1>1. 1 \in DOMAIN answers /\ scope \in PathScope
  BY FirstAnswer, AnsweredAt
<1>2. Verdict(1, scope) = "ClassicalClaimSetSatisfied" <=>
        g[<<"leaf", "valid_default">>] = "Accept" /\ leaf /\ (both => issuer)
  BY <1>1, BouncyCastleAnswer DEF Judged
<1>3. BouncyCastleResults /\ BouncyCastleIdentified(g)
  BY BouncyCastleKnown
<1>4. leaf <=> <<"leaf", "valid_default">> \notin D /\ Sane("leaf")
  BY <1>3, BouncyCastleLeafMeans DEF BouncyCastleResults, Ran, Held, As, Cleared
<1>5. issuer <=> <<"leaf", "valid_default">> \notin D /\ Sane("issuer")
  BY <1>3, BouncyCastleIssuerMeans DEF BouncyCastleResults, Ran, Held, As, Cleared
<1>6. g[<<"leaf", "valid_default">>] = "Accept" <=> <<"leaf", "valid_default">> \notin D
  BY <1>3 DEF BouncyCastleResults, Ran, As
<1>7. D \cap ClassicalNeeds(scope) = {} <=>
        <<"leaf", "valid_default">> \notin D /\ Sane("leaf") /\ (both => Sane("issuer"))
  <2> DEFINE S == {"leaf"} \cup (IF scope = "EndEntity" THEN {} ELSE {"issuer"})
             N == {<<id, what>> : id \in S, what \in W}
  <2>1. ClassicalNeeds(scope) = {<<"leaf", "valid_default">>} \cup N
    BY DEF ClassicalNeeds
  <2>2. D \cap N = {} <=> \A id \in S : \A w \in W : <<id, w>> \notin D
    <3> HIDE DEF D, S, W
    <3> QED
      BY SMT
  <2>3. \A id : id \in S <=> id = "leaf" \/ (both /\ id = "issuer")
    BY <1>1 DEF PathScope
  <2>4. D \cap ({<<"leaf", "valid_default">>} \cup N) = {} <=>
          <<"leaf", "valid_default">> \notin D /\ D \cap N = {}
    <3> HIDE DEF D, N
    <3> QED
      OBVIOUS
  <2> HIDE DEF D, N, S, W
  <2> QED
    BY <2>1, <2>2, <2>3, <2>4
<1> HIDE DEF leaf, issuer, Sane, W
<1> QED
  BY <1>2, <1>4, <1>5, <1>6, <1>7

LEMMA OpenSslClassical ==
  ASSUME AnalysisInv, Answered, policy = "P0Classical", NEW scope \in scopes(kind),
         kind = "related_openssl"
  PROVE  Verdict(1, scope) = "ClassicalClaimSetSatisfied" <=>
           DOMAIN odd \cap ClassicalNeeds(scope) = {}
<1> DEFINE g == results
           n == OpenSslNode(g)
           e == related_openssl_evidence(g, n)
<1>1. 1 \in DOMAIN answers
  BY FirstAnswer
<1>2. Verdict(1, scope) = "ClassicalClaimSetSatisfied" <=>
        g[<<"leaf", "classical">>] = "Accept" /\ ItemPasses(n, e[1])
  BY <1>1, OpenSslAnswer DEF Judged
<1>3. OpenSslResults /\ Identified(g) /\ g[<<"pair", "digest">>] # None
  BY OpenSslKnown
<1>4. ItemPasses(n, e[1]) <=>
        /\ g[<<"leaf", "classical">>] = "Accept"
        /\ g[<<"leaf", "classical_crl">>][2] = "Pass"
        /\ g[<<"leaf", "classical_invalid">>] = "Reject"
  BY <1>3, OpenSslMeans
<1>5. ItemPasses(n, e[1]) /\ g[<<"leaf", "classical">>] = "Accept" <=>
        \A w \in {"classical", "classical_invalid",
          "classical_crl"} : <<"leaf", w>> \notin DOMAIN odd
  BY <1>3, <1>4 DEF OpenSslResults, Ran, As, Cleared
<1>6. DOMAIN odd \cap ClassicalNeeds(scope) = {} <=>
        \A w \in {"classical", "classical_invalid",
          "classical_crl"} : <<"leaf", w>> \notin DOMAIN odd
  BY DEF ClassicalNeeds
<1> QED
  BY <1>2, <1>5, <1>6

LEMMA ClassicalEarned == AnalysisInv => ClassicalIsEarned
<1> SUFFICES ASSUME AnalysisInv, Answered, policy = "P0Classical", NEW scope \in scopes(kind)
             PROVE  Verdict(1, scope) = "ClassicalClaimSetSatisfied" <=>
                      /\ kind # "pure" /\ DeltaDecides(scope)
                      /\ DOMAIN odd \cap ClassicalNeeds(scope) = {}
  BY DEF ClassicalIsEarned
<1>1. 1 \in DOMAIN answers
  BY FirstAnswer
<1>2. kind \in AllKinds /\ policy \in policies(kind)
  BY <1>1, AnsweredAt
<1>3. kind \notin TlsKinds
  BY <1>2 DEF policies
<1>4. kind # "chameleon" => DeltaDecides(scope)
  BY DEF DeltaDecides
<1>5. CASE kind = "pure"
  BY <1>1, <1>5, PureAnswer DEF Judged
<1>6. CASE kind = "chameleon"
  BY <1>6, ChameleonClassical
<1>7. CASE kind \in {"atomic", "cross_signed", "catalyst", "related", "catalyst_bouncy_castle",
                     "related_openssl"}
  BY <1>4, <1>7, AtomicClassical, CatalystClassical, RelatedClassical, BouncyCastleClassical,
     OpenSslClassical
<1> QED
  BY <1>2, <1>3, <1>5, <1>6, <1>7 DEF AllKinds, PathScopeKinds

\* Under P0 an analysis gives a classical verdict exactly when the classical
\* signature was measured, and shown to decide, at every position in scope,
\* however many results are odd and whatever files are replaced meanwhile.
THEOREM ClassicalOnlyEarned == AnalysisSpec => []ClassicalIsEarned
BY AnalysisInvariant, ClassicalEarned, PTL
=============================================================================
