----------------------------- MODULE MCAdapter -----------------------------
(***************************************************************************)
(* Small instances of Adapter.                                             *)
(***************************************************************************)
EXTENDS Adapter, TLC

CallerSymmetry == Permutations(Callers)

Config(adapter, mode, executable, image, optional, hostname, time) ==
  [adapter |-> adapter, mode |-> mode, executable |-> executable, image |-> image,
   optional |-> optional, hostname |-> hostname, time |-> time]

\* Two ticks to a second and two seconds to a minute: tick 4 is on the minute,
\* 5 between two seconds, 6 on the second.  Two minutes to a century, so that
\* two digits of the year name the times from 0 to 7.
MCTimes == {4, 5, 6, BadTime}

Hosts ==
  {Config(a, "none", "e1", "host", optional, "h", time) :
     a \in {"openssl", "gnutls"}, optional \in {{}, {"intermediate"}}, time \in MCTimes}
  \cup {Config("openssl", "none", "e1", "host", {"intermediate", "crl"}, "h", 4),
        Config("go", "none", "e1", "host", {"intermediate"}, "h", 5),
        Config("go", "none", "e1", "host", {"intermediate"}, "h", BadTime),
        Config("pyca", "none", "e1", "host", {"intermediate", "script"}, "h", 4)}

\* On the minute, in the next century.
LateConfigs ==
  {Config(a, "none", "e1", "i1", {"intermediate"}, "h", 12) : a \in {"nss", "wolfssl"}}

ContainerConfigs ==
  {Config(a, "none", "e1", "i1", {"intermediate"}, "h", time) :
     a \in {"openssl_container", "gnutls_container", "go_container", "pyca_container",
            "wolfssl", "nss"}, time \in MCTimes}
  \cup {Config("openssl_container", "none", "e1", image, {"intermediate", "crl"}, "h", 4) :
          image \in {"", "i1"}}
  \cup {Config("wolfssl", "none", "e1", "i1", {}, "h", 4)}
  \cup LateConfigs \cup {Config("nss", "none", "e1", "i1", {"intermediate"}, "h", -4)}
  \cup {Config("openssl_tls", "none", "e1", "i1", {"intermediate", "key"}, hostname, time) :
          hostname \in {"", "h"}, time \in {5, BadTime}}

BouncyCastle ==
  {Config("bouncy_castle", mode, "e1", "i1", {"intermediate"} \cup extra, "h", 4) :
     mode \in {"Path", "PathBuilder", "AlternativeSignature", "DeltaSignature",
               "TlsTranscript", "CrlStatus", "CertificateSignature"},
     extra \in {{}, {"key"}, {"crl"}}}

EveryConfig == Hosts \cup ContainerConfigs \cup BouncyCastle

\* e2 and e3 are not UTF-8 and are displayed alike; e1 runs two images.
CacheConfigs ==
  {Config("go", "none", e, "host", {"intermediate"}, "h", 4) : e \in {"e2", "e3"}}
  \cup {Config("go_container", "none", "e1", image, {"intermediate"}, "h", 4) :
          image \in {"i1", "i2"}}

\* e4 is valid UTF-8 and its name holds the replacement character itself.
AliasConfigs ==
  {Config("go", "none", e, "host", {"intermediate"}, "h", 4) : e \in {"e2", "e4"}}

MCDisplayedAs == [e \in {"e1", "e2", "e3", "e4"} |-> IF e = "e1" THEN "d1" ELSE "d2"]
MCUtf8 == {"e1", "e4"}

\* At most one of the three ways an output is cut; a signal leaves no status.
EveryOutput ==
  {o \in [status : {"0", "other", "signal"}, timed_out : BOOLEAN,
          stdout_truncated : BOOLEAN, stderr_truncated : BOOLEAN,
          markers : SUBSET Markers] :
     Cardinality({f \in {"timed_out", "stdout_truncated", "stderr_truncated"} : o[f]}) <= 1}

Result(status, truncated) ==
  [status |-> status, timed_out |-> FALSE, stdout_truncated |-> truncated,
   stderr_truncated |-> FALSE]
SomeResults == {Result("0", FALSE), Result("0", TRUE), Result("other", FALSE)}
WholeOrCut == {Result("0", FALSE), Result("0", TRUE)}
OneOutput ==
  {[status |-> "0", timed_out |-> FALSE, stdout_truncated |-> FALSE,
    stderr_truncated |-> FALSE, markers |-> {"accept"}]}

\* Every certificate differs; a replaced file may hold any of them, or "new".
MCInitialFiles ==
  {[f \in File |-> IF f \in {"root", "intermediate", "leaf"} THEN f ELSE "text"]}
=============================================================================
