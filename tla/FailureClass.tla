---------------------------- MODULE FailureClass ----------------------------
(***************************************************************************)
(* backend/startup.py: what makes a failure of a registry or database      *)
(* operation transient (classify_registry, classify_db and the traversal   *)
(* _chain of the links between exceptions, which may form cycles and of    *)
(* which only a bounded number is looked at).                              *)
(***************************************************************************)
EXTENDS Naturals, Sequences, SequencesExt

CONSTANTS
    Errors,     \* the exceptions of one failure
    Root,       \* the one that was caught (of the database: the driver's)
    Limits,     \* how many _chain yields at most; 24 in the code
    RootLinks,  \* bounds of the model: how many links the root has,
    OtherLinks  \* and every other exception

ASSUME ErrorsAssumption ==
    /\ IsFiniteSet(Errors) /\ Root \in Errors
    /\ Limits \subseteq Nat \ {0} /\ RootLinks \in Nat /\ OtherLinks \in Nat

\* What the classifiers can tell of an exception: an SSLError, an answer that
\* denies (4xx, or one of the permanent error codes), one that says "temporarily
\* unavailable" (502-504), a timeout of the HTTP libraries, a gaierror, a socket's
\* timeout or refusal, or none of these.
Kinds == {"tls", "denied", "unavailable", "timeout", "dns_temporary",
          "dns_rejected", "network", "plain"}

\* The root is of a type the classifier accepts, or it is "foreign"; a driver
\* error is one of a lost connection, or "foreign" just as well.
RootKinds(src) ==
    IF src = "registry"
    THEN {"tls", "denied", "unavailable", "timeout", "plain", "foreign"}
    ELSE {"connection", "foreign"}

VARIABLES
    source,     \* "registry" or "database"
    kind,       \* of each exception
    links,      \* orig, original_exception, __cause__, __context__, reason:
                \* those that are set, in this order
    limit,
    pending,    \* the stack of _chain
    chain,      \* what it has yielded
    verdict     \* "none", "retryable" or "permanent"

failureVars == <<source, kind, links, limit, pending, chain, verdict>>

Init ==
    /\ source \in {"registry", "database"}
    /\ kind \in {k \in [Errors -> Kinds \cup RootKinds(source)] :
                    /\ k[Root] \in RootKinds(source)
                    /\ \A e \in Errors \ {Root} : k[e] \in Kinds}
    /\ links \in {l \in [Errors -> SeqOf(Errors, RootLinks)] :
                    \A e \in Errors \ {Root} : Len(l[e]) <= OtherLinks}
    /\ limit \in Limits
    /\ pending = <<Root>> /\ chain = <<>> /\ verdict = "none"

Seen == ToSet(chain)
Walking == verdict = "none" /\ pending # <<>> /\ Len(chain) < limit

BugForgetSeen ==
    /\ Walking
    /\ LET e == Last(pending)
       IN chain' = Append(chain, e) /\ pending' = Front(pending) \o links[e]
    /\ UNCHANGED <<source, kind, links, limit, verdict>>

Visit ==
    /\ Walking
    /\ LET e == Last(pending)
       IN IF e \in Seen
          THEN pending' = Front(pending) /\ UNCHANGED chain
          ELSE chain' = Append(chain, e) /\ pending' = Front(pending) \o links[e]
    /\ UNCHANGED <<source, kind, links, limit, verdict>>

Has(k) == \E e \in Seen : kind[e] = k

FirstIn(ks) ==
    LET hits == {i \in DOMAIN chain : kind[chain[i]] \in ks}
    IN IF hits = {} THEN "plain" ELSE kind[chain[Min(hits)]]

\* _network_failure: TLS, then the first gaierror, then the rest.
NetworkFailure ==
    /\ ~Has("tls")
    /\ LET dns == FirstIn({"dns_temporary", "dns_rejected"})
       IN IF dns = "plain" THEN Has("network") ELSE dns = "dns_temporary"

BugFirstEvidenceWins ==
    IF FirstIn({"tls", "denied", "unavailable"}) = "plain" THEN Has("timeout") \/ NetworkFailure
    ELSE FirstIn({"tls", "denied", "unavailable"}) = "unavailable"

\* Permanent answers anywhere in the chain go before transient ones anywhere.
RegistryRetryable ==
    /\ ~Has("foreign") /\ ~Has("tls") /\ ~Has("denied")
    /\ Has("unavailable") \/ Has("timeout") \/ NetworkFailure

DatabaseRetryable == Has("connection") /\ NetworkFailure

Classify ==
    /\ verdict = "none" /\ ~Walking
    /\ verdict' = IF (IF source = "registry" THEN RegistryRetryable ELSE DatabaseRetryable)
                  THEN "retryable" ELSE "permanent"
    /\ UNCHANGED <<source, kind, links, limit, pending, chain>>

Next == Visit \/ Classify

Spec == Init /\ [][Next]_failureVars

----------------------------------------------------------------------------
(* What the verdict means, without any traversal *)

ClosedUnderLinks(S) == \A e \in S : ToSet(links[e]) \subseteq S

\* Every exception linked to the root, directly or through others.
Involved ==
    {e \in Errors : \A S \in SUBSET Errors : Root \in S /\ ClosedUnderLinks(S) => e \in S}

Permanent == IF source = "registry" THEN {"tls", "denied", "foreign"} ELSE {"tls", "foreign"}
Transient == {"dns_temporary", "network"}
                 \cup (IF source = "registry" THEN {"unavailable", "timeout"} ELSE {})
KindsOf(S) == {kind[e] : e \in S}

\* A failure is retried only on positive evidence that it is transient; and as
\* long as it consists of no more exceptions than _chain looks at, whichever way
\* they are linked, in cycles or several times, no sign of a permanent cause is
\* overlooked, and evidence without a contrary sign is never missed.  A name that
\* is rejected is such a sign against a refused connection, not against an answer
\* that is temporary; of two gaierrors the one that comes first decides.
VerdictFitsCauses ==
    /\ verdict = "retryable" => KindsOf(Involved) \cap Transient # {}
    /\ verdict # "none" /\ Cardinality(Involved) <= limit =>
           /\ KindsOf(Involved) \cap Permanent # {} => verdict = "permanent"
           /\ "dns_rejected" \in KindsOf(Involved)
                 /\ KindsOf(Involved) \cap (Transient \ {"network"}) = {} => verdict = "permanent"
           /\ KindsOf(Involved) \cap (Permanent \cup {"dns_rejected"}) = {} =>
                  (verdict = "retryable") = (KindsOf(Involved) \cap Transient # {})
=============================================================================
