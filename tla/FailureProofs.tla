--------------------------- MODULE FailureProofs ----------------------------
(***************************************************************************)
(* The classification of failures is right for every finite graph of       *)
(* exceptions and every limit, the 24 of the code included.                *)
(***************************************************************************)
EXTENDS FailureClass, FiniteSetTheorems, SequenceTheorems, TLAPS

TypeInv ==
    /\ source \in {"registry", "database"}
    /\ kind[Root] \in RootKinds(source)
    /\ \A e \in Errors \ {Root} : kind[e] \in Kinds
    /\ links \in [Errors -> Seq(Errors)]
    /\ limit \in Nat \ {0}
    /\ pending \in Seq(Errors)
    /\ chain \in Seq(Errors)
    /\ verdict \in {"none", "retryable", "permanent"}

\* The traversal: what it has yielded or will look at is involved; whatever a
\* yielded exception is linked to is yielded or waits; the root is yielded first,
\* and nothing is yielded twice.
WalkInv ==
    /\ Seen \cup ToSet(pending) \subseteq Involved
    /\ Root \in Seen \/ (chain = <<>> /\ pending = <<Root>>)
    /\ \A e \in Seen : ToSet(links[e]) \subseteq Seen \cup ToSet(pending)
    /\ \A i, j \in 1..Len(chain) : chain[i] = chain[j] => i = j

IInv == TypeInv /\ WalkInv /\ VerdictFitsCauses

----------------------------------------------------------------------------
(* Sequences and their elements *)

LEMMA ElementsOfAppend ==
    ASSUME NEW S, NEW s \in Seq(S), NEW e \in S
    PROVE  Append(s, e) \in Seq(S) /\ ToSet(Append(s, e)) = ToSet(s) \cup {e}
  <1>1. /\ Append(s, e) \in Seq(S)
        /\ DOMAIN Append(s, e) = 1..(Len(s) + 1)
        /\ \A i \in 1..Len(s) : Append(s, e)[i] = s[i]
        /\ Append(s, e)[Len(s) + 1] = e
    OBVIOUS
  <1>2. DOMAIN Append(s, e) = DOMAIN s \cup {Len(s) + 1} /\ DOMAIN s = 1..Len(s)
    BY <1>1
  <1> QED BY <1>1, <1>2 DEF ToSet

LEMMA ElementsOfConcatenation ==
    ASSUME NEW S, NEW s \in Seq(S), NEW t \in Seq(S)
    PROVE  s \o t \in Seq(S) /\ ToSet(s \o t) = ToSet(s) \cup ToSet(t)
  <1>1. /\ s \o t \in Seq(S)
        /\ Len(s \o t) = Len(s) + Len(t)
        /\ \A i \in 1..Len(s) : (s \o t)[i] = s[i]
        /\ \A i \in 1..Len(t) : (s \o t)[Len(s) + i] = t[i]
    OBVIOUS
  <1>2. \A i \in DOMAIN (s \o t) :
            i \in DOMAIN s \/ \E j \in DOMAIN t : i = Len(s) + j
    <2> SUFFICES ASSUME NEW i \in DOMAIN (s \o t), i \notin DOMAIN s
                 PROVE  \E j \in DOMAIN t : i = Len(s) + j
      OBVIOUS
    <2>1. i - Len(s) \in DOMAIN t
      BY <1>1
    <2> QED BY <2>1, <1>1
  <1>3. ToSet(s \o t) \subseteq ToSet(s) \cup ToSet(t)
    BY <1>1, <1>2 DEF ToSet
  <1>4. ToSet(s) \subseteq ToSet(s \o t)
    BY <1>1 DEF ToSet
  <1>5. ToSet(t) \subseteq ToSet(s \o t)
    <2> SUFFICES ASSUME NEW j \in 1..Len(t) PROVE t[j] \in ToSet(s \o t)
      BY DEF ToSet
    <2>1. Len(s) + j \in DOMAIN (s \o t) /\ (s \o t)[Len(s) + j] = t[j]
      BY <1>1
    <2> QED BY <2>1 DEF ToSet
  <1> QED BY <1>1, <1>3, <1>4, <1>5

LEMMA FrontAndLast ==
    ASSUME NEW S, NEW s \in Seq(S), s # <<>>
    PROVE  /\ Front(s) \in Seq(S) /\ Last(s) \in S
           /\ ToSet(s) = ToSet(Front(s)) \cup {Last(s)}
  <1>1. Len(s) \in Nat \ {0}
    OBVIOUS
  <1>2. /\ Front(s) \in Seq(S) /\ Len(Front(s)) = Len(s) - 1
        /\ \A i \in 1..(Len(s) - 1) : Front(s)[i] = s[i]
    <2>1. \A i \in 1..(Len(s) - 1) : s[i] \in S
      OBVIOUS
    <2>2. /\ SubSeq(s, 1, Len(s) - 1) \in Seq(S)
          /\ Len(SubSeq(s, 1, Len(s) - 1)) =
                 IF 1 <= Len(s) - 1 THEN (Len(s) - 1) - 1 + 1 ELSE 0
          /\ \A i \in 1..((Len(s) - 1) - 1 + 1) : SubSeq(s, 1, Len(s) - 1)[i] = s[1 + i - 1]
      <3>1. 1 \in Int /\ Len(s) - 1 \in Int
        BY <1>1
      <3> HIDE <1>1
      <3> QED BY <2>1, <3>1, SubSeqProperties
    <2>3. \A i \in 1..(Len(s) - 1) : 1 + i - 1 = i
      BY <1>1
    <2>4. \A i \in 1..(Len(s) - 1) : SubSeq(s, 1, Len(s) - 1)[i] = s[i]
      <3>1. (Len(s) - 1) - 1 + 1 = Len(s) - 1
        BY <1>1
      <3> QED BY <2>2, <2>3, <3>1
    <2>5. Len(SubSeq(s, 1, Len(s) - 1)) = Len(s) - 1
      <3>1. CASE Len(s) = 1
        BY <2>2, <3>1
      <3>2. CASE Len(s) > 1
        <4>1. 1 <= Len(s) - 1 /\ (Len(s) - 1) - 1 + 1 = Len(s) - 1
          BY <1>1, <3>2
        <4> QED BY <2>2, <4>1
      <3> QED BY <1>1, <3>1, <3>2
    <2>6. Front(s) = SubSeq(s, 1, Len(s) - 1)
      BY DEF Front
    <2> QED BY <2>2, <2>4, <2>5, <2>6
  <1>3. Last(s) = s[Len(s)] /\ Last(s) \in S
    BY <1>1 DEF Last
  <1>4. DOMAIN s = DOMAIN Front(s) \cup {Len(s)} /\ DOMAIN Front(s) = 1..(Len(s) - 1)
    BY <1>1, <1>2
  <1> QED BY <1>1, <1>2, <1>3, <1>4 DEF ToSet

----------------------------------------------------------------------------
(* What is involved *)

LEMMA InvolvedIsClosed ==
    ASSUME TypeInv
    PROVE  /\ Root \in Involved /\ Involved \subseteq Errors
           /\ \A e \in Involved : ToSet(links[e]) \subseteq Involved
  <1>1. Root \in Errors
    BY ErrorsAssumption
  <1>2. ASSUME NEW e \in Involved, NEW x \in ToSet(links[e]) PROVE x \in Involved
    <2>1. x \in Errors
      BY DEF TypeInv, ToSet, Involved
    <2>2. ASSUME NEW S \in SUBSET Errors, Root \in S, ClosedUnderLinks(S) PROVE x \in S
      BY <2>2 DEF Involved, ClosedUnderLinks
    <2> QED BY <2>1, <2>2 DEF Involved
  <1> QED BY <1>1, <1>2 DEF Involved

\* A traversal that ends without being cut has yielded everything involved, and
\* so has one that was cut after as many different exceptions as are involved.
LEMMA NothingOverlooked ==
    ASSUME TypeInv, WalkInv, verdict = "none", ~Walking, Cardinality(Involved) <= limit
    PROVE  Seen = Involved
  <1>1. IsFiniteSet(Involved) /\ Seen \subseteq Involved
    BY InvolvedIsClosed, ErrorsAssumption, FS_Subset DEF WalkInv
  <1>2. CASE pending = <<>>
    <2>1. ToSet(pending) = {}
      BY <1>2 DEF ToSet
    <2>2. Seen \in SUBSET Errors /\ Root \in Seen /\ ClosedUnderLinks(Seen)
      BY <1>1, <1>2, <2>1, InvolvedIsClosed DEF WalkInv, ClosedUnderLinks
    <2>3. Involved \subseteq Seen
      BY <2>2 DEF Involved
    <2> QED BY <1>1, <2>3
  <1>3. CASE Len(chain) >= limit
    <2>1. IsFiniteSet(Seen) /\ Cardinality(Seen) <= Cardinality(Involved)
          /\ (Cardinality(Involved) = Cardinality(Seen) => Involved = Seen)
      BY <1>1, FS_Subset
    <2>2. Len(chain) \in Nat /\ chain \in [1..Len(chain) -> Seen]
      BY DEF TypeInv, Seen, ToSet
    <2>3. chain \in Bijection(1..Len(chain), Seen)
      <3>1. chain \in Injection(1..Len(chain), Seen)
        BY <2>2 DEF WalkInv, Injection, IsInjective
      <3>2. chain \in Surjection(1..Len(chain), Seen)
        BY <2>2 DEF Surjection, Seen, ToSet
      <3> QED BY <3>1, <3>2 DEF Bijection
    <2>4. IsFiniteSet(1..Len(chain)) /\ Cardinality(1..Len(chain)) = Len(chain)
      BY <2>2, FS_Interval
    <2>5. Cardinality(Seen) = Len(chain)
      BY <2>3, <2>4, FS_Bijection DEF ExistsBijection
    <2>6. Cardinality(Involved) \in Nat
      BY <1>1, FS_CardinalityType
    <2>7. Cardinality(Involved) = Cardinality(Seen)
      BY <1>3, <2>1, <2>2, <2>5, <2>6 DEF TypeInv
    <2> QED BY <2>1, <2>7
  <1>4. pending = <<>> \/ Len(chain) >= limit
    BY DEF Walking, TypeInv
  <1> QED BY <1>2, <1>3, <1>4
----------------------------------------------------------------------------
(* The verdict *)

\* FirstIn returns the kind of an exception it looks for, if there is one.
LEMMA FirstIsFound ==
    ASSUME TypeInv, NEW ks
    PROVE  \/ (\A e \in Seen : kind[e] \notin ks) /\ FirstIn(ks) = "plain"
           \/ \E e \in Seen : kind[e] \in ks /\ FirstIn(ks) = kind[e]
  <1> DEFINE hits == {i \in DOMAIN chain : kind[chain[i]] \in ks}
  <1>1. CASE hits = {}
    BY <1>1 DEF FirstIn, Seen, ToSet
  <1>2. CASE hits # {}
    <2>1. hits \subseteq Nat
      BY DEF TypeInv
    <2>2. \E i \in hits : \A j \in hits : i =< j
      <3> DEFINE less == {p \in Nat \X Nat : p[1] < p[2]}
      <3>1. IsWellFoundedOn(less, Nat)
        BY NatLessThanWellFounded DEF OpToRel
      <3>2. PICK i \in hits : \A j \in hits : <<j, i>> \notin less
        BY <1>2, <2>1, <3>1, WFMin
      <3>3. ASSUME NEW j \in hits PROVE i =< j
        <4>1. i \in Nat /\ j \in Nat
          BY <2>1
        <4>2. ~(j < i)
          BY <3>2, <4>1
        <4> QED BY <4>1, <4>2
      <3> QED BY <3>3
    <2>4. Min(hits) \in hits
      BY <2>2 DEF Min
    <2>5. chain[Min(hits)] \in Seen /\ kind[chain[Min(hits)]] \in ks
      BY <2>4 DEF Seen, ToSet
    <2>6. FirstIn(ks) = kind[chain[Min(hits)]]
      BY <1>2 DEF FirstIn
    <2> QED BY <2>5, <2>6
  <1> QED BY <1>1, <1>2

LEMMA NetworkEvidence ==
    ASSUME TypeInv
    PROVE  /\ NetworkFailure => \E e \in Seen : kind[e] \in {"dns_temporary", "network"}
           /\ (\A e \in Seen : kind[e] \notin {"tls", "dns_rejected"})
                  /\ (\E e \in Seen : kind[e] \in {"dns_temporary", "network"})
                  => NetworkFailure
           /\ (\E e \in Seen : kind[e] = "dns_rejected")
                  /\ (\A e \in Seen : kind[e] # "dns_temporary") => ~NetworkFailure
  <1> DEFINE dns == FirstIn({"dns_temporary", "dns_rejected"})
  <1>1. \/ (\A e \in Seen : kind[e] \notin {"dns_temporary", "dns_rejected"}) /\ dns = "plain"
        \/ \E e \in Seen : kind[e] \in {"dns_temporary", "dns_rejected"} /\ dns = kind[e]
    BY FirstIsFound
  <1>2. NetworkFailure =
            (~Has("tls") /\ IF dns = "plain" THEN Has("network") ELSE dns = "dns_temporary")
    BY DEF NetworkFailure
  <1> HIDE DEF dns
  <1> QED BY <1>1, <1>2 DEF Has

Retryable == IF source = "registry" THEN RegistryRetryable ELSE DatabaseRetryable

\* What the classifiers conclude from the exceptions that were yielded.
LEMMA SeenEvidence ==
    ASSUME TypeInv, Root \in Seen, Seen \subseteq Errors
    PROVE  /\ Retryable => \E e \in Seen : kind[e] \in Transient
           /\ (\E e \in Seen : kind[e] \in Permanent) => ~Retryable
           /\ (\A e \in Seen : kind[e] \notin Permanent \cup {"dns_rejected"})
                  /\ (\E e \in Seen : kind[e] \in Transient) => Retryable
           /\ (\E e \in Seen : kind[e] = "dns_rejected")
                  /\ (\A e \in Seen : kind[e] \notin Transient \ {"network"}) => ~Retryable
  <1>1. CASE source = "registry"
    BY <1>1, NetworkEvidence DEF Retryable, RegistryRetryable, Transient, Permanent, Has
  <1>2. CASE source = "database"
    <2>1. /\ kind[Root] \in {"connection", "foreign"}
          /\ \A e \in Errors \ {Root} : kind[e] \notin {"connection", "foreign"}
      BY <1>2 DEF TypeInv, RootKinds, Kinds
    <2>2. NetworkFailure => ~Has("tls")
      BY DEF NetworkFailure
    <2>3. Retryable = (Has("connection") /\ NetworkFailure)
      BY <1>2 DEF Retryable, DatabaseRetryable
    <2> QED BY <1>2, <2>1, <2>2, <2>3, NetworkEvidence DEF Transient, Permanent, Has
  <1> QED BY <1>1, <1>2 DEF TypeInv

----------------------------------------------------------------------------
(* Every step keeps the invariant *)

LEMMA InitIInv == Init => IInv
  <1> SUFFICES ASSUME Init PROVE IInv
    OBVIOUS
  <1>1. TypeInv
    <2>1. links \in [Errors -> Seq(Errors)]
      <3>1. links \in [Errors -> SeqOf(Errors, RootLinks)]
        BY DEF Init
      <3>2. SeqOf(Errors, RootLinks) \subseteq Seq(Errors)
        BY ErrorsAssumption DEF SeqOf
      <3> QED BY <3>1, <3>2
    <2>2. limit \in Nat \ {0} /\ pending \in Seq(Errors) /\ chain \in Seq(Errors)
      BY ErrorsAssumption DEF Init
    <2>3. verdict = "none"
      BY DEF Init
    <2>4. /\ source \in {"registry", "database"}
          /\ kind[Root] \in RootKinds(source)
          /\ \A e \in Errors \ {Root} : kind[e] \in Kinds
      BY DEF Init
    <2> QED BY <2>1, <2>2, <2>3, <2>4 DEF TypeInv
  <1>2. WalkInv
    <2>1. /\ Seen = {} /\ ToSet(pending) = {Root} /\ Len(chain) = 0
          /\ chain = <<>> /\ pending = <<Root>>
      BY DEF Init, Seen, ToSet
    <2>2. Root \in Involved
      BY <1>1, InvolvedIsClosed
    <2> QED BY <2>1, <2>2 DEF WalkInv
  <1>3. VerdictFitsCauses
    BY DEF Init, VerdictFitsCauses
  <1> QED BY <1>1, <1>2, <1>3 DEF IInv

LEMMA SameGraph ==
    ASSUME UNCHANGED <<source, kind, links, limit>>
    PROVE  /\ Involved' = Involved /\ Permanent' = Permanent /\ Transient' = Transient
           /\ \A S : KindsOf(S)' = KindsOf(S)
  BY DEF Involved, ClosedUnderLinks, Permanent, Transient, KindsOf

LEMMA VisitPreserves == IInv /\ Visit => IInv'
  <1> SUFFICES ASSUME IInv, Visit PROVE IInv'
    OBVIOUS
  <1> DEFINE e == Last(pending)
  <1>1. UNCHANGED <<source, kind, links, limit, verdict>> /\ verdict = "none"
    BY DEF Visit, Walking
  <1>2. /\ Front(pending) \in Seq(Errors) /\ e \in Errors
        /\ ToSet(pending) = ToSet(Front(pending)) \cup {e}
    BY FrontAndLast DEF IInv, TypeInv, Visit, Walking
  <1>3. links[e] \in Seq(Errors) /\ ToSet(links[e]) \subseteq Involved
    BY <1>2, InvolvedIsClosed DEF IInv, TypeInv, WalkInv
  <1>4. Involved' = Involved
    BY <1>1, SameGraph
  <1>5. VerdictFitsCauses'
    BY <1>1 DEF VerdictFitsCauses
  <1>6. CASE e \in Seen
    <2>1. pending' = Front(pending) /\ chain' = chain /\ Seen' = Seen
      BY <1>6 DEF Visit, Seen
    <2>2. TypeInv'
      BY <1>1, <1>2, <2>1 DEF IInv, TypeInv
    <2>3. WalkInv'
      <3>1. Seen' \cup ToSet(pending') = Seen \cup ToSet(pending) /\ chain # <<>>
        BY <1>2, <1>6, <2>1 DEF Seen, ToSet
      <3>2. ToSet(pending)' = ToSet(pending')
        BY DEF ToSet
      <3> QED BY <1>1, <1>4, <2>1, <3>1, <3>2 DEF IInv, WalkInv
    <2> QED BY <1>5, <2>2, <2>3 DEF IInv
  <1>7. CASE e \notin Seen
    <2>1. chain' = Append(chain, e) /\ pending' = Front(pending) \o links[e]
      BY <1>7 DEF Visit
    <2>2. /\ chain' \in Seq(Errors) /\ Seen' = Seen \cup {e}
          /\ pending' \in Seq(Errors)
          /\ ToSet(pending') = ToSet(Front(pending)) \cup ToSet(links[e])
      BY <1>2, <1>3, <2>1, ElementsOfAppend, ElementsOfConcatenation DEF IInv, TypeInv, Seen
    <2>3. TypeInv'
      BY <1>1, <2>2 DEF IInv, TypeInv
    <2>4. WalkInv'
      <3>1. \A i, j \in 1..Len(chain') : chain'[i] = chain'[j] => i = j
        <4>1. /\ Len(chain') = Len(chain) + 1 /\ Len(chain) \in Nat
              /\ chain'[Len(chain) + 1] = e
              /\ \A i \in 1..Len(chain) : chain'[i] = chain[i] /\ chain[i] # e
          BY <1>2, <1>7, <2>1 DEF IInv, TypeInv, Seen, ToSet
        <4> QED BY <4>1 DEF IInv, WalkInv
      <3>2. Seen' \cup ToSet(pending') = Seen \cup ToSet(pending) \cup ToSet(links[e])
        BY <1>2, <2>2
      <3>3. ToSet(pending)' = ToSet(pending')
        BY DEF ToSet
      <3>4. \A x \in Seen' : ToSet(links[x])' = ToSet(links[x])
        BY <1>1
      <3>5. Root \in Seen'
        <4>1. CASE Root \in Seen
          BY <2>2, <4>1
        <4>2. CASE pending = <<Root>>
          <5>1. e = Root
            BY <4>2 DEF Last
          <5> HIDE DEF e
          <5> QED BY <2>2, <5>1
        <4> QED BY <4>1, <4>2 DEF IInv, WalkInv
      <3> HIDE DEF e
      <3> QED BY <1>1, <1>3, <1>4, <2>2, <3>1, <3>2, <3>3, <3>4, <3>5 DEF IInv, WalkInv
    <2> QED BY <1>5, <2>3, <2>4 DEF IInv
  <1> QED BY <1>6, <1>7

LEMMA ClassifyPreserves == IInv /\ Classify => IInv'
  <1> SUFFICES ASSUME IInv, Classify PROVE IInv'
    OBVIOUS
  <1>1. /\ UNCHANGED <<source, kind, links, limit, pending, chain>>
        /\ verdict = "none" /\ ~Walking
        /\ verdict' = IF Retryable THEN "retryable" ELSE "permanent"
    BY DEF Classify, Retryable
  <1>2. TypeInv' /\ WalkInv'
    <2>1. Seen' = Seen /\ ToSet(pending)' = ToSet(pending) /\ Involved' = Involved
      BY <1>1, SameGraph DEF Seen
    <2> QED BY <1>1, <2>1 DEF IInv, TypeInv, WalkInv
  <1>3. VerdictFitsCauses'
    <2>1. /\ Seen \subseteq Involved /\ Involved \subseteq Errors
          /\ (Cardinality(Involved) <= limit => Seen = Involved)
      BY <1>1, NothingOverlooked, InvolvedIsClosed DEF IInv, WalkInv
    <2>2. Root \in Seen
      <3> SUFFICES ASSUME chain = <<>>, pending = <<Root>> PROVE FALSE
        BY DEF IInv, WalkInv
      <3>1. Len(chain) = 0 /\ pending # <<>>
        OBVIOUS
      <3>2. limit \in Nat \ {0}
        BY DEF IInv, TypeInv
      <3> QED BY <1>1, <3>1, <3>2 DEF Walking
    <2>3. /\ Retryable => \E e \in Seen : kind[e] \in Transient
          /\ (\E e \in Seen : kind[e] \in Permanent) => ~Retryable
          /\ (\A e \in Seen : kind[e] \notin Permanent \cup {"dns_rejected"})
                 /\ (\E e \in Seen : kind[e] \in Transient) => Retryable
          /\ (\E e \in Seen : kind[e] = "dns_rejected")
                 /\ (\A e \in Seen : kind[e] \notin Transient \ {"network"}) => ~Retryable
      BY <2>1, <2>2, SeenEvidence DEF IInv
    <2> QED BY <1>1, <2>1, <2>3, SameGraph DEF VerdictFitsCauses, KindsOf
  <1> QED BY <1>2, <1>3 DEF IInv

\* backend/startup.py, _chain: the traversal neither leaves what the failure
\* consists of nor forgets a link, in every reachable state.
THEOREM InductiveInvariant == Spec => []IInv
  <1>1. IInv /\ [Next]_failureVars => IInv'
    <2> SUFFICES ASSUME IInv, [Next]_failureVars PROVE IInv'
      OBVIOUS
    <2>1. CASE UNCHANGED failureVars
      <3>1. UNCHANGED <<source, kind, links, limit, pending, chain, verdict>>
        BY <2>1 DEF failureVars
      <3>2. TypeInv' /\ WalkInv'
        BY <3>1, SameGraph DEF IInv, TypeInv, WalkInv, Seen
      <3>3. VerdictFitsCauses'
        BY <3>1, SameGraph DEF IInv, VerdictFitsCauses
      <3> QED BY <3>2, <3>3 DEF IInv
    <2> QED BY <2>1, VisitPreserves, ClassifyPreserves DEF Next
  <1> QED BY <1>1, InitIInv, PTL DEF Spec

\* backend/startup.py, classify_registry and classify_db: the verdict fits the
\* causes for every finite failure, every way it is linked and every limit.
THEOREM VerdictIsRight == Spec => []VerdictFitsCauses
  <1>1. IInv => VerdictFitsCauses
    BY DEF IInv
  <1> QED BY <1>1, InductiveInvariant, PTL
=============================================================================
