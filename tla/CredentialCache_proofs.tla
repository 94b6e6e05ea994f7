----------------------- MODULE CredentialCache_proofs -----------------------
(***************************************************************************)
(* Proofs about CredentialCache, for any number of threads and rotations.  *)
(***************************************************************************)
EXTENDS CredentialCache, TLAPS

\* Before the first attempt nothing is cached and nobody is undisturbed.
LEMMA InitInv == Init => IndInv
  BY VersionAssumption DEF Init, IndInv, TypeOK, Versions, NoVersion, Steps, Outcomes

\* A rotation step makes every attempt a disturbed one.
LEMMA RotationInv ==
  ASSUME IndInv, ChangePassword \/ PublishSecret
  PROVE  IndInv'
<1> USE VersionAssumption DEF IndInv, ChangePassword, PublishSecret
<1>1. password' \in Versions /\ secret' \in Versions
  BY DEF TypeOK, Versions
<1>2. TypeOK'
  BY <1>1 DEF TypeOK
<1>3. \A t \in Threads : ~undisturbed'[t]
  OBVIOUS
<1>4. QED
  BY <1>2, <1>3

\* An empty cache is as good as an accepted one.
LEMMA ExpireInv ==
  ASSUME IndInv, Expire
  PROVE  IndInv'
  BY DEF IndInv, TypeOK, Versions, NoVersion, Steps, Outcomes, Expire, Calm, Settled,
         HoldsStaleAnswer

\* Every step of every attempt keeps the invariant.
LEMMA AttemptInv ==
  ASSUME IndInv, NEW s \in Threads, Attempt(s)
  PROVE  IndInv'
<1> USE DEF IndInv, TypeOK, Versions, NoVersion, Steps, Outcomes, Calm, Settled,
            HoldsStaleAnswer
<1>1. CASE Begin(s)
  BY <1>1 DEF Begin
<1>2. CASE Lookup(s)
  BY <1>2 DEF Lookup
<1>3. CASE GetSecret(s)
  BY <1>3 DEF GetSecret, End
<1>4. CASE Store(s)
  BY <1>4 DEF Store
<1>5. CASE Connect(s)
  BY <1>5 DEF Connect, End
<1>6. CASE ConnectFails(s)
  BY <1>6 DEF ConnectFails, End
<1>7. CASE Invalidate(s)
  BY <1>7 DEF Invalidate
<1>8. QED
  BY <1>1, <1>2, <1>3, <1>4, <1>5, <1>6, <1>7 DEF Attempt

\* The invariant holds in every reachable state.
THEOREM IndInvariant == Spec => []IndInv
<1>1. Init => IndInv
  BY InitInv
<1>2. IndInv /\ [Next]_vars => IndInv'
  <2> SUFFICES ASSUME IndInv, [Next]_vars
               PROVE  IndInv'
    OBVIOUS
  <2>1. CASE ChangePassword \/ PublishSecret
    BY <2>1, RotationInv
  <2>2. CASE Expire
    BY <2>2, ExpireInv
  <2>3. ASSUME NEW t \in Threads, Attempt(t)
        PROVE  IndInv'
    BY <2>3, AttemptInv
  <2>4. CASE UNCHANGED vars
    BY <2>4 DEF vars, IndInv, TypeOK, Calm, Settled, HoldsStaleAnswer
  <2>5. QED
    BY <2>1, <2>2, <2>3, <2>4 DEF Next
<1>3. QED
  BY <1>1, <1>2, PTL DEF Spec

\* One retry is enough for an attempt that no rotation and no outdated answer
\* disturbs (_connect_with_auth_retry), for any number of threads.
THEOREM RetrySuffices == Spec => []OneRetryIsEnough
<1>1. IndInv => OneRetryIsEnough
  BY DEF IndInv, Calm, OneRetryIsEnough
<1>2. QED
  BY <1>1, IndInvariant, PTL
=============================================================================
