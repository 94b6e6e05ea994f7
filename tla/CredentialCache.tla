-------------------------- MODULE CredentialCache --------------------------
(***************************************************************************)
(* Database credentials from AWS Secrets Manager (db_credentials.py) and   *)
(* the connection attempts that use them (_connect_with_auth_retry and     *)
(* _connect_psycopg_with_auth_retry): the threads of one process share one *)
(* cached secret, fetch it outside the lock when it is missing or expired, *)
(* and after an authentication failure drop it and try once more.          *)
(*                                                                         *)
(* Meanwhile the password is rotated: the database and the secret move to  *)
(* the next version, one after the other, in either order.  A secret is    *)
(* its version.  Time to live is abstracted to Expire, which may remove    *)
(* the entry at any moment: an entry past its expiry is never returned.    *)
(***************************************************************************)
EXTENDS Integers

CONSTANTS
    Threads,      \* threads that open connections
    MaxVersion    \* bound: rotations

ASSUME VersionAssumption == MaxVersion \in Nat

Versions == 0 .. MaxVersion

NoVersion == -1

VARIABLES
    password,   \* the version the database accepts
    secret,     \* the version Secrets Manager returns as AWSCURRENT
    cache,      \* _cached_entry: the version it holds, or NoVersion
    pc,         \* where each thread's connection attempt is
    retried,    \* the attempt is in its except branch
    creds,      \* the version the thread has in hand
    outcome,    \* how the thread's last attempt ended
    undisturbed \* history: see Begin

vars == <<password, secret, cache, pc, retried, creds, outcome, undisturbed>>

\* lookup: about to take the cache lock; fetch: has missed and calls AWS;
\* store: has the answer; connect: calls psycopg.connect; invalidate: the
\* first connect has failed on authentication.
Steps == {"idle", "lookup", "fetch", "store", "connect", "invalidate"}

Outcomes == {"none", "connected", "authFailed", "credentialError", "databaseError"}

TypeOK ==
    /\ password \in Versions
    /\ secret \in Versions
    /\ cache \in Versions \cup {NoVersion}
    /\ pc \in [Threads -> Steps]
    /\ retried \in [Threads -> BOOLEAN]
    /\ creds \in [Threads -> Versions \cup {NoVersion}]
    /\ outcome \in [Threads -> Outcomes]
    /\ undisturbed \in [Threads -> BOOLEAN]
    /\ \A t \in Threads :
         pc[t] \in {"store", "connect", "invalidate"} => creds[t] \in Versions

Init ==
    /\ password = 0
    /\ secret = 0
    /\ cache = NoVersion
    /\ pc = [t \in Threads |-> "idle"]
    /\ retried = [t \in Threads |-> FALSE]
    /\ creds = [t \in Threads |-> NoVersion]
    /\ outcome = [t \in Threads |-> "none"]
    /\ undisturbed = [t \in Threads |-> FALSE]

-----------------------------------------------------------------------------
(***************************************************************************)
(* The environment.                                                        *)
(***************************************************************************)
Settled == password = secret

ChangePassword ==
    /\ password <= secret
    /\ password < MaxVersion
    /\ password' = password + 1
    /\ undisturbed' = [t \in Threads |-> FALSE]
    /\ UNCHANGED <<secret, cache, pc, retried, creds, outcome>>

PublishSecret ==
    /\ secret <= password
    /\ secret < MaxVersion
    /\ secret' = secret + 1
    /\ undisturbed' = [t \in Threads |-> FALSE]
    /\ UNCHANGED <<password, cache, pc, retried, creds, outcome>>

Expire ==
    /\ cache # NoVersion
    /\ cache' = NoVersion
    /\ UNCHANGED <<password, secret, pc, retried, creds, outcome, undisturbed>>

-----------------------------------------------------------------------------
(***************************************************************************)
(* A connection attempt.                                                   *)
(***************************************************************************)
\* A thread that is about to store a version the database no longer accepts.
HoldsStaleAnswer(t) == pc[t] = "store" /\ creds[t] # password

\* undisturbed records that the attempt begins with no rotation under way and
\* no stale answer in another thread's hands; a later rotation resets it.
Begin(t) ==
    /\ pc[t] = "idle"
    /\ pc' = [pc EXCEPT ![t] = "lookup"]
    /\ retried' = [retried EXCEPT ![t] = FALSE]
    /\ outcome' = [outcome EXCEPT ![t] = "none"]
    /\ undisturbed' = [undisturbed EXCEPT ![t] =
                         Settled /\ \A u \in Threads : ~HoldsStaleAnswer(u)]
    /\ UNCHANGED <<password, secret, cache, creds>>

\* Mutation: the entry is used without testing that there is one.
LookupUntested(t) ==
    /\ pc[t] = "lookup"
    /\ pc' = [pc EXCEPT ![t] = "connect"]
    /\ creds' = [creds EXCEPT ![t] = cache]
    /\ UNCHANGED <<password, secret, cache, retried, outcome, undisturbed>>

\* First half of _get_aws_secret_cached, under the lock.
Lookup(t) ==
    /\ pc[t] = "lookup"
    /\ IF cache # NoVersion
       THEN /\ pc' = [pc EXCEPT ![t] = "connect"]
            /\ creds' = [creds EXCEPT ![t] = cache]
       ELSE /\ pc' = [pc EXCEPT ![t] = "fetch"]
            /\ UNCHANGED creds
    /\ UNCHANGED <<password, secret, cache, retried, outcome, undisturbed>>

End(t, o) ==
    /\ pc' = [pc EXCEPT ![t] = "idle"]
    /\ outcome' = [outcome EXCEPT ![t] = o]

\* get_database_secret, without the lock.  Any failure, a malformed secret
\* included, ends the attempt: there is no other source of a password.
GetSecret(t) ==
    /\ pc[t] = "fetch"
    /\ \/ /\ creds' = [creds EXCEPT ![t] = secret]
          /\ pc' = [pc EXCEPT ![t] = "store"]
          /\ UNCHANGED outcome
       \/ /\ End(t, "credentialError")
          /\ UNCHANGED creds
    /\ UNCHANGED <<password, secret, cache, retried, undisturbed>>

\* Second half of _get_aws_secret_cached: overwrites whatever is cached.
Store(t) ==
    /\ pc[t] = "store"
    /\ cache' = creds[t]
    /\ pc' = [pc EXCEPT ![t] = "connect"]
    /\ UNCHANGED <<password, secret, retried, creds, outcome, undisturbed>>

\* The answer of the database to psycopg.connect.
Connect(t) ==
    /\ pc[t] = "connect"
    /\ \/ /\ creds[t] = password
          /\ End(t, "connected")
       \/ /\ creds[t] # password
          /\ ~retried[t]
          /\ pc' = [pc EXCEPT ![t] = "invalidate"]
          /\ UNCHANGED outcome
       \/ /\ creds[t] # password
          /\ retried[t]
          /\ End(t, "authFailed")
    /\ UNCHANGED <<password, secret, cache, retried, creds, undisturbed>>

\* Unreachable or another error: is_authentication_error is false.
ConnectFails(t) ==
    /\ pc[t] = "connect"
    /\ End(t, "databaseError")
    /\ UNCHANGED <<password, secret, cache, retried, creds, undisturbed>>

\* Mutation: the secret is looked up again without dropping the cached one.
RetryWithoutInvalidate(t) ==
    /\ pc[t] = "invalidate"
    /\ retried' = [retried EXCEPT ![t] = TRUE]
    /\ pc' = [pc EXCEPT ![t] = "lookup"]
    /\ UNCHANGED <<password, secret, cache, creds, outcome, undisturbed>>

\* Mutation: the credentials in hand are used again; the next attempt fetches.
RetryWithOldKwargs(t) ==
    /\ pc[t] = "invalidate"
    /\ cache' = NoVersion
    /\ retried' = [retried EXCEPT ![t] = TRUE]
    /\ pc' = [pc EXCEPT ![t] = "connect"]
    /\ UNCHANGED <<password, secret, creds, outcome, undisturbed>>

\* invalidate_database_secret_cache, then the kwargs are built anew.
Invalidate(t) ==
    /\ pc[t] = "invalidate"
    /\ cache' = NoVersion
    /\ retried' = [retried EXCEPT ![t] = TRUE]
    /\ pc' = [pc EXCEPT ![t] = "lookup"]
    /\ UNCHANGED <<password, secret, creds, outcome, undisturbed>>

Attempt(t) ==
    \/ Begin(t)
    \/ Lookup(t)
    \/ GetSecret(t)
    \/ Store(t)
    \/ Connect(t)
    \/ ConnectFails(t)
    \/ Invalidate(t)

Next ==
    \/ ChangePassword
    \/ PublishSecret
    \/ Expire
    \/ \E t \in Threads : Attempt(t)

Spec == Init /\ [][Next]_vars

\* Every thread goes on and makes new attempts (the scheduler opens at least
\* one connection per reconcile interval), and a database that can be reached
\* again and again answers in the end.  Expiry, rotation and Secrets Manager
\* are not assumed to do anything.
FairSpec ==
    /\ Spec
    /\ \A t \in Threads : WF_vars(Attempt(t)) /\ SF_vars(Connect(t))

-----------------------------------------------------------------------------
(***************************************************************************)
(* Properties.                                                             *)
(***************************************************************************)
\* One retry is enough: an attempt that begins when a rotation is complete and
\* no other thread is about to cache an outdated answer never ends with an
\* authentication failure, whatever the cache holds and whatever the other
\* threads do meanwhile (_connect_with_auth_retry).
OneRetryIsEnough ==
    \A t \in Threads : undisturbed[t] => outcome[t] # "authFailed"

\* What makes it so.  While an attempt is undisturbed, everything that can still
\* reach the cache is the accepted version, so after it has dropped the cache it
\* can only find that version there.
Calm(t) ==
    /\ Settled
    /\ \A u \in Threads : ~HoldsStaleAnswer(u)
    /\ retried[t] /\ pc[t] = "lookup" => cache \in {NoVersion, password}
    /\ retried[t] /\ pc[t] = "connect" => creds[t] = password
    /\ outcome[t] # "authFailed"

\* The inductive invariant of the proofs.
IndInv == TypeOK /\ \A t \in Threads : undisturbed[t] => Calm(t)

\* Attempts drop an outdated secret by themselves: when rotations have ended, in
\* the end the cache is empty or holds the accepted secret for ever, without
\* waiting for the time to live (invalidate_database_secret_cache).
OutdatedSecretIsDropped ==
    <>[]Settled => <>[](cache \in {NoVersion, password})
=============================================================================
