------------------------------ MODULE Checkers ------------------------------
(* How each checker turns the answer of its backend into a verdict on the     *)
(* lock (src/internal/lockcheck).                                             *)
(*                                                                           *)
(* The lock is a record: an object, an item or a row that exists while it is  *)
(* held, or one that stays and carries a mark (a holder identity in           *)
(* kubernetes, a lease in azurerm, a flag in tfe, the lock itself on a state  *)
(* file or on the number of a row).  What local and pg do with that lock to   *)
(* find out is in PlanGate.                                                   *)
Deleting == {"s3", "dynamodb", "gcs", "cos", "oci", "oss", "consul"}
Marking  == {"kubernetes", "azurerm", "tfe", "local", "pg"}

\* An answer to a read: an error that says "not found", another error, or the
\* record with or without its mark.
Answer(error, present, marked) ==
    [error |-> error, present |-> present, marked |-> marked]

Failure == Answer("other", FALSE, FALSE)

\* What the comments and error checks of the checkers know of the backends.  A
\* missing container is an error of its own but where the checker looks at
\* nothing but the status 404, or a file is missing with its directory; oci
\* answers 404 as well where the caller may not read; a read that finds nothing
\* is no error in consul, dynamodb and oss, and one like any other in tfe.
StatusOnly  == {"azurerm", "cos", "oci", "kubernetes", "local"}
EmptyAnswer == {"consul", "dynamodb", "oss"}

AnswerToRead(mechanism, container, allowed, record) ==
    IF ~allowed
    THEN Answer(IF mechanism = "oci" THEN "notFound" ELSE "other", FALSE, FALSE)
    ELSE IF ~container
    THEN Answer(IF mechanism \in StatusOnly THEN "notFound" ELSE "other",
                FALSE, FALSE)
    ELSE IF record = "absent" /\ mechanism \notin EmptyAnswer
    THEN Answer(IF mechanism = "tfe" THEN "other" ELSE "notFound", FALSE, FALSE)
    ELSE Answer("none", record # "absent", record = "marked")

-----------------------------------------------------------------------------
\* That there is no record is an error of its own kind; else it is as found.
ErrorOr(a, found) ==
    IF a.error = "none" THEN found
    ELSE IF a.error = "notFound" THEN "free" ELSE "unknown"

\* Any error is an error.
FailOr(a, found) == IF a.error = "none" THEN found ELSE "unknown"

\* The object is the lock.
LockObject(a) == ErrorOr(a, "held")

\* isNotFound: the error code is NoSuchKey or NotFound
PeekS3Lockfile(a) == LockObject(a)

\* storage.ErrObjectNotExist
PeekGCSLockfile(a) == LockObject(a)

\* an error of the service with the status 404
PeekOCILockObject(a) == LockObject(a)

\* Wrong: any error of the service says that the object is not there.
PeekCOSAnyError(a) == IF a.error = "none" THEN "held" ELSE "free"

\* a *cos.ErrorResponse with the status 404
PeekCOSLockObject(a) == LockObject(a)

\* An empty answer is not an error: no item, no columns, no pair.
LockItem(a) == FailOr(a, IF a.present THEN "held" ELSE "free")

PeekDynamoDBLock(a) == LockItem(a)
PeekOSSLockRow(a) == LockItem(a)
PeekConsulLockInfo(a) == LockItem(a)

LockMark(a) == IF a.marked THEN "held" ELSE "free"

\* Wrong: the lease is taken for the lock.
PeekKubernetesExists(a) == LockObject(a)

\* the lease is the lock only with a holder identity
PeekKubernetesLease(a) == ErrorOr(a, LockMark(a))

\* the blob is locked while it is leased
PeekAzurermLease(a) == ErrorOr(a, LockMark(a))

\* ws.Locked
PeekTFEWorkspaceLock(a) == FailOr(a, LockMark(a))

\* os.IsNotExist, or what the flock says
PeekLocal(a) == ErrorOr(a, LockMark(a))

\* sql.ErrNoRows, or what pg_try_advisory_lock says
PeekPgAdvisoryLock(a) == ErrorOr(a, LockMark(a))

Verdict(mechanism, a) ==
    CASE mechanism = "s3" -> PeekS3Lockfile(a)
      [] mechanism = "gcs" -> PeekGCSLockfile(a)
      [] mechanism = "oci" -> PeekOCILockObject(a)
      [] mechanism = "cos" -> PeekCOSLockObject(a)
      [] mechanism = "dynamodb" -> PeekDynamoDBLock(a)
      [] mechanism = "oss" -> PeekOSSLockRow(a)
      [] mechanism = "consul" -> PeekConsulLockInfo(a)
      [] mechanism = "kubernetes" -> PeekKubernetesLease(a)
      [] mechanism = "azurerm" -> PeekAzurermLease(a)
      [] mechanism = "tfe" -> PeekTFEWorkspaceLock(a)
      [] mechanism = "local" -> PeekLocal(a)
      [] mechanism = "pg" -> PeekPgAdvisoryLock(a)
=============================================================================
