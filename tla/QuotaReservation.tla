--------------------------- MODULE QuotaReservation ---------------------------
(***************************************************************************)
(* The planner reserves a unit of the day's or the hour's quota before it  *)
(* works.  A reservation counts against the caller's device and address,   *)
(* and one for the language model against all callers together too.  Calls *)
(* run side by side: each fixes its period, locks and reads one row after  *)
(* the other, and writes them all when it commits.  A unit is never given  *)
(* back.                                                                   *)
(***************************************************************************)
EXTENDS Naturals, Sequences, FiniteSets

CONSTANTS
  NoReceipt,
  Reservation,        \* reservation identifiers, that a retry repeats
  Address, Device,    \* hashed addresses and devices
  UnitsPerBucket,     \* of a kind, in its period: 30 and 5 in the code
  UnitsForAll,        \* of the language model, in a day: 100 in the code
  HoursPerDay,
  LastHour,           \* bound on the clock
  Call                \* the database sessions that serve the calls

VARIABLES
  hour,
  used,               \* the units used of every bucket that was locked
  reserved,           \* the receipts
  call                \* the transaction of each session

quotaVars == <<hour, used, reserved, call>>

Kind == {"planner", "gemini"}
Claim == [kind : Kind, address : Address, device : Device, period : Nat]

QuotaAssumption ==
  /\ NoReceipt \notin Claim
  /\ UnitsPerBucket \in [Kind -> Nat] /\ UnitsForAll \in Nat
  /\ HoursPerDay \in Nat \ {0} /\ LastHour \in Nat
ASSUME QuotaAssumption

NoCall == [phase |-> "idle"]

PeriodOf(kind) == IF kind = "planner" THEN hour ELSE hour \div HoursPerDay

Bucket(claim, side, hash) ==
  [side |-> side, hash |-> hash, kind |-> claim.kind, period |-> claim.period]

\* A claim's rows in the order in which they are locked.
BucketsOf(claim) ==
  LET device == Bucket(claim, "device", claim.device)
      address == Bucket(claim, "address", claim.address)
      everyone == Bucket(claim, "all", "all")
  IN IF claim.kind = "planner" THEN <<device, address>> ELSE <<device, address, everyone>>

BucketSet(claim) == {BucketsOf(claim)[n] : n \in DOMAIN BucketsOf(claim)}

UnitsOf(bucket) == IF bucket.side = "all" THEN UnitsForAll ELSE UnitsPerBucket[bucket.kind]
Used(bucket) == IF bucket \in DOMAIN used THEN used[bucket] ELSE 0

LocksHeld(c) ==
  IF call[c].phase # "locking" THEN {}
  ELSE {BucketsOf(call[c].claim)[n] : n \in 1 .. call[c].locked}

\* Mutant: rows are read without locking them.
RowIsFreeAlways(c, bucket) == call[c].phase = "locking"

RowIsFree(c, bucket) == \A other \in Call \ {c} : bucket \notin LocksHeld(other)

-----------------------------------------------------------------------------
QuotaInit ==
  /\ hour = 0
  /\ used = << >>
  /\ reserved = [id \in Reservation |-> NoReceipt]
  /\ call = [c \in Call |-> NoCall]

\* The reservation's lock is taken and the period fixed before any row is
\* locked.  A reservation with a receipt is replayed, or refused for another
\* kind, address or device: neither changes anything.
BeginReservation(c, id, kind, address, device) ==
  /\ call[c] = NoCall
  /\ reserved[id] = NoReceipt
  /\ \A other \in Call : call[other].phase = "locking" => call[other].id # id
  /\ call' = [call EXCEPT ![c] =
       [phase |-> "locking", id |-> id, locked |-> 0,
        claim |-> [kind |-> kind, address |-> address, device |-> device,
                   period |-> PeriodOf(kind)]]]
  /\ UNCHANGED <<hour, used, reserved>>

NextBucket(c) == BucketsOf(call[c].claim)[call[c].locked + 1]
RowsLeft(c) == call[c].locked < Len(BucketsOf(call[c].claim))

\* A bucket's row, inserted on first use, is locked and read: without units left
\* it refuses the whole reservation.
LockBucket(c) ==
  /\ call[c].phase = "locking" /\ RowsLeft(c)
  /\ RowIsFree(c, NextBucket(c))
  /\ IF Used(NextBucket(c)) >= UnitsOf(NextBucket(c))
       THEN call' = [call EXCEPT ![c] = NoCall]
       ELSE call' = [call EXCEPT ![c].locked = @ + 1]
  /\ UNCHANGED <<hour, used, reserved>>

CommitReservation(c) ==
  /\ call[c].phase = "locking" /\ ~RowsLeft(c)
  /\ LET claim == call[c].claim IN
     /\ used' = [bucket \in DOMAIN used \cup BucketSet(claim) |->
                   Used(bucket) + IF bucket \in BucketSet(claim) THEN 1 ELSE 0]
     /\ reserved' = [reserved EXCEPT ![call[c].id] = claim]
  /\ call' = [call EXCEPT ![c] = NoCall]
  /\ UNCHANGED hour

\* A statement timeout or a lost connection.
AbortReservation(c) ==
  /\ call[c].phase = "locking"
  /\ call' = [call EXCEPT ![c] = NoCall]
  /\ UNCHANGED <<hour, used, reserved>>

HourPasses ==
  /\ hour < LastHour
  /\ hour' = hour + 1
  /\ UNCHANGED <<used, reserved, call>>

QuotaNext ==
  \/ \E c \in Call :
       \/ \E id \in Reservation, kind \in Kind, address \in Address, device \in Device :
            BeginReservation(c, id, kind, address, device)
       \/ LockBucket(c) \/ CommitReservation(c) \/ AbortReservation(c)
  \/ HourPasses

QuotaSpec == QuotaInit /\ [][QuotaNext]_quotaVars

-----------------------------------------------------------------------------
(* No unit is lost or given twice: every count is the number of receipts   *)
(* that claim it, in the period each was charged to, and keeps to its      *)
(* limit, whichever calls raced for the last units or over the end of an   *)
(* hour, and whichever were retried.                                       *)
QuotaMatchesReceipts ==
  \A bucket \in DOMAIN used \cup UNION {BucketSet(reserved[id]) : id \in
                 {r \in Reservation : reserved[r] # NoReceipt}} :
    /\ Used(bucket) = Cardinality({id \in Reservation :
                        reserved[id] # NoReceipt /\ bucket \in BucketSet(reserved[id])})
    /\ Used(bucket) <= UnitsOf(bucket)
=============================================================================
