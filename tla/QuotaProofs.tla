------------------------------ MODULE QuotaProofs ------------------------------
(***************************************************************************)
(* The quota's counts match the receipts and keep to their limits, for any *)
(* number of calls, callers and units.  The argument: rows that a call has *)
(* locked had units left and only that call can change them; and a         *)
(* reservation in progress has no receipt and no second call.              *)
(***************************************************************************)
EXTENDS QuotaReservation, FiniteSetTheorems, TLAPS

AnyBucket == [side : {"device", "address", "all"}, hash : Device \cup Address \cup {"all"},
              kind : Kind, period : Nat]

Locking == [phase : {"locking"}, id : Reservation, locked : Nat, claim : Claim]

Receipted == {id \in Reservation : reserved[id] # NoReceipt}
Claimants(bucket) == {id \in Receipted : bucket \in BucketSet(reserved[id])}

QuotaTypeOK ==
  /\ hour \in Nat
  /\ used \in [DOMAIN used -> Nat] /\ DOMAIN used \subseteq AnyBucket
  /\ reserved \in [Reservation -> Claim \cup {NoReceipt}]
  /\ IsFiniteSet(Receipted)
  /\ call \in [Call -> {NoCall} \cup Locking]
  /\ \A c \in Call : call[c] \in Locking => call[c].locked <= Len(BucketsOf(call[c].claim))

CountsMatch ==
  \A bucket \in AnyBucket :
    Used(bucket) = Cardinality(Claimants(bucket)) /\ Used(bucket) <= UnitsOf(bucket)

RowsAreExclusive ==
  /\ \A c, d \in Call : c # d => LocksHeld(c) \cap LocksHeld(d) = {}
  /\ \A c \in Call : \A bucket \in LocksHeld(c) : Used(bucket) < UnitsOf(bucket)

ReservationsAreExclusive ==
  \A c \in Call : call[c] \in Locking =>
    /\ reserved[call[c].id] = NoReceipt
    /\ \A d \in Call \ {c} : call[d] \in Locking => call[d].id # call[c].id

QuotaInv == QuotaTypeOK /\ CountsMatch /\ RowsAreExclusive /\ ReservationsAreExclusive

-----------------------------------------------------------------------------
LEMMA IdleOrLocking ==
  /\ NoCall \notin Locking /\ NoCall.phase # "locking"
  /\ \A x \in Locking : x.phase = "locking"
BY DEF NoCall, Locking

LEMMA BucketsAreBuckets ==
  ASSUME NEW claim \in Claim
  PROVE  /\ Len(BucketsOf(claim)) \in Nat
         /\ DOMAIN BucketsOf(claim) = 1 .. Len(BucketsOf(claim))
         /\ BucketSet(claim) \subseteq AnyBucket
<1>1. /\ Bucket(claim, "device", claim.device) \in AnyBucket
      /\ Bucket(claim, "address", claim.address) \in AnyBucket
      /\ Bucket(claim, "all", "all") \in AnyBucket
  BY DEF Claim, Bucket, AnyBucket
<1>2. CASE claim.kind = "planner"
  <2>1. BucketsOf(claim) = <<Bucket(claim, "device", claim.device), Bucket(claim, "address", claim.address)>>
    BY <1>2 DEF BucketsOf
  <2> QED
    BY <1>1, <2>1 DEF BucketSet
<1>3. CASE claim.kind # "planner"
  <2>1. BucketsOf(claim) = <<Bucket(claim, "device", claim.device), Bucket(claim, "address", claim.address),
                             Bucket(claim, "all", "all")>>
    BY <1>3 DEF BucketsOf
  <2> QED
    BY <1>1, <2>1 DEF BucketSet
<1> QED
  BY <1>2, <1>3

LEMMA UnitsAreNat ==
  ASSUME QuotaAssumption, NEW bucket \in AnyBucket
  PROVE  UnitsOf(bucket) \in Nat
BY DEF QuotaAssumption, AnyBucket, UnitsOf

LEMMA LocksOfLocking ==
  ASSUME QuotaTypeOK, NEW c \in Call
  PROVE  /\ call[c] = NoCall => LocksHeld(c) = {}
         /\ call[c] \in Locking =>
              /\ LocksHeld(c) = {BucketsOf(call[c].claim)[n] : n \in 1 .. call[c].locked}
              /\ LocksHeld(c) \subseteq BucketSet(call[c].claim)
              /\ LocksHeld(c) \subseteq AnyBucket
              /\ ~RowsLeft(c) => LocksHeld(c) = BucketSet(call[c].claim)
<1>1. call[c] = NoCall => LocksHeld(c) = {}
  BY IdleOrLocking DEF LocksHeld
<1>2. ASSUME call[c] \in Locking
      PROVE  /\ LocksHeld(c) = {BucketsOf(call[c].claim)[n] : n \in 1 .. call[c].locked}
             /\ LocksHeld(c) \subseteq BucketSet(call[c].claim)
             /\ LocksHeld(c) \subseteq AnyBucket
             /\ ~RowsLeft(c) => LocksHeld(c) = BucketSet(call[c].claim)
  <2>1. LocksHeld(c) = {BucketsOf(call[c].claim)[n] : n \in 1 .. call[c].locked}
    BY <1>2, IdleOrLocking DEF LocksHeld
  <2>2. /\ call[c].claim \in Claim /\ call[c].locked \in Nat
        /\ call[c].locked <= Len(BucketsOf(call[c].claim))
    BY <1>2 DEF QuotaTypeOK, Locking
  <2>3. /\ Len(BucketsOf(call[c].claim)) \in Nat
        /\ DOMAIN BucketsOf(call[c].claim) = 1 .. Len(BucketsOf(call[c].claim))
        /\ BucketSet(call[c].claim) \subseteq AnyBucket
    BY <2>2, BucketsAreBuckets
  <2>4. 1 .. call[c].locked \subseteq DOMAIN BucketsOf(call[c].claim)
    BY <2>2, <2>3
  <2>5. ~RowsLeft(c) => 1 .. call[c].locked = DOMAIN BucketsOf(call[c].claim)
    BY <2>2, <2>3 DEF RowsLeft
  <2> QED
    BY <2>1, <2>3, <2>4, <2>5 DEF BucketSet
<1> QED
  BY <1>1, <1>2

(* A call that ends without committing only frees what it had locked. *)
LEMMA EndKeepsInv ==
  ASSUME QuotaInv, NEW c \in Call, call' = [call EXCEPT ![c] = NoCall],
         UNCHANGED <<hour, used, reserved>>
  PROVE  QuotaInv'
<1>1. QuotaTypeOK' /\ CountsMatch'
  BY IdleOrLocking DEF QuotaInv, QuotaTypeOK, CountsMatch, Used, Claimants, Receipted
<1>2. /\ call'[c] = NoCall /\ \A d \in Call \ {c} : call'[d] = call[d]
      /\ LocksHeld(c)' = {} /\ \A d \in Call \ {c} : LocksHeld(d)' = LocksHeld(d)
  BY IdleOrLocking DEF QuotaInv, QuotaTypeOK, LocksHeld
<1>3. RowsAreExclusive'
  BY <1>2 DEF QuotaInv, RowsAreExclusive, Used
<1>4. ReservationsAreExclusive'
  BY <1>2, IdleOrLocking DEF QuotaInv, ReservationsAreExclusive
<1> QED
  BY <1>1, <1>3, <1>4 DEF QuotaInv

LEMMA PeriodsAreNat ==
  ASSUME QuotaAssumption, hour \in Nat, NEW kind \in Kind
  PROVE  PeriodOf(kind) \in Nat
<1>1. hour \div HoursPerDay \in Nat
  BY DEF QuotaAssumption
<1> QED
  BY <1>1 DEF PeriodOf

LEMMA BeginKeepsInv ==
  ASSUME QuotaInv, QuotaAssumption, NEW c \in Call, NEW id \in Reservation, NEW kind \in Kind,
         NEW address \in Address, NEW device \in Device,
         BeginReservation(c, id, kind, address, device)
  PROVE  QuotaInv'
<1> DEFINE claim == [kind |-> kind, address |-> address, device |-> device,
                     period |-> PeriodOf(kind)]
           begun == [phase |-> "locking", id |-> id, locked |-> 0, claim |-> claim]
<1>1. claim \in Claim
  BY PeriodsAreNat DEF QuotaInv, QuotaTypeOK, Claim
<1>2. /\ begun \in Locking /\ begun.locked = 0 /\ begun.claim \in Claim /\ begun.id = id
  BY <1>1 DEF Locking
<1>3. /\ call' = [call EXCEPT ![c] = begun] /\ UNCHANGED <<hour, used, reserved>>
      /\ reserved[id] = NoReceipt
      /\ \A d \in Call : call[d].phase = "locking" => call[d].id # id
  BY DEF BeginReservation
<1> HIDE DEF begun
<1>4. call'[c] = begun /\ \A d \in Call \ {c} : call'[d] = call[d]
  BY <1>3 DEF QuotaInv, QuotaTypeOK
<1>5. LocksHeld(c)' = {} /\ \A d \in Call \ {c} : LocksHeld(d)' = LocksHeld(d)
  BY <1>2, <1>4 DEF LocksHeld
<1>6. QuotaTypeOK'
  <2>1. 0 <= Len(BucketsOf(begun.claim))
    BY <1>2, BucketsAreBuckets
  <2> QED
    BY <2>1, <1>2, <1>3, <1>4, IdleOrLocking DEF QuotaInv, QuotaTypeOK, Receipted
<1>7. CountsMatch'
  BY <1>3 DEF QuotaInv, CountsMatch, Used, Claimants, Receipted
<1>8. RowsAreExclusive'
  BY <1>3, <1>5 DEF QuotaInv, RowsAreExclusive, Used
<1>9. ReservationsAreExclusive'
  BY <1>2, <1>3, <1>4, IdleOrLocking DEF QuotaInv, ReservationsAreExclusive
<1> QED
  BY <1>6, <1>7, <1>8, <1>9 DEF QuotaInv

LEMMA LockKeepsInv ==
  ASSUME QuotaInv, QuotaAssumption, NEW c \in Call, LockBucket(c)
  PROVE  QuotaInv'
<1>1. CASE Used(NextBucket(c)) >= UnitsOf(NextBucket(c))
  BY <1>1, EndKeepsInv DEF LockBucket
<1>2. CASE ~(Used(NextBucket(c)) >= UnitsOf(NextBucket(c)))
  <2>1. /\ call' = [call EXCEPT ![c].locked = @ + 1] /\ UNCHANGED <<hour, used, reserved>>
        /\ call[c] \in Locking /\ RowsLeft(c) /\ RowIsFree(c, NextBucket(c))
    BY <1>2, IdleOrLocking DEF LockBucket, QuotaInv, QuotaTypeOK
  <2>2. /\ call'[c] = [call[c] EXCEPT !.locked = @ + 1]
        /\ \A d \in Call \ {c} : call'[d] = call[d]
    BY <2>1 DEF QuotaInv, QuotaTypeOK
  <2>3. /\ call'[c] \in Locking /\ call'[c].claim = call[c].claim /\ call'[c].id = call[c].id
        /\ call[c].locked \in Nat /\ call'[c].locked = call[c].locked + 1
        /\ call[c].claim \in Claim
    BY <2>1, <2>2 DEF Locking
  <2>4. call'[c].locked <= Len(BucketsOf(call[c].claim))
    BY <2>1, <2>3, BucketsAreBuckets DEF RowsLeft
  <2>5. LocksHeld(c)' = LocksHeld(c) \cup {NextBucket(c)}
    <3>1. 1 .. call[c].locked + 1 = (1 .. call[c].locked) \cup {call[c].locked + 1}
      BY <2>3
    <3>2. LocksHeld(c) = {BucketsOf(call[c].claim)[n] : n \in 1 .. call[c].locked}
      BY <2>1, IdleOrLocking DEF LocksHeld
    <3>3. LocksHeld(c)' = {BucketsOf(call[c].claim)[n] : n \in 1 .. call[c].locked + 1}
      BY <2>3, IdleOrLocking DEF LocksHeld
    <3> QED
      BY <3>1, <3>2, <3>3 DEF NextBucket
  <2>6. \A d \in Call \ {c} : LocksHeld(d)' = LocksHeld(d)
    BY <2>2 DEF LocksHeld
  <2>7. NextBucket(c) \in AnyBucket
    <3>1. call[c].locked + 1 \in DOMAIN BucketsOf(call[c].claim)
      BY <2>1, <2>3, BucketsAreBuckets DEF RowsLeft
    <3> QED
      BY <3>1, <2>3, BucketsAreBuckets DEF NextBucket, BucketSet
  <2>8. Used(NextBucket(c)) < UnitsOf(NextBucket(c))
    <3>1. UnitsOf(NextBucket(c)) \in Nat
      BY <2>7, UnitsAreNat
    <3>2. Used(NextBucket(c)) \in Nat
      BY DEF QuotaInv, QuotaTypeOK, Used
    <3> QED
      BY <1>2, <3>1, <3>2
  <2>9. QuotaTypeOK'
    BY <2>1, <2>2, <2>3, <2>4 DEF QuotaInv, QuotaTypeOK, Receipted
  <2>10. CountsMatch'
    BY <2>1 DEF QuotaInv, CountsMatch, Used, Claimants, Receipted
  <2>11. \A bucket : Used(bucket)' = Used(bucket)
    BY <2>1 DEF Used
  <2>12. RowsAreExclusive'
    <3>1. \A d \in Call \ {c} : NextBucket(c) \notin LocksHeld(d)
      BY <2>1 DEF RowIsFree
    <3> QED
      BY <3>1, <2>5, <2>6, <2>8, <2>11 DEF QuotaInv, RowsAreExclusive
  <2>13. ReservationsAreExclusive'
    BY <2>1, <2>2, <2>3 DEF QuotaInv, ReservationsAreExclusive
  <2> QED
    BY <2>9, <2>10, <2>12, <2>13 DEF QuotaInv
<1> QED
  BY <1>1, <1>2

(* Committing counts the reservation once in each of its rows, which no    *)
(* other call has locked and which had a unit left.                        *)
LEMMA CommitKeepsInv ==
  ASSUME QuotaInv, QuotaAssumption, NEW c \in Call, CommitReservation(c)
  PROVE  QuotaInv'
<1> DEFINE claim == call[c].claim
           id == call[c].id
<1>1. /\ call[c] \in Locking /\ ~RowsLeft(c) /\ hour' = hour
      /\ used' = [bucket \in DOMAIN used \cup BucketSet(claim) |->
                    Used(bucket) + IF bucket \in BucketSet(claim) THEN 1 ELSE 0]
      /\ reserved' = [reserved EXCEPT ![id] = claim]
      /\ call' = [call EXCEPT ![c] = NoCall]
  BY IdleOrLocking DEF CommitReservation, QuotaInv, QuotaTypeOK
<1>2. claim \in Claim /\ id \in Reservation /\ claim # NoReceipt /\ reserved[id] = NoReceipt
  BY <1>1 DEF Locking, QuotaInv, ReservationsAreExclusive, QuotaAssumption
<1>3. BucketSet(claim) \subseteq AnyBucket /\ LocksHeld(c) = BucketSet(claim)
  BY <1>1, <1>2, BucketsAreBuckets, LocksOfLocking DEF QuotaInv
<1> HIDE DEF claim, id
<1>4. \A bucket : Used(bucket) \in Nat
  BY DEF QuotaInv, QuotaTypeOK, Used
<1>5. \A bucket : Used(bucket)' = IF bucket \in BucketSet(claim) THEN Used(bucket) + 1 ELSE Used(bucket)
  BY <1>1, <1>4 DEF Used
<1>6. /\ reserved'[id] = claim
      /\ \A other \in Reservation \ {id} : reserved'[other] = reserved[other]
      /\ reserved' \in [Reservation -> Claim \cup {NoReceipt}]
  BY <1>1, <1>2 DEF QuotaInv, QuotaTypeOK
<1>7. Receipted' = Receipted \cup {id} /\ id \notin Receipted
  BY <1>2, <1>6 DEF Receipted
<1>8. call'[c] = NoCall /\ \A d \in Call \ {c} : call'[d] = call[d]
  BY <1>1 DEF QuotaInv, QuotaTypeOK
<1>9. LocksHeld(c)' = {} /\ \A d \in Call \ {c} : LocksHeld(d)' = LocksHeld(d)
  BY <1>8, IdleOrLocking DEF LocksHeld
<1>10. QuotaTypeOK'
  <2>1. used' \in [DOMAIN used' -> Nat] /\ DOMAIN used' \subseteq AnyBucket
    BY <1>1, <1>3, <1>4 DEF QuotaInv, QuotaTypeOK
  <2>2. IsFiniteSet(Receipted')
    BY <1>7, FS_AddElement DEF QuotaInv, QuotaTypeOK
  <2> QED
    BY <2>1, <2>2, <1>1, <1>6, <1>8, IdleOrLocking DEF QuotaInv, QuotaTypeOK
<1>11. CountsMatch'
  <2> SUFFICES ASSUME NEW bucket \in AnyBucket
               PROVE  /\ Used(bucket)' = Cardinality(Claimants(bucket)')
                      /\ Used(bucket)' <= UnitsOf(bucket)
    BY DEF CountsMatch, UnitsOf
  <2>1. Used(bucket) = Cardinality(Claimants(bucket)) /\ Used(bucket) <= UnitsOf(bucket)
    BY DEF QuotaInv, CountsMatch
  <2>2. IsFiniteSet(Claimants(bucket)) /\ id \notin Claimants(bucket)
    <3>1. Claimants(bucket) \subseteq Receipted
      BY DEF Claimants
    <3> QED
      BY <3>1, <1>7, FS_Subset DEF QuotaInv, QuotaTypeOK
  <2>3. CASE bucket \in BucketSet(claim)
    <3>1. Claimants(bucket)' = Claimants(bucket) \cup {id}
      BY <2>3, <1>6, <1>7 DEF Claimants, Receipted
    <3>2. Cardinality(Claimants(bucket)') = Cardinality(Claimants(bucket)) + 1
      BY <3>1, <2>2, FS_AddElement
    <3>3. Used(bucket) < UnitsOf(bucket)
      BY <2>3, <1>3 DEF QuotaInv, RowsAreExclusive
    <3>4. UnitsOf(bucket) \in Nat
      BY UnitsAreNat
    <3> QED
      BY <3>2, <3>3, <3>4, <2>1, <2>3, <1>4, <1>5
  <2>4. CASE bucket \notin BucketSet(claim)
    <3>1. Claimants(bucket)' = Claimants(bucket)
      BY <2>4, <2>2, <1>6, <1>7 DEF Claimants, Receipted
    <3> QED
      BY <3>1, <2>1, <2>4, <1>5
  <2> QED BY <2>3, <2>4
<1>12. RowsAreExclusive'
  <2>1. \A d \in Call \ {c} : \A bucket \in LocksHeld(d) : Used(bucket)' = Used(bucket)
    BY <1>3, <1>5 DEF QuotaInv, RowsAreExclusive
  <2>2. \A d \in Call : \A bucket \in LocksHeld(d)' : Used(bucket)' < UnitsOf(bucket)
    BY <2>1, <1>9 DEF QuotaInv, RowsAreExclusive
  <2>3. \A d, e \in Call : d # e => LocksHeld(d)' \cap LocksHeld(e)' = {}
    BY <1>9 DEF QuotaInv, RowsAreExclusive
  <2> QED
    BY <2>2, <2>3 DEF RowsAreExclusive, UnitsOf
<1>13. ReservationsAreExclusive'
  <2>1. \A d \in Call \ {c} : call[d] \in Locking => call[d].id # id /\ call[d].id \in Reservation
    BY <1>1 DEF QuotaInv, ReservationsAreExclusive, Locking, id
  <2> QED
    BY <2>1, <1>6, <1>8, IdleOrLocking DEF QuotaInv, ReservationsAreExclusive
<1> QED
  BY <1>10, <1>11, <1>12, <1>13 DEF QuotaInv

-----------------------------------------------------------------------------
LEMMA InitQuotaInv ==
  ASSUME QuotaInit, QuotaAssumption
  PROVE  QuotaInv
<1>1. DOMAIN used = {} /\ Receipted = {} /\ \A c \in Call : call[c] = NoCall
  BY DEF QuotaInit, Receipted
<1>2. QuotaTypeOK
  BY <1>1, FS_EmptySet, IdleOrLocking DEF QuotaInit, QuotaTypeOK
<1>3. \A bucket : Used(bucket) = 0 /\ Claimants(bucket) = {}
  BY <1>1 DEF Used, Claimants
<1>4. CountsMatch
  BY <1>3, FS_EmptySet, UnitsAreNat DEF CountsMatch
<1>5. \A c \in Call : LocksHeld(c) = {}
  BY <1>1, IdleOrLocking DEF LocksHeld
<1>6. RowsAreExclusive /\ ReservationsAreExclusive
  BY <1>1, <1>5, IdleOrLocking DEF RowsAreExclusive, ReservationsAreExclusive
<1> QED
  BY <1>2, <1>4, <1>6 DEF QuotaInv

LEMMA NextQuotaInv ==
  ASSUME QuotaInv, QuotaAssumption, [QuotaNext]_quotaVars
  PROVE  QuotaInv'
<1>1. ASSUME hour' \in Nat, UNCHANGED <<used, reserved, call>>
      PROVE  QuotaInv'
  <2>1. \A c \in Call : LocksHeld(c)' = LocksHeld(c)
    BY <1>1 DEF LocksHeld
  <2>2. \A bucket : Used(bucket)' = Used(bucket) /\ Claimants(bucket)' = Claimants(bucket)
    BY <1>1 DEF Used, Claimants, Receipted
  <2>3. QuotaTypeOK'
    BY <1>1 DEF QuotaInv, QuotaTypeOK, Receipted
  <2>4. CountsMatch' /\ RowsAreExclusive' /\ ReservationsAreExclusive'
    BY <1>1, <2>1, <2>2 DEF QuotaInv, CountsMatch, RowsAreExclusive, ReservationsAreExclusive, UnitsOf
  <2> QED
    BY <2>3, <2>4 DEF QuotaInv
<1>2. CASE UNCHANGED quotaVars
  BY <1>1, <1>2 DEF quotaVars, QuotaInv, QuotaTypeOK
<1>3. CASE HourPasses
  BY <1>1, <1>3 DEF HourPasses, QuotaInv, QuotaTypeOK
<1>4. ASSUME NEW c \in Call, AbortReservation(c)
      PROVE  QuotaInv'
  BY <1>4, EndKeepsInv DEF AbortReservation
<1> QED
  BY <1>2, <1>3, <1>4, BeginKeepsInv, LockKeepsInv, CommitKeepsInv DEF QuotaNext

(* Every count of the quota is the number of receipts that claim it and    *)
(* keeps to its limit, whatever calls race for it: reserve_quota reads and *)
(* writes only rows that it has locked, and one reservation once.          *)
THEOREM QuotaIsExact == QuotaSpec => []QuotaMatchesReceipts
<1> USE QuotaAssumption
<1>1. QuotaInit => QuotaInv
  BY InitQuotaInv
<1>2. QuotaInv /\ [QuotaNext]_quotaVars => QuotaInv'
  BY NextQuotaInv
<1>3. QuotaInv => QuotaMatchesReceipts
  <2> SUFFICES ASSUME QuotaInv, NEW bucket \in DOMAIN used \cup UNION {BucketSet(reserved[id]) : id \in
                        {r \in Reservation : reserved[r] # NoReceipt}}
               PROVE  /\ Used(bucket) = Cardinality({id \in Reservation :
                           reserved[id] # NoReceipt /\ bucket \in BucketSet(reserved[id])})
                      /\ Used(bucket) <= UnitsOf(bucket)
    BY DEF QuotaMatchesReceipts
  <2>1. bucket \in AnyBucket
    BY BucketsAreBuckets DEF QuotaInv, QuotaTypeOK
  <2>2. Claimants(bucket) = {id \in Reservation :
                               reserved[id] # NoReceipt /\ bucket \in BucketSet(reserved[id])}
    BY DEF Claimants, Receipted
  <2> QED
    BY <2>1, <2>2 DEF QuotaInv, CountsMatch
<1> QED
  BY <1>1, <1>2, <1>3, PTL DEF QuotaSpec
=============================================================================
