------------------------------- MODULE SeoProofs -------------------------------
(***************************************************************************)
(* The release that the pages are served from is whole and the newest, for *)
(* any number of administrators, releases and slugs.  The argument: there  *)
(* is one release at a time that can still be published, it is newer than  *)
(* the live one, and whoever is about to fail it holds its row alone, so   *)
(* that it cannot have been published meanwhile.                           *)
(***************************************************************************)
EXTENDS SeoRelease, SequenceTheorems, TLAPS

Release == [status : {"publishing", "published", "failed"}, copies : SUBSET Draft,
            expires : Nat, consumed : BOOLEAN]

SeoTypeOK ==
  /\ time \in Nat
  /\ drafts \subseteq Draft
  /\ release \in Seq(Release)
  /\ live \in Nat
  /\ start \in [Administrator -> {NoStart} \cup [phase : {"checked"}, failing : Nat]]

OnePublishing ==
  /\ \A r, q \in DOMAIN release : Publishing(r) /\ Publishing(q) => r = q
  /\ \A r \in DOMAIN release : Publishing(r) => live < r

Failing(a, r) == start[a].phase = "checked" /\ start[a].failing = r

FailingIsLocked ==
  \A a \in Administrator : \A r \in Nat \ {0} : Failing(a, r) =>
    /\ r \in DOMAIN release /\ Publishing(r)
    /\ \A b \in Administrator : Failing(b, r) => b = a

LiveIsNewestWhole ==
  /\ \A r \in DOMAIN release : release[r].status = "published" => r <= live
  /\ live # 0 => /\ live \in DOMAIN release /\ release[live].status = "published"
                 /\ Complete(release[live].copies)

SeoInv == SeoTypeOK /\ OnePublishing /\ FailingIsLocked /\ LiveIsNewestWhole

-----------------------------------------------------------------------------
LEMMA InitSeoInv ==
  ASSUME SeoInit
  PROVE  SeoInv
<1>1. SeoTypeOK
  BY DEF SeoInit, SeoTypeOK
<1>2. \A a \in Administrator, r \in Nat : ~Failing(a, r)
  BY DEF SeoInit, Failing, NoStart
<1> QED
  BY <1>1, <1>2 DEF SeoInit, SeoInv, OnePublishing, FailingIsLocked, LiveIsNewestWhole

Settled(r, status) == [release EXCEPT ![r].status = status, ![r].consumed = TRUE]

(* What settling one release does: it changes no other and no copies. *)
LEMMA OneReleaseChanges ==
  ASSUME SeoTypeOK, NEW r \in DOMAIN release, NEW status \in {"published", "failed"}
  PROVE  /\ Settled(r, status) \in Seq(Release) /\ Len(Settled(r, status)) = Len(release)
         /\ DOMAIN Settled(r, status) = DOMAIN release
         /\ Settled(r, status)[r].status = status
         /\ Settled(r, status)[r].copies = release[r].copies
         /\ \A q \in DOMAIN release \ {r} : Settled(r, status)[q] = release[q]
<1> DEFINE settled == [release[r] EXCEPT !.status = status, !.consumed = TRUE]
<1>1. release \in Seq(Release) /\ r \in 1 .. Len(release) /\ release[r] \in Release
  BY DEF SeoTypeOK
<1>2. settled \in Release /\ settled.status = status /\ settled.copies = release[r].copies
  BY <1>1 DEF Release
<1>3. Settled(r, status) = [release EXCEPT ![r] = settled]
  BY DEF Settled
<1> HIDE DEF settled
<1>4. /\ Settled(r, status) \in Seq(Release) /\ Len(Settled(r, status)) = Len(release)
      /\ Settled(r, status)[r] = settled
      /\ \A q \in DOMAIN release \ {r} : Settled(r, status)[q] = release[q]
  BY <1>1, <1>2, <1>3, ExceptSeq
<1> QED
  BY <1>1, <1>2, <1>3, <1>4

(* Steps that leave the releases and the starts as they are. *)
LEMMA OthersKeepInv ==
  ASSUME SeoInv, time' \in Nat, drafts' \subseteq Draft, UNCHANGED <<release, live, start>>
  PROVE  SeoInv'
<1>1. SeoTypeOK' /\ LiveIsNewestWhole'
  BY DEF SeoInv, SeoTypeOK, LiveIsNewestWhole
<1>2. OnePublishing'
  BY DEF SeoInv, OnePublishing, Publishing
<1>3. FailingIsLocked'
  BY DEF SeoInv, FailingIsLocked, Failing, Publishing
<1> QED
  BY <1>1, <1>2, <1>3 DEF SeoInv

(* A start that ends without effect frees the row it had locked. *)
LEMMA StartEndKeepsInv ==
  ASSUME SeoInv, NEW a \in Administrator, start' = [start EXCEPT ![a] = NoStart],
         UNCHANGED <<time, drafts, release, live>>
  PROVE  SeoInv'
<1>1. SeoTypeOK' /\ LiveIsNewestWhole'
  BY DEF SeoInv, SeoTypeOK, LiveIsNewestWhole
<1>2. OnePublishing'
  BY DEF SeoInv, OnePublishing, Publishing
<1>3. \A b \in Administrator, r \in Nat : Failing(b, r)' => Failing(b, r)
  BY DEF SeoInv, SeoTypeOK, Failing, NoStart
<1>4. FailingIsLocked'
  BY <1>3 DEF SeoInv, FailingIsLocked, Publishing
<1> QED
  BY <1>1, <1>2, <1>4 DEF SeoInv

LEMMA BeginKeepsInv ==
  ASSUME SeoInv, NEW a \in Administrator, BeginPublish(a)
  PROVE  SeoInv'
<1>1. PICK f \in Nat :
        /\ start' = [start EXCEPT ![a] = [phase |-> "checked", failing |-> f]]
        /\ f # 0 => f \in DOMAIN release /\ Publishing(f) /\ ~Locked(f)
  <2>1. CASE \E r \in DOMAIN release : Publishing(r)
    <3>1. PICK f : f \in DOMAIN release /\ Publishing(f) /\
                   f = CHOOSE r \in DOMAIN release : Publishing(r)
      BY <2>1
    <3>2. f \in Nat
      BY <3>1 DEF SeoInv, SeoTypeOK
    <3>3. start' = [start EXCEPT ![a] = [phase |-> "checked", failing |-> f]] /\ ~Locked(f)
      BY <2>1, <3>1 DEF BeginPublish
    <3> QED
      BY <3>1, <3>2, <3>3
  <2>2. CASE ~\E r \in DOMAIN release : Publishing(r)
    BY <2>2 DEF BeginPublish
  <2> QED BY <2>1, <2>2
<1>2. UNCHANGED <<time, drafts, release, live>>
  BY DEF BeginPublish
<1>3. SeoTypeOK' /\ LiveIsNewestWhole'
  BY <1>1, <1>2 DEF SeoInv, SeoTypeOK, LiveIsNewestWhole
<1>4. OnePublishing'
  BY <1>2 DEF SeoInv, OnePublishing, Publishing
<1>5. /\ \A b \in Administrator \ {a}, r \in Nat : Failing(b, r)' = Failing(b, r)
      /\ \A r \in Nat : Failing(a, r)' => r = f
  BY <1>1 DEF SeoInv, SeoTypeOK, Failing
<1>6. f # 0 => \A b \in Administrator : ~Failing(b, f)
  BY <1>1 DEF Locked, Failing
<1>7. FailingIsLocked'
  <2> SUFFICES ASSUME NEW b \in Administrator, NEW r \in Nat \ {0}, Failing(b, r)'
               PROVE  /\ r \in DOMAIN release /\ Publishing(r)
                      /\ \A c \in Administrator : Failing(c, r)' => c = b
    BY <1>2 DEF FailingIsLocked, Publishing
  <2>1. CASE b = a
    BY <2>1, <1>1, <1>5, <1>6
  <2>2. CASE b # a
    BY <2>2, <1>5, <1>6 DEF SeoInv, FailingIsLocked
  <2> QED BY <2>1, <2>2
<1> QED
  BY <1>3, <1>4, <1>7 DEF SeoInv

(* The releases as an administrator who is about to append one finds them. *)
LEMMA FailedBefore ==
  ASSUME SeoInv, NEW a \in Administrator, start[a].phase = "checked", NEW before,
         before = IF start[a].failing = 0 THEN release ELSE Fail(release, start[a].failing)
  PROVE  /\ before \in Seq(Release) /\ Len(before) = Len(release)
         /\ DOMAIN before = DOMAIN release
         /\ \A r \in DOMAIN release :
              \/ before[r] = release[r]
              \/ release[r].status = "publishing" /\ before[r].status = "failed"
<1>1. CASE start[a].failing = 0
  <2>1. before = release
    BY <1>1
  <2> QED
    BY <2>1 DEF SeoInv, SeoTypeOK
<1>2. CASE start[a].failing # 0
  <2> DEFINE f == start[a].failing
  <2>1. f \in Nat \ {0} /\ Failing(a, f)
    BY <1>2 DEF SeoInv, SeoTypeOK, Failing, NoStart
  <2>2. f \in DOMAIN release /\ Publishing(f)
    BY <2>1 DEF SeoInv, FailingIsLocked
  <2>3. before = Settled(f, "failed")
    BY <1>2 DEF Fail, Settled
  <2>4. /\ before \in Seq(Release) /\ Len(before) = Len(release)
        /\ DOMAIN before = DOMAIN release
        /\ before[f].status = "failed"
        /\ \A q \in DOMAIN release \ {f} : before[q] = release[q]
    BY <2>2, <2>3, OneReleaseChanges DEF SeoInv
  <2> HIDE DEF f
  <2>5. \A q \in DOMAIN release : 
          \/ before[q] = release[q]
          \/ release[q].status = "publishing" /\ before[q].status = "failed"
    BY <2>2, <2>4 DEF Publishing
  <2> QED
    BY <2>4, <2>5
<1> QED
  BY <1>1, <1>2

LEMMA CommitKeepsInv ==
  ASSUME SeoInv, SeoAssumption, NEW a \in Administrator, CommitPublish(a)
  PROVE  SeoInv'
<1> DEFINE before == IF start[a].failing = 0 THEN release ELSE Fail(release, start[a].failing)
           new == [status |-> "publishing", copies |-> drafts,
                   expires |-> time + CapabilityMinutes, consumed |-> FALSE]
<1>1. /\ start[a].phase = "checked"
      /\ start' = [start EXCEPT ![a] = NoStart]
      /\ UNCHANGED <<time, drafts, live>>
  BY DEF CommitPublish
<1>2. /\ before \in Seq(Release) /\ Len(before) = Len(release)
      /\ DOMAIN before = DOMAIN release
      /\ \A r \in DOMAIN release :
           \/ before[r] = release[r]
           \/ release[r].status = "publishing" /\ before[r].status = "failed"
  BY <1>1, FailedBefore
<1>3. CASE \E r \in DOMAIN before : before[r].status = "publishing"
  <2>1. release' = release
    BY <1>3 DEF CommitPublish
  <2> QED
    BY <2>1, <1>1, StartEndKeepsInv
<1>4. CASE ~\E r \in DOMAIN before : before[r].status = "publishing"
  <2>1. release' = Append(before, new)
    BY <1>4 DEF CommitPublish
  <2>2. new \in Release /\ new.status = "publishing"
    BY DEF SeoInv, SeoTypeOK, SeoAssumption, Release
  <2> HIDE DEF before, new
  <2>3. /\ DOMAIN release = 1 .. Len(release) /\ Len(release) \in Nat
        /\ release' \in Seq(Release) /\ DOMAIN release' = 1 .. Len(release) + 1
        /\ release'[Len(release) + 1] = new
        /\ \A r \in DOMAIN release : release'[r] = before[r]
    BY <2>1, <2>2, <1>2 DEF SeoInv, SeoTypeOK
  <2>4. SeoTypeOK'
    BY <2>3, <1>1 DEF SeoInv, SeoTypeOK
  <2>5. \A r \in DOMAIN release' : release'[r].status = "publishing" => r = Len(release) + 1
    BY <2>3, <1>2, <1>4
  <2>6. live \in Nat /\ live <= Len(release)
    BY <2>3 DEF SeoInv, SeoTypeOK, LiveIsNewestWhole
  <2>7. OnePublishing'
    BY <2>5, <2>6, <2>3, <1>1 DEF OnePublishing, Publishing
  <2>8. \A b \in Administrator, r \in Nat : Failing(b, r)' => b # a /\ Failing(b, r)
    BY <1>1 DEF SeoInv, SeoTypeOK, Failing, NoStart
  <2>9. \A b \in Administrator, r \in Nat \ {0} : ~Failing(b, r)'
    <3> SUFFICES ASSUME NEW b \in Administrator, NEW r \in Nat \ {0}, Failing(b, r), b # a
                 PROVE  FALSE
      BY <2>8
    <3>1. r \in DOMAIN release /\ release[r].status = "publishing"
      BY DEF SeoInv, FailingIsLocked, Publishing
    <3>2. before[r] # release[r]
      BY <3>1, <1>4, <1>2
    <3>3. before # release
      BY <3>2
    <3>4. start[a].failing # 0 /\ start[a].failing \in Nat
      BY <3>3, <1>1 DEF before, SeoInv, SeoTypeOK, NoStart
    <3>5. Failing(a, start[a].failing)
      BY <1>1 DEF Failing
    <3>6. start[a].failing \in DOMAIN release /\ Publishing(start[a].failing)
      BY <3>4, <3>5 DEF SeoInv, FailingIsLocked
    <3>7. start[a].failing = r
      BY <3>1, <3>6 DEF SeoInv, OnePublishing, Publishing
    <3> QED
      BY <3>4, <3>5, <3>7 DEF SeoInv, FailingIsLocked
  <2>10. FailingIsLocked'
    BY <2>9 DEF FailingIsLocked
  <2>11. LiveIsNewestWhole'
    BY <1>1, <1>2, <2>2, <2>3 DEF SeoInv, LiveIsNewestWhole
  <2> QED
    BY <2>4, <2>7, <2>10, <2>11 DEF SeoInv
<1> QED
  BY <1>3, <1>4

(* A report settles the one release that is being published. *)
LEMMA ReportKeepsInv ==
  ASSUME SeoInv, NEW r \in DOMAIN release, NEW status \in {"published", "failed"}, Reportable(r),
         release' = Settled(r, status),
         live' = IF status = "published" THEN r ELSE live,
         status = "published" => Complete(release[r].copies),
         UNCHANGED <<time, drafts, start>>
  PROVE  SeoInv'
<1>1. /\ release' \in Seq(Release) /\ DOMAIN release' = DOMAIN release
      /\ release'[r].status = status /\ release'[r].copies = release[r].copies
      /\ \A q \in DOMAIN release \ {r} : release'[q] = release[q]
  BY OneReleaseChanges DEF SeoInv
<1>2. r \in Nat \ {0} /\ live \in Nat /\ live < r
  BY DEF SeoInv, SeoTypeOK, OnePublishing, Reportable
<1>3. SeoTypeOK'
  BY <1>1, <1>2 DEF SeoInv, SeoTypeOK
<1>4. \A q \in DOMAIN release' : release'[q].status # "publishing"
  BY <1>1 DEF SeoInv, OnePublishing, Publishing, Reportable
<1>5. OnePublishing'
  BY <1>4 DEF OnePublishing, Publishing
<1>6. \A b \in Administrator, q \in Nat \ {0} : ~Failing(b, q)
  <2> SUFFICES ASSUME NEW b \in Administrator, NEW q \in Nat \ {0}, Failing(b, q)
               PROVE  FALSE
    OBVIOUS
  <2>1. q = r
    BY DEF SeoInv, FailingIsLocked, OnePublishing, Reportable
  <2> QED
    BY <2>1 DEF Reportable, Locked, Failing
<1>7. FailingIsLocked'
  BY <1>6 DEF FailingIsLocked, Failing
<1>8. LiveIsNewestWhole'
  <2>1. CASE status = "published"
    BY <2>1, <1>1, <1>2 DEF SeoInv, SeoTypeOK, LiveIsNewestWhole
  <2>2. CASE status = "failed"
    BY <2>2, <1>1, <1>2 DEF SeoInv, LiveIsNewestWhole
  <2> QED BY <2>1, <2>2
<1> QED
  BY <1>3, <1>5, <1>7, <1>8 DEF SeoInv

LEMMA NextSeoInv ==
  ASSUME SeoInv, SeoAssumption, [SeoNext]_releaseVars
  PROVE  SeoInv'
<1>1. CASE UNCHANGED releaseVars
  BY <1>1, OthersKeepInv DEF releaseVars, SeoInv, SeoTypeOK
<1>2. ASSUME NEW draft \in Draft, UpsertContentDraft(draft)
      PROVE  SeoInv'
  BY <1>2, OthersKeepInv DEF UpsertContentDraft, SeoInv, SeoTypeOK
<1>3. ASSUME NEW a \in Administrator, AbortPublish(a)
      PROVE  SeoInv'
  BY <1>3, StartEndKeepsInv DEF AbortPublish
<1>4. ASSUME NEW r \in DOMAIN release, FinalizeSeoPublish(r)
      PROVE  SeoInv'
  <2>1. CASE Complete(release[r].copies)
    BY <2>1, <1>4, ReportKeepsInv DEF FinalizeSeoPublish, Settled
  <2>2. CASE ~Complete(release[r].copies)
    BY <2>2, <1>4, ReportKeepsInv DEF FinalizeSeoPublish, Fail, Settled
  <2> QED BY <2>1, <2>2
<1>5. ASSUME NEW r \in DOMAIN release, FailSeoPublish(r)
      PROVE  SeoInv'
  BY <1>5, ReportKeepsInv DEF FailSeoPublish, Fail, Settled
<1>6. CASE TimePasses
  BY <1>6, OthersKeepInv DEF TimePasses, SeoInv, SeoTypeOK
<1> QED
  BY <1>1, <1>2, <1>3, <1>4, <1>5, <1>6, BeginKeepsInv, CommitKeepsInv DEF SeoNext

(* The pages are served from the newest published release, and that one is *)
(* complete, whatever administrators and build workers do beside each      *)
(* other: finalize_seo_publish checks the copies again that publish_seo    *)
(* took after its own check.                                               *)
THEOREM LiveReleaseIsWhole == SeoSpec => []LiveIsWhole
<1> USE SeoAssumption
<1>1. SeoInit => SeoInv
  BY InitSeoInv
<1>2. SeoInv /\ [SeoNext]_releaseVars => SeoInv'
  BY NextSeoInv
<1>3. SeoInv => LiveIsWhole
  BY DEF SeoInv, LiveIsNewestWhole, LiveIsWhole
<1> QED
  BY <1>1, <1>2, <1>3, PTL DEF SeoSpec
=============================================================================
