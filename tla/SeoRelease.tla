------------------------------ MODULE SeoRelease ------------------------------
(***************************************************************************)
(* Releases of the public pages.  Administrators write drafts, each slug   *)
(* in two languages, and start a release, which copies all drafts and      *)
(* gives a build worker a capability for 15 minutes.  The worker publishes *)
(* the release or reports its failure; it may also die, or report twice.   *)
(* A late or repeated report is refused or replayed: neither changes       *)
(* anything.  The triggers that repeat these guards are left out.          *)
(***************************************************************************)
EXTENDS Naturals, Sequences

CONSTANTS
  Slug,
  Administrator,      \* the sessions in which releases are started
  CapabilityMinutes,
  LastTime,           \* bound on the clock
  MaxReleases         \* bound on the releases

VARIABLES
  time,
  drafts,             \* the drafts that exist
  release,            \* the releases in the order of their start
  live,               \* the release the pages are served from, or 0
  start               \* the transaction of each administrator's session

releaseVars == <<time, drafts, release, live, start>>

SeoAssumption == CapabilityMinutes \in Nat \ {0} /\ LastTime \in Nat /\ MaxReleases \in Nat
ASSUME SeoAssumption

Draft == Slug \X {"en", "vi"}
NoStart == [phase |-> "idle"]

\* Complete: at least one slug, and every slug in both languages.
Complete(texts) == texts # {} /\ \A text \in texts : {text[1]} \X {"en", "vi"} \subseteq texts

Publishing(r) == release[r].status = "publishing"

\* Whether its capability is neither consumed nor expired.
Usable(r) == ~release[r].consumed /\ time < release[r].expires

SeoInit ==
  /\ time = 0
  /\ drafts = {}
  /\ release = << >>
  /\ live = 0
  /\ start = [a \in Administrator |-> NoStart]

UpsertContentDraft(draft) ==
  /\ drafts' = drafts \cup {draft}
  /\ UNCHANGED <<time, release, live, start>>

\* A release whose row a starting administrator has locked.
Locked(r) == \E a \in Administrator : start[a].phase = "checked" /\ start[a].failing = r

\* publish_seo, up to its check of the drafts.  A release whose capability has
\* expired is failed, which is undone with everything else when the drafts are not complete.
BeginPublish(a) ==
  /\ start[a] = NoStart
  /\ \A r \in DOMAIN release : Publishing(r) => ~Usable(r) /\ ~Locked(r)
  /\ Complete(drafts)
  /\ start' = [start EXCEPT ![a] =
       [phase |-> "checked",
        failing |-> IF \E r \in DOMAIN release : Publishing(r)
                    THEN CHOOSE r \in DOMAIN release : Publishing(r) ELSE 0]]
  /\ UNCHANGED <<time, drafts, release, live>>

Fail(releases, r) == [releases EXCEPT ![r].status = "failed", ![r].consumed = TRUE]

\* Its rest, a later statement: it copies the drafts there are by then.  The
\* index on publishing releases refuses a second one.
CommitPublish(a) ==
  /\ start[a].phase = "checked" /\ Len(release) < MaxReleases
  /\ LET failing == start[a].failing
         before == IF failing = 0 THEN release ELSE Fail(release, failing)
     IN release' =
          IF \E r \in DOMAIN before : before[r].status = "publishing" THEN release
          ELSE Append(before, [status |-> "publishing", copies |-> drafts,
                               expires |-> time + CapabilityMinutes, consumed |-> FALSE])
  /\ start' = [start EXCEPT ![a] = NoStart]
  /\ UNCHANGED <<time, drafts, live>>

AbortPublish(a) ==
  /\ start[a] # NoStart
  /\ start' = [start EXCEPT ![a] = NoStart]
  /\ UNCHANGED <<time, drafts, release, live>>

\* The guards of both reports.
Reportable(r) == Publishing(r) /\ Usable(r) /\ ~Locked(r)

\* Mutant: the copies are trusted, since the drafts were checked at the start.
FinalizeUnchecked(r) ==
  /\ Reportable(r)
  /\ release' = [release EXCEPT ![r].status = "published", ![r].consumed = TRUE]
  /\ live' = r
  /\ UNCHANGED <<time, drafts, start>>

FinalizeSeoPublish(r) ==
  /\ Reportable(r)
  /\ IF Complete(release[r].copies)
       THEN /\ release' = [release EXCEPT ![r].status = "published", ![r].consumed = TRUE]
            /\ live' = r
       ELSE release' = Fail(release, r) /\ UNCHANGED live
  /\ UNCHANGED <<time, drafts, start>>

FailSeoPublish(r) ==
  /\ Reportable(r)
  /\ release' = Fail(release, r)
  /\ UNCHANGED <<time, drafts, live, start>>

TimePasses ==
  /\ time < LastTime
  /\ time' = time + 1
  /\ UNCHANGED <<drafts, release, live, start>>

SeoNext ==
  \/ \E draft \in Draft : UpsertContentDraft(draft)
  \/ \E a \in Administrator : BeginPublish(a) \/ CommitPublish(a) \/ AbortPublish(a)
  \/ \E r \in DOMAIN release : FinalizeSeoPublish(r) \/ FailSeoPublish(r)
  \/ TimePasses

SeoSpec == SeoInit /\ [][SeoNext]_releaseVars

-----------------------------------------------------------------------------
(* The pages are served from a release that was published, that is the     *)
(* newest of those, and that has every page in both languages, though      *)
(* drafts change and administrators start releases while others are built. *)
LiveIsWhole ==
  /\ \A r \in DOMAIN release : release[r].status = "published" => r <= live
  /\ live # 0 => release[live].status = "published" /\ Complete(release[live].copies)
=============================================================================
