------------------------------ MODULE MCSatellites ------------------------------
(***************************************************************************)
(* Small instances of the components around checkout and planner: the two  *)
(* browser stores of the demonstration, guide assignment, the quota, the   *)
(* releases of the public pages and the planner's page.  They share no     *)
(* state (the local checkout sees the portal's copy of its booking through *)
(* CopyFollowsHandoff alone, the page the planner through PlanLedger), so  *)
(* that one of them runs, to be chosen at the start, and the others keep   *)
(* their initial states.                                                   *)
(***************************************************************************)
EXTENDS DemoProperties, GuideProperties, QuotaReservation, SeoRelease,
        PlannerTab, TLC

CONSTANTS t1, t2, b1, b2, d1, d2

VARIABLE subject

TwoDepartures == b1 :> d1 @@ b2 :> d2
Starts == d1 :> 1 @@ d2 :> 2
Ends == d1 :> 3 @@ d2 :> 4
Units == "planner" :> 2 @@ "gemini" :> 1

vars == <<subject, portalVars, localVars, guideVars, quotaVars, releaseVars, tabVars>>

Init ==
  /\ subject \in {"portal", "checkout", "guides", "quota", "releases", "page"}
  /\ PortalInit /\ LocalInit /\ GuideInit /\ QuotaInit /\ SeoInit /\ TabInit
  /\ subject # "guides" => confirmed = {}
  /\ subject # "page" => account = Nothing

Next ==
  \/ /\ subject = "portal" /\ PortalNext
     /\ UNCHANGED <<subject, localVars, guideVars, quotaVars, releaseVars, tabVars>>
  \/ /\ subject = "checkout" /\ LocalNext
     /\ UNCHANGED <<subject, portalVars, guideVars, quotaVars, releaseVars, tabVars>>
  \/ /\ subject = "guides" /\ GuideNext
     /\ UNCHANGED <<subject, portalVars, localVars, quotaVars, releaseVars, tabVars>>
  \/ /\ subject = "quota" /\ QuotaNext
     /\ UNCHANGED <<subject, portalVars, localVars, guideVars, releaseVars, tabVars>>
  \/ /\ subject = "releases" /\ SeoNext
     /\ UNCHANGED <<subject, portalVars, localVars, guideVars, quotaVars, tabVars>>
  \/ /\ subject = "page" /\ TabNext
     /\ UNCHANGED <<subject, portalVars, localVars, guideVars, quotaVars, releaseVars>>

Spec == Init /\ [][Next]_vars /\ \A t \in Tab : WF_vars(subject = "checkout" /\ PaymentTimer(t)
          /\ UNCHANGED <<subject, portalVars, guideVars, quotaVars, releaseVars, tabVars>>)
=============================================================================
