-------------------------------- MODULE Hdmi --------------------------------
(***************************************************************************)
(* The HDMI module of internal/modules/hdmi.go: its state is read off two  *)
(* files, one after the other, while the root helpers enable and start the *)
(* display manager, or disable and stop it, in two steps each.             *)
(***************************************************************************)
EXTENDS Naturals

CONSTANT OverlapSets   \* whether requests to the two helpers may overlap: TRUE in it

ASSUME OverlapAssumption == OverlapSets \subseteq BOOLEAN

VARIABLES
  overlap,   \* this behaviour's choice of OverlapSets
  link,      \* the display manager is enabled at boot
  live,      \* it has processes
  helper,    \* what each helper has done
  asked,     \* the helper a request waits for, or "none"
  probe,     \* computeState: what it has read
  shownHdmi, \* the state it replied
  truths     \* history: the true states since computeState began

hdmiVars == <<overlap, link, live, helper, asked, probe, shownHdmi, truths>>

Helpers == {"enable", "disable"}
States  == {"running", "stopped", "degraded"}

HdmiTypeOK ==
  /\ overlap \in BOOLEAN /\ link \in BOOLEAN /\ live \in BOOLEAN
  /\ helper \in [Helpers -> {"off", "link", "unit"}]
  /\ asked \subseteq Helpers
  /\ probe \in {"none", "begun", "yes", "no"}
  /\ shownHdmi \in States \cup {"unknown"}
  /\ truths \subseteq States

State(active, enabled) == IF active THEN "running" ELSE IF enabled THEN "degraded" ELSE "stopped"

HdmiInit == /\ overlap \in OverlapSets
            /\ link = FALSE /\ live = FALSE /\ asked = {}
            /\ helper = [h \in Helpers |-> "off"]
            /\ probe = "none" /\ shownHdmi = "unknown" /\ truths = {}

----------------------------------------------------------------------------

\* The true state is part of the history of a read that is under way.
Notes == truths' = IF probe' = "none" THEN {} ELSE
                 (IF probe = "none" THEN {} ELSE truths) \cup {State(live', link')}

Moves == UNCHANGED <<overlap, probe, shownHdmi>> /\ Notes

\* toggle: systemctl start of the helper; one that runs already is joined.
Toggle(h) == /\ h \notin asked /\ (overlap \/ asked = {})
             /\ asked' = asked \cup {h}
             /\ helper' = [helper EXCEPT ![h] = IF @ = "off" THEN "link" ELSE @]
             /\ UNCHANGED <<link, live>> /\ Moves

\* systemctl enable --now, disable --now: the link first, then the unit.
HelperLinks(h) == /\ helper[h] = "link" /\ helper' = [helper EXCEPT ![h] = "unit"]
                  /\ link' = (h = "enable")
                  /\ UNCHANGED <<live, asked>> /\ Moves

\* The job ends the oneshot, and with it the request's wait; a start may fail.
HelperActs(h) == /\ helper[h] = "unit" /\ helper' = [helper EXCEPT ![h] = "off"]
                 /\ live' \in (IF h = "enable" THEN {TRUE, live} ELSE {FALSE})
                 /\ asked' = asked \ {h}
                 /\ UNCHANGED link /\ Moves

\* The desktop dies, for want of memory say.
Dies == live /\ live' = FALSE /\ UNCHANGED <<link, helper, asked>> /\ Moves

Unmoved == UNCHANGED <<overlap, link, live, helper, asked>>

StatusBegins == /\ probe = "none" /\ probe' = "begun" /\ UNCHANGED shownHdmi
                /\ Unmoved /\ Notes

\* Mutant: the boot link is read before the cgroup.
OrderLink == <<"link", "live">>

\* What computeState reads first, what second: unitCgroupActive (a hierarchy
\* that is not mounted, known = FALSE, is not considered), then dmEnabled.
Order == <<"live", "link">>
Read(i) == IF Order[i] = "live" THEN live ELSE link

ReadFirst == /\ probe = "begun" /\ probe' = (IF Read(1) THEN "yes" ELSE "no")
             /\ UNCHANGED shownHdmi /\ Unmoved /\ Notes

ReadSecond == /\ probe \in {"yes", "no"} /\ probe' = "none"
              /\ shownHdmi' = LET first == probe = "yes" IN
                   IF Order[1] = "live" THEN State(first, Read(2)) ELSE State(Read(2), first)
              /\ Unmoved /\ UNCHANGED truths

HdmiNext == \/ \E h \in Helpers : Toggle(h) \/ HelperLinks(h) \/ HelperActs(h)
            \/ Dies \/ StatusBegins \/ ReadFirst \/ ReadSecond

HdmiSpec == HdmiInit /\ [][HdmiNext]_hdmiVars

----------------------------------------------------------------------------
(* Properties.                                                             *)

\* A red tile is no artefact of the two reads: "degraded" is replied only if
\* at some instant of the read the desktop was down and meant to be up; so
\* is "running".  Requests to the two helpers do not overlap.
NoFalseAlarm ==
  [][~overlap /\ shownHdmi' # shownHdmi /\ shownHdmi' # "stopped" => shownHdmi' \in truths]_hdmiVars
============================================================================
