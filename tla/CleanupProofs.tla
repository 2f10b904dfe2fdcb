---------------------------- MODULE CleanupProofs ----------------------------
(***************************************************************************)
(* Theorems about the cleanup command beside forwards: it is one of the    *)
(* others StartForward reckons with, so that everything proved of forwards *)
(* holds beside it, and it removes all of its list and nothing else.       *)
(***************************************************************************)
EXTENDS Cleanup, ForwardSafety

(* The fields of a command have their types. *)
LEMMA CommandFields ==
  ASSUME CleanupTypeOK
  PROVE  /\ unchecked \subseteq Sessions /\ matched \subseteq Sessions
         /\ unremoved \subseteq Sessions /\ counted \subseteq Sessions
         /\ missed \subseteq Sessions /\ existed \subseteq Sessions
BY DEF CleanupTypeOK

(* Every step of a command keeps CleanupTypeOK. *)
LEMMA CommandType ==
  ASSUME CleanupTypeOK, CommandStep \/ UNCHANGED commandVars
  PROVE  CleanupTypeOK'
<1> USE CommandFields
<1>1. CASE BeginCommand
  BY <1>1 DEF BeginCommand, CleanupTypeOK
<1>2. CASE LookupHelper
  <2>1. NamedBy(opts.name) \subseteq Sessions
    BY DEF NamedBy, Known
  <2> QED
    BY <1>2, <2>1 DEF LookupHelper, Ends, CleanupTypeOK
<1>3. CASE ResolveFilter
  BY <1>3 DEF ResolveFilter, AnswersTo, Inspected, Ends, CleanupTypeOK
<1>4. CASE ListFound
  <2>1. InScope \subseteq Sessions
    BY DEF InScope, Known
  <2> QED
    BY <1>4, <2>1 DEF ListFound, ListHelpers, Ends, CleanupTypeOK
<1>5. CASE CheckFound
  <2>1. unchecked' \subseteq Sessions /\ matched' \subseteq Sessions
    BY <1>5 DEF CheckFound
  <2> QED
    BY <1>5, <2>1 DEF CheckFound, Ends, CleanupTypeOK
<1>6. CASE Report
  BY <1>6 DEF Report, Ends, CleanupTypeOK
<1>7. CASE RemoveMatched
  <2>1. unremoved' \subseteq Sessions /\ counted' \subseteq Sessions /\ missed' \subseteq Sessions
    BY <1>7 DEF RemoveMatched
  <2> QED
    BY <1>7, <2>1 DEF RemoveMatched, CleanupTypeOK
<1>8. CASE UNCHANGED commandVars
  BY <1>8 DEF commandVars, CleanupTypeOK
<1> QED
  BY <1>1, <1>2, <1>3, <1>4, <1>5, <1>6, <1>7, <1>8 DEF CommandStep

-----------------------------------------------------------------------------
(* A step of the command is a step of somebody else, or none, to forwards. *)

(* What a command does to containers others may do: it removes one, or nothing. *)
LEMMA CommandIsInterference ==
  ASSUME TypeInv, CleanupTypeOK, CommandStep
  PROVE  [Next]_vars
<1>1. CASE RemoveMatched
  <2>1. PICK h \in unremoved : ForceRemove(h) \/ UNCHANGED status
    BY <1>1 DEF RemoveMatched
  <2>2. h \in Sessions
    BY <2>1, CommandFields
  <2>3. UNCHANGED <<targets, cfg, holding, foreign, image>> /\ UNCHANGED sessionVars
    BY <1>1 DEF RemoveMatched
  <2>4. status \in [Sessions -> Status]
    BY DEF TypeInv, TypeOK, DaemonTypeOK
  <2>5. CASE UNCHANGED status
    BY <2>3, <2>5 DEF vars, daemonVars
  <2>6. CASE ForceRemove(h) /\ status[h] \notin Alive
    BY <2>3, <2>4, <2>5, <2>6 DEF ForceRemove, ContainerRemove
  <2>7. CASE ForceRemove(h) /\ status[h] \in Alive
    <3>1. status' = [status EXCEPT ![h] = "gone"]
      BY <2>7 DEF ForceRemove, ContainerRemove
    <3>2. ExternalRemove(h)
      BY <2>3, <2>7, <3>1 DEF ExternalRemove, SetStatus
    <3> QED
      BY <2>2, <2>3, <3>2, CommandsAssumption DEF Next, Quiet, Interference, HelperStep
  <2> QED
    BY <2>1, <2>5, <2>6, <2>7
<1>2. CASE ~RemoveMatched
  BY <1>2 DEF CommandStep, BeginCommand, LookupHelper, ResolveFilter, ListFound, CheckFound, Report
<1> QED
  BY <1>1, <1>2

(* Every step of a command beside forwards is a step of Spec, or a stutter. *)
LEMMA CleanupNextIsNext ==
  ASSUME TypeInv, CleanupTypeOK, [CleanupNext]_cleanupVars
  PROVE  [Next]_vars /\ TypeInv' /\ CleanupTypeOK'
<1>1. [Next]_vars
  BY CommandIsInterference DEF CleanupNext, cleanupVars
<1>2. CleanupTypeOK'
  BY CommandType DEF CleanupNext, cleanupVars
<1> QED
  BY <1>1, <1>2, NextType

(* The initial states of the commands are typed. *)
LEMMA CleanupInitType == CleanupInit => CleanupTypeOK
BY CommandsAssumption DEF CleanupInit, CleanupTypeOK

(* Forwards beside the cleanup command behave as forwards beside others. *)
THEOREM CleanupImplementsSpec == CleanupSpec => ImplementsSpec
<1>1. CleanupInit => Init /\ TypeInv /\ CleanupTypeOK
  BY InitType, CleanupInitType DEF CleanupInit
<1> QED
  BY <1>1, CleanupNextIsNext, PTL DEF CleanupSpec, ImplementsSpec, Spec

-----------------------------------------------------------------------------
(* The invariant of the command. *)

(* A container that is there stays known, and a removed one stays removed, *)
(* whoever acts.                                                           *)
LEMMA KnownPersists ==
  ASSUME SafetyInv, [Next]_vars, NEW h \in Sessions, status[h] # "none"
  PROVE  Persists(h)
<1> USE DEF SafetyInv
<1>1. CASE \E s \in Sessions : Acts(s)
  BY <1>1, KnownStays
<1>2. CASE HelperStep \/ \E g \in Sessions : DaemonStep(g)
  BY <1>2, HelperStepPersists DEF HelperStep
<1>3. CASE TargetStep \/ HostStep \/ UNCHANGED vars
  <2>1. UNCHANGED <<status, cfg>>
    BY <1>3 DEF TargetStep, CreateTarget, StopTarget, StartTarget, RemoveTarget, RenameTarget,
      ChangeNetworks, SetTarget, HostStep, ForeignBind, ForeignClose, ImageRemoved, ImagePulled, vars, daemonVars
  <2> QED
    BY <2>1 DEF Persists, Removed
<1> QED
  BY <1>1, <1>2, <1>3 DEF Next, Acts, Interference

(* Containers change as they may, and the command does not move. *)
LEMMA ForwardsKeepCleanupInv ==
  ASSUME SafetyInv, CleanupInv, [Next]_vars, UNCHANGED commandVars
  PROVE  CleanupInv'
<1> USE DEF CleanupInv, commandVars
<1>1. CleanupTypeOK'
  BY CommandType
<1>2. \A h \in existed : h \in Sessions /\ status[h] # "none" /\ Persists(h)
  BY KnownPersists, CommandFields DEF FromTheList
<1>3. FromTheList'
  BY <1>2 DEF FromTheList, Persists
<1>4. CountedAreGone'
  <2>1. \A h \in counted : h \in existed /\ Removed(h)
    BY DEF FromTheList, CountedAreGone
  <2> QED
    BY <1>2, <2>1 DEF CountedAreGone, Persists, Removed
<1>5. NoneForgotten' /\ Stages'
  BY DEF NoneForgotten, Stages
<1> QED
  BY <1>1, <1>3, <1>4, <1>5

(* Every step of a command keeps CleanupInv, one conjunct after the other. *)
LEMMA CommandKeepsCleanupInv ==
  ASSUME SafetyInv, CleanupInv, CommandStep
  PROVE  CleanupInv'
<1> USE DEF CleanupInv
<1>1. CleanupTypeOK'
  BY CommandType
<1>2. CASE BeginCommand
  BY <1>1, <1>2 DEF BeginCommand, FromTheList, NoneForgotten, Stages, CountedAreGone
<1>3. CASE LookupHelper \/ ListFound
  <2>1. \/ /\ unchecked' = existed' /\ at' = "check"
           /\ \A h \in existed' : status[h] # "none"
        \/ at' = "failed" /\ UNCHANGED <<unchecked, existed>>
    BY <1>3 DEF LookupHelper, ListFound, ListHelpers, NamedBy, InScope, Known, Ends
  <2>2. /\ UNCHANGED <<status, opts, matched, unremoved, counted, missed>>
        /\ matched = {} /\ unremoved = {} /\ counted = {}
    BY <1>3 DEF LookupHelper, ListFound, vars, daemonVars, Stages
  <2> QED
    BY <1>1, <2>1, <2>2 DEF FromTheList, NoneForgotten, Stages, CountedAreGone
<1>9. UNCHANGED vars => (CountedAreGone' <=> \A h \in counted' : Removed(h))
  BY DEF CountedAreGone, Removed, vars, daemonVars
<1>4. CASE ResolveFilter
  BY <1>1, <1>4, <1>9
  DEF ResolveFilter, Ends, FromTheList, NoneForgotten, Stages, CountedAreGone, vars, daemonVars
<1>6. CASE CheckFound
  <2>1. PICK h \in unchecked :
          \/ /\ unchecked' = unchecked \ {h} /\ UNCHANGED at
             /\ \/ matched' = matched /\ opts.stale
                \/ matched' = matched \cup {h}
          \/ at' = "failed" /\ UNCHANGED <<unchecked, matched>>
    BY <1>6 DEF CheckFound, Ends
  <2>2. at = "check" /\ UNCHANGED <<vars, opts, unremoved, counted, missed, existed>>
    BY <1>6 DEF CheckFound
  <2>3. FromTheList'
    BY <2>1, <2>2 DEF FromTheList, vars, daemonVars
  <2>4. NoneForgotten' /\ Stages'
    BY <2>1, <2>2 DEF NoneForgotten, Stages
  <2> QED
    BY <1>1, <1>9, <2>2, <2>3, <2>4 DEF CountedAreGone
<1>7. CASE Report
  <2>1. /\ at = "check" /\ unchecked = {}
        /\ UNCHANGED <<vars, opts, unchecked, matched, counted, missed, existed>>
        /\ \/ at' = "done" /\ unremoved' = unremoved /\ (matched = {} \/ opts.dryRun)
           \/ at' = "remove" /\ unremoved' = matched /\ ~opts.dryRun
    BY <1>7 DEF Report, Ends
  <2>2. FromTheList'
    BY <2>1 DEF FromTheList, vars, daemonVars
  <2>3. NoneForgotten' /\ Stages'
    BY <2>1 DEF NoneForgotten, Stages
  <2> QED
    BY <1>1, <1>9, <2>1, <2>2, <2>3 DEF CountedAreGone
<1>8. CASE RemoveMatched
  <2>1. PICK h \in unremoved :
          /\ unremoved' = unremoved \ {h}
          /\ \/ ContainerRemove(h) /\ counted' = counted \cup {h} /\ UNCHANGED missed
             \/ missed' = missed \cup {h} /\ UNCHANGED <<status, counted>>
    BY <1>8 DEF RemoveMatched, ForceRemove
  <2>2. h \in Sessions /\ h \in existed /\ status[h] # "none"
    BY <2>1, CommandFields DEF FromTheList
  <2>3. [Next]_vars
    BY CommandIsInterference DEF SafetyInv
  <2>4. \A g \in existed : Persists(g)
    BY <2>3, KnownPersists, CommandFields DEF FromTheList
  <2>5. ContainerRemove(h) => Removed(h)'
    <3>1. ContainerRemove(h) => status'[h] \in Status \ Alive
      BY <2>2, ContainerRemoveType, StatusIsStatus DEF SafetyInv, TypeInv, Alive, Status
    <3> QED
      BY <3>1 DEF Removed, Status, Alive
  <2>6. /\ UNCHANGED <<opts, unchecked, matched, existed>>
        /\ at = "remove" /\ at' = IF unremoved' = {} THEN "done" ELSE "remove"
    BY <1>8 DEF RemoveMatched
  <2>7. FromTheList'
    BY <2>1, <2>2, <2>4, <2>6 DEF FromTheList, Persists
  <2>8. CountedAreGone'
    BY <2>1, <2>4, <2>5 DEF FromTheList, CountedAreGone, Persists, Removed
  <2>9. NoneForgotten' /\ Stages'
    BY <2>1, <2>6 DEF NoneForgotten, Stages
  <2> QED
    BY <1>1, <2>7, <2>8, <2>9
<1> QED
  BY <1>2, <1>3, <1>4, <1>6, <1>7, <1>8 DEF CommandStep

Both == SafetyInv /\ CleanupInv

(* The invariants of forwards and of commands hold together. *)
LEMMA BothHold == CleanupSpec => []Both
<1>1. CleanupInit => Both
  BY InitInv, CleanupInitType
  DEF CleanupInit, Both, CleanupInv, FromTheList, NoneForgotten, Stages, CountedAreGone
<1>2. ASSUME Both, [CleanupNext]_cleanupVars PROVE Both'
  <2>1. [Next]_vars
    BY <1>2, CleanupNextIsNext DEF Both, SafetyInv, CleanupInv
  <2>2. SafetyInv'
    BY <1>2, <2>1, NextInv DEF Both
  <2>3. CASE CommandStep
    BY <1>2, <2>2, <2>3, CommandKeepsCleanupInv DEF Both
  <2>4. CASE UNCHANGED commandVars
    BY <1>2, <2>1, <2>2, <2>4, ForwardsKeepCleanupInv DEF Both
  <2> QED
    BY <1>2, <2>3, <2>4 DEF CleanupNext, cleanupVars
<1> QED
  BY <1>1, <1>2, PTL DEF CleanupSpec

(* The inductive invariant of the commands, their types with it. *)
THEOREM CleanupInvariant == CleanupSpec => []CleanupInv
<1>1. Both => CleanupInv
  BY DEF Both
<1> QED
  BY <1>1, BothHold, PTL

(* What a cleanup counts as removed is gone for good. *)
THEOREM CountedStayGone == CleanupSpec => []CountedAreGone
<1>1. Both => CountedAreGone
  BY DEF Both, CleanupInv
<1> QED
  BY <1>1, BothHold, PTL

(* When a cleanup ends, every helper of its list is gone, or its removal *)
(* reported an error.                                                    *)
THEOREM CleanupLeavesNone == CleanupSpec => []CleanupIsComplete
<1>1. Both => CleanupIsComplete
  BY DEF Both, CleanupInv, CleanupIsComplete, NoneForgotten, Stages, CountedAreGone
<1> QED
  BY <1>1, BothHold, PTL

(* An exit code of 0 means that nothing of what was asked for is left. *)
THEOREM ExitCodeIsTrue == CleanupSpec => []ExitZeroMeansGone
<1>1. Both => ExitZeroMeansGone
  <2> SUFFICES ASSUME Both, at = "done", ~opts.dryRun, ExitCode = 0
               PROVE  \A h \in matched \cup (IF opts.stale THEN {} ELSE existed) : Removed(h)
    BY DEF ExitZeroMeansGone
  <2>1. counted = matched
    BY DEF ExitCode
  <2>2. ~opts.stale => existed \subseteq counted
    BY <2>1 DEF Both, CleanupInv, NoneForgotten, Stages
  <2> QED
    BY <2>1, <2>2 DEF Both, CleanupInv, CountedAreGone
<1> QED
  BY <1>1, BothHold, PTL

(* A cleanup removes nothing that was not there when it listed helpers. *)
THEOREM CleanupRemovesOnlyListed == CleanupSpec => CleanupRemovesListed
<1> DEFINE Removes == \A h \in Sessions :
             CommandStep /\ status[h] \in Alive /\ status'[h] \notin Alive
               => h \in existed /\ ~opts.dryRun
<1>1. Both => Removes
  <2> SUFFICES ASSUME Both, NEW h \in Sessions, CommandStep,
                      status[h] \in Alive, status'[h] \notin Alive
               PROVE  h \in existed /\ ~opts.dryRun
    OBVIOUS
  <2>1. CASE RemoveMatched
    <3>1. PICK g \in unremoved : ContainerRemove(g) \/ UNCHANGED status
      BY <2>1 DEF RemoveMatched, ForceRemove
    <3>2. h = g
      BY <3>1, ContainerRemoveType DEF Both, SafetyInv, TypeInv
    <3> QED
      BY <2>1, <3>1, <3>2 DEF Both, CleanupInv, FromTheList, Stages, RemoveMatched
  <2>2. CASE ~RemoveMatched
    BY <2>2 DEF CommandStep, BeginCommand, LookupHelper, ResolveFilter, ListFound, CheckFound,
       Report, vars, daemonVars
  <2> QED
    BY <2>1, <2>2
<1>2. CleanupRemovesListed <=> [][Removes]_cleanupVars
  BY DEF CleanupRemovesListed
<1> HIDE DEF Removes
<1> QED
  BY <1>1, <1>2, BothHold, PTL

(* What cleanup --stale and list --stale report cannot reach its target. *)
THEOREM ReportedAreStale == CleanupSpec => ReportedStaleIsSound
<1> DEFINE Sound == \A h \in matched' \ matched :
             opts.stale => cfg[h].target \notin Dials(Labels(h), targets)
<1>1. ASSUME Both, [CleanupNext]_cleanupVars PROVE Sound
  <2> SUFFICES ASSUME NEW h \in matched' \ matched, opts.stale
               PROVE  cfg[h].target \notin Dials(Labels(h), targets)
    OBVIOUS
  <2>1. CheckFound
    BY <1>1 DEF CleanupNext, CommandStep, BeginCommand, LookupHelper, ResolveFilter, ListFound,
       Report, RemoveMatched, commandVars, cleanupVars
  <2>2. h \in unchecked /\ CheckHelper(Labels(h), targets)
    BY <2>1 DEF CheckFound
  <2>3. h \in Sessions
    BY <1>1, <2>2, CommandFields DEF Both, CleanupInv
  <2> QED
    BY <1>1, <2>2, <2>3, StaleHelperCannotReach DEF Both
<1>2. ReportedStaleIsSound <=> [][Sound]_cleanupVars
  BY DEF ReportedStaleIsSound
<1> HIDE DEF Sound
<1> QED
  BY <1>1, <1>2, BothHold, PTL DEF CleanupSpec
=============================================================================
