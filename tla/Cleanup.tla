------------------------------- MODULE Cleanup -------------------------------
(***************************************************************************)
(* The list and cleanup commands (portforward/list.go and cleanup.go over  *)
(* ListHelpers, CheckHelper and RemoveHelpers), run beside forwards.       *)
(*                                                                         *)
(* One command runs at a time; `at` is the call it makes next.  What it    *)
(* does to containers is what StartForward expects of others (the          *)
(* "cleanup" of Allowed), so that this specification implements Spec.      *)
(***************************************************************************)
EXTENDS StartForward

CONSTANT Commands   \* the inputs commands may be given

VARIABLES
  at,
  opts,       \* the input of the command
  targetID,   \* the id --target was resolved to
  unchecked,  \* listed helpers CheckHelper has yet to see
  matched,    \* helpers the command reports, and a cleanup removes
  unremoved,  \* matched helpers RemoveHelpers has yet to try
  counted,    \* helpers counted as removed
  missed,     \* ghost: helpers whose removal reported an error
  existed     \* ghost: helpers there were when the command listed them

commandVars == <<at, opts, targetID, unchecked, matched, unremoved, counted, missed, existed>>
cleanupVars == <<vars, commandVars>>

(* --name and --target take a name or an id; None where they are not given. *)
(* A helper whose name was not asked for is named after its id.             *)
Command == [name : HelperNames \cup Sessions \cup {None},
            target : Targets \cup TargetNames \cup {None},
            stale : BOOLEAN, dryRun : BOOLEAN]

ASSUME CommandsAssumption ==
  /\ Commands \subseteq Command /\ Commands # {}
  /\ "cleanup" \in Allowed /\ "serial" \notin Allowed

(* Every helper the daemon lists, running or not. *)
Known == {h \in Sessions : status[h] \notin {"none", "gone"}}

NameOf(h) == IF cfg[h].name = "" THEN h ELSE cfg[h].name
NamedBy(name) == {h \in Known : NameOf(h) = name}

(* Mutant of AnswersTo: --target is taken for an id as it is. *)
TakenAsIs(target) == {target}

AnswersTo(target) == Inspected(target)

(* A call of a command may fail in runs that say so. *)
CallFails == "cfault" \in Allowed

Ends(how) == at' = how

BeginCommand ==
  /\ at \in {"idle", "done", "failed"}
  /\ opts' \in Commands
  /\ targetID' = None
  /\ unchecked' = {} /\ matched' = {} /\ unremoved' = {}
  /\ counted' = {} /\ missed' = {} /\ existed' = {}
  /\ at' = IF opts'.name # None THEN "lookup"
           ELSE IF opts'.target # None THEN "resolve" ELSE "list"
  /\ UNCHANGED vars

(* --name: a single helper; --target is ignored then. *)
LookupHelper ==
  /\ at = "lookup"
  /\ LET found == NamedBy(opts.name)
     IN  \/ /\ found # {}
            /\ unchecked' = found /\ existed' = found
            /\ at' = "check"
         \/ /\ found = {} \/ CallFails
            /\ Ends("failed")
            /\ UNCHANGED <<unchecked, existed>>
  /\ UNCHANGED <<vars, opts, targetID, matched, unremoved, counted, missed>>

ResolveFilter ==
  /\ at = "resolve"
  /\ \/ /\ targetID' \in AnswersTo(opts.target)
        /\ at' = "list"
     \/ /\ AnswersTo(opts.target) = {} \/ CallFails
        /\ Ends("failed")
        /\ UNCHANGED targetID
  /\ UNCHANGED <<vars, opts, unchecked, matched, unremoved, counted, missed, existed>>

InScope == {h \in Known : targetID \in {None, cfg[h].target}}

(* Mutant of ListHelpers: without All only running containers are listed. *)
ListRunning == {h \in Listed : targetID \in {None, cfg[h].target}}

ListHelpers == InScope

ListFound ==
  /\ at = "list"
  /\ \/ /\ unchecked' = ListHelpers /\ existed' = InScope
        /\ at' = "check"
     \/ CallFails /\ Ends("failed") /\ UNCHANGED <<unchecked, existed>>
  /\ UNCHANGED <<vars, opts, targetID, matched, unremoved, counted, missed>>

(* findHelpers checks every helper; --stale keeps the stale ones. *)
CheckFound ==
  /\ at = "check"
  /\ \E h \in unchecked :
       \/ /\ unchecked' = unchecked \ {h}
          /\ matched' = IF opts.stale /\ ~CheckHelper(Labels(h), targets)
                        THEN matched ELSE matched \cup {h}
          /\ UNCHANGED at
       \/ CallFails /\ Ends("failed") /\ UNCHANGED <<unchecked, matched>>
  /\ UNCHANGED <<vars, opts, targetID, unremoved, counted, missed, existed>>

Report ==
  /\ at = "check" /\ unchecked = {}
  /\ IF matched = {} \/ opts.dryRun
     THEN Ends("done") /\ UNCHANGED unremoved
     ELSE at' = "remove" /\ unremoved' = matched
  /\ UNCHANGED <<vars, opts, targetID, unchecked, matched, counted, missed, existed>>

(* Mutant of ForceRemove: whatever has the name of the helper is removed. *)
RemoveByName(h) ==
  status' = [g \in Sessions |->
               IF status[g] \in Alive /\ NameOf(g) = NameOf(h) THEN "gone" ELSE status[g]]

(* Mutant of ForceRemove: without Force a running container stays. *)
RemoveUnforced(h) ==
  status' = [status EXCEPT ![h] = IF @ \in Alive \ {"running", "restarting"} THEN "gone" ELSE @]

ForceRemove(h) == ContainerRemove(h)

(* RemoveHelpers goes on after an error; "no such container" and "already *)
(* in progress" count as removed.                                         *)
RemoveMatched ==
  /\ at = "remove"
  /\ \E h \in unremoved :
       /\ unremoved' = unremoved \ {h}
       /\ \/ /\ ForceRemove(h)
             /\ counted' = counted \cup {h}
             /\ UNCHANGED missed
          \/ /\ CallFails
             /\ missed' = missed \cup {h}
             /\ UNCHANGED <<status, counted>>
  /\ at' = IF unremoved' = {} THEN "done" ELSE "remove"
  /\ UNCHANGED <<targets, cfg, holding, foreign, image, sessionVars,
                 opts, targetID, unchecked, matched, existed>>

(* Mutant of ExitCode: a removal that failed is reported and forgotten. *)
ExitOfErrors == IF at = "failed" THEN 1 ELSE 0

(* What the cleanup command exits with: other than 0 also when it removed *)
(* fewer helpers than it found.                                           *)
ExitCode ==
  IF at = "failed" \/ (at = "done" /\ ~opts.dryRun /\ counted # matched) THEN 1 ELSE 0

CommandStep ==
  \/ BeginCommand \/ LookupHelper \/ ResolveFilter \/ ListFound \/ CheckFound \/ Report
  \/ RemoveMatched

CleanupInit ==
  /\ Init
  /\ at = "idle"
  /\ opts = CHOOSE c \in Commands : TRUE
  /\ targetID = None
  /\ unchecked = {} /\ matched = {} /\ unremoved = {}
  /\ counted = {} /\ missed = {} /\ existed = {}

CleanupNext == CommandStep \/ (Next /\ UNCHANGED commandVars)

CleanupSpec == CleanupInit /\ [][CleanupNext]_cleanupVars

-----------------------------------------------------------------------------
(* Properties.  That CleanupSpec implements Spec, the forwards beside      *)
(* others who may remove helpers, is one of them.                          *)

CleanupTypeOK ==
  /\ at \in {"idle", "lookup", "resolve", "list", "check", "remove", "done", "failed"}
  /\ opts \in Commands
  /\ targetID \in Targets \cup {None}
  /\ \A set \in {unchecked, matched, unremoved, counted, missed, existed} : set \subseteq Sessions

(* A cleanup is complete: when it ends, no helper of its scope that there   *)
(* was when it listed them is left, stopped and restarting ones included,   *)
(* unless removing it reported an error.  (Without --stale.)                *)
CleanupIsComplete ==
  at = "done" /\ ~opts.stale /\ ~opts.dryRun
    => \A h \in existed \ missed : Removed(h)

(* A script may rely on the exit code: 0 from a cleanup means that every    *)
(* helper it matched is gone, and without --stale every helper of its scope. *)
ExitZeroMeansGone ==
  at = "done" /\ ExitCode = 0 /\ ~opts.dryRun
    => \A h \in matched \cup (IF opts.stale THEN {} ELSE existed) : Removed(h)

(* A cleanup removes no helper that was started after it looked, though it  *)
(* may have the name of one it removes, nor one outside its scope.          *)
CleanupRemovesListed ==
  [][\A h \in Sessions :
       CommandStep /\ status[h] \in Alive /\ status'[h] \notin Alive
         => h \in existed /\ ~opts.dryRun]_cleanupVars

(* What a cleanup reports as removed is gone for good, although helpers     *)
(* restart and forwards go on.                                              *)
CountedAreGone == \A h \in counted : Removed(h)

(* With --stale a helper is reported, and removed, only if its connections  *)
(* could not end at its target when it was checked, whatever its own state  *)
(* and whichever container answers to the name it dials.                    *)
ReportedStaleIsSound ==
  [][\A h \in matched' \ matched :
       opts.stale => cfg[h].target \notin Dials(Labels(h), targets)]_cleanupVars

(* What cleanup does to containers, forwards expect of others anyway: the   *)
(* command beside forwards is an implementation of Spec, and what holds of  *)
(* forwards there holds beside it.                                          *)
ImplementsSpec == Spec

-----------------------------------------------------------------------------
(* Why these hold: the inductive invariant of the proofs, in named parts. *)

(* Everything the command handles existed when it listed helpers. *)
FromTheList ==
  /\ \A h \in existed : status[h] # "none"
  /\ unchecked \cup matched \cup unremoved \cup counted \subseteq existed

(* No helper of the list is lost on the way from listing to removal. *)
NoneForgotten ==
  ~opts.stale =>
    /\ at = "check" => existed \subseteq unchecked \cup matched
    /\ at \in {"remove", "done"} /\ ~opts.dryRun
         => existed \subseteq unremoved \cup counted \cup missed

Stages ==
  /\ at = "remove" => ~opts.dryRun
  /\ at # "remove" => unremoved = {}
  /\ at \in {"lookup", "resolve", "list"} => matched = {} /\ counted = {}
  /\ unremoved \cup missed \subseteq matched

CleanupInv ==
  CleanupTypeOK /\ FromTheList /\ NoneForgotten /\ Stages /\ CountedAreGone
=============================================================================
