-------------------------- MODULE ResourceRenewal --------------------------
(***************************************************************************)
(* The rules and the model a worker serves with: what a start installs,    *)
(* validates and loads, and the renewals while it runs, which may fail at  *)
(* every step.  WorkerStartup::resolve, RulesStartup, Rules,               *)
(* renew_resources_once and renew_resources in src/src/worker.rs.          *)
(*                                                                         *)
(* A version of the models and one of the traits make a combination; which *)
(* combinations pass the validation is not known before it has run.  The   *)
(* model is loaded into the handle the slots read; the traits are in a     *)
(* mapper that belongs to the process.  What cleave and the repositories   *)
(* do is external: an update reports whether it changed what is installed. *)
(***************************************************************************)
EXTENDS Naturals

CONSTANTS
    Broken,      \* combinations that fail the validation
    MaxVersion,  \* bound: versions upstream publishes
    MaxStarts    \* bound: starts of the process

Versions == 0 .. MaxVersion

ASSUME RenewalAssumption ==
    /\ MaxVersion \in Nat /\ MaxStarts \in Nat
    /\ \A c \in Broken : c.models \in Versions /\ c.traits \in Versions

VARIABLES
    rnUpstream,  \* the newest versions there are
    rnDisk,      \* what is installed
    rnServed,    \* what the process serves with: the handle's model, the mapper's traits
    rnLoaded,    \* the model a renewal has loaded and not yet handed over
    rnPc,        \* where the process or its renewal is
    rnPinned,    \* --no-update
    rnChanged,   \* what the updates of this renewal have changed
    rnStarts,
    rnFailed     \* history: a step of a renewal or of an update has failed in this run

renewalVars ==
    <<rnUpstream, rnDisk, rnServed, rnLoaded, rnPc, rnPinned, rnChanged, rnStarts, rnFailed>>

Combination(m, t) == [models |-> m, traits |-> t]
Installed == {"models", "traits"}
Oldest == Combination(0, 0)

RenewalInit ==
    /\ rnUpstream = Oldest /\ rnDisk = Oldest /\ rnServed = Oldest /\ rnLoaded = 0
    /\ rnPc = "down" /\ rnPinned \in BOOLEAN /\ rnChanged = {} /\ rnStarts = 0
    /\ rnFailed = FALSE

NewVersion(kind) ==
    /\ rnUpstream[kind] < MaxVersion /\ rnUpstream' = [rnUpstream EXCEPT ![kind] = @ + 1]
    /\ UNCHANGED <<rnDisk, rnServed, rnLoaded, rnPc, rnPinned, rnChanged, rnStarts, rnFailed>>

RenewAt(pc) == rnPc = pc
GoTo(pc) == rnPc' = pc

----------------------------------------------------------------------------
(* The start                                                               *)

\* refresh_rules_at_startup, unless the start is told to skip it.  It installs both
\* or it ends the start.
Refresh ==
    /\ RenewAt("down") /\ rnStarts < MaxStarts
    /\ rnStarts' = rnStarts + 1 /\ rnFailed' = FALSE
    /\ \/ GoTo("refreshed") /\ rnDisk' = IF rnPinned THEN rnDisk ELSE rnUpstream
       \/ ~rnPinned /\ GoTo("down") /\ UNCHANGED rnDisk
    /\ UNCHANGED <<rnUpstream, rnServed, rnLoaded, rnPinned, rnChanged>>

\* The gate of the start: the combination that is installed, before it is loaded.
StartValidates ==
    /\ RenewAt("refreshed") /\ GoTo(IF rnDisk \in Broken THEN "down" ELSE "validated")
    /\ UNCHANGED <<rnUpstream, rnDisk, rnServed, rnLoaded, rnPinned, rnChanged, rnStarts, rnFailed>>

\* warm_cleave builds the mapper; the bundle is loaded, or the process ends.
StartLoads ==
    /\ RenewAt("validated")
    /\ \/ GoTo("serving") /\ rnServed' = rnDisk
       \/ GoTo("down") /\ UNCHANGED rnServed
    /\ UNCHANGED <<rnUpstream, rnDisk, rnLoaded, rnPinned, rnChanged, rnStarts, rnFailed>>

\* The process ends, in the middle of a renewal too; what is installed stays.
GoDown ==
    /\ rnPc \notin {"down"} /\ GoTo("down") /\ rnChanged' = {}
    /\ UNCHANGED <<rnUpstream, rnDisk, rnServed, rnLoaded, rnPinned, rnStarts, rnFailed>>

----------------------------------------------------------------------------
(* renew_resources                                                         *)

\* An update brings the newest version, or fails and counts as no change.
Update(kind, pc, next) ==
    /\ RenewAt(pc) /\ GoTo(next)
    /\ \/ /\ rnDisk[kind] # rnUpstream[kind]
          /\ rnDisk' = [rnDisk EXCEPT ![kind] = rnUpstream[kind]]
          /\ rnChanged' = rnChanged \cup {kind} /\ UNCHANGED rnFailed
       \/ rnDisk[kind] = rnUpstream[kind] /\ UNCHANGED <<rnDisk, rnChanged, rnFailed>>
       \/ rnFailed' = TRUE /\ UNCHANGED <<rnDisk, rnChanged>>
    /\ UNCHANGED <<rnUpstream, rnServed, rnLoaded, rnPinned, rnStarts>>

RenewalDue ==
    /\ RenewAt("serving") /\ ~rnPinned /\ GoTo("models") /\ rnChanged' = {}
    /\ UNCHANGED <<rnUpstream, rnDisk, rnServed, rnLoaded, rnPinned, rnStarts, rnFailed>>

UpdateModels == Update("models", "models", "traits")
UpdateTraits == Update("traits", "traits", "updated")

\* Mutation: a renewal takes both to have changed.
BothChanged == rnChanged = Installed

\* A renewal with nothing new does nothing.
SomethingChanged == rnChanged # {}

Decide ==
    /\ RenewAt("updated") /\ GoTo(IF SomethingChanged THEN "validate" ELSE "serving")
    /\ UNCHANGED <<rnUpstream, rnDisk, rnServed, rnLoaded, rnPinned, rnChanged, rnStarts, rnFailed>>

RenewalFails == GoTo("serving") /\ rnFailed' = TRUE

\* Mutation: the mapper is renewed on the way, before the bundle is loaded.
ValidateReloadsFirst ==
    /\ RenewAt("validate")
    /\ \/ rnDisk \notin Broken /\ GoTo("load") /\ UNCHANGED rnFailed
       \/ RenewalFails
    /\ rnServed' = [rnServed EXCEPT !.traits = rnDisk.traits]
    /\ UNCHANGED <<rnUpstream, rnDisk, rnLoaded, rnPinned, rnChanged, rnStarts>>

\* The gate again, over what the updates left installed.
Validate ==
    /\ RenewAt("validate")
    /\ \/ rnDisk \notin Broken /\ GoTo("load") /\ UNCHANGED rnFailed
       \/ RenewalFails
    /\ UNCHANGED <<rnUpstream, rnDisk, rnServed, rnLoaded, rnPinned, rnChanged, rnStarts>>

Load ==
    /\ RenewAt("load")
    /\ \/ rnLoaded' = rnDisk.models /\ GoTo("reload") /\ UNCHANGED rnFailed
       \/ RenewalFails /\ UNCHANGED rnLoaded
    /\ UNCHANGED <<rnUpstream, rnDisk, rnServed, rnPinned, rnChanged, rnStarts>>

\* reload_capability_mapper: the last step that can fail, and it keeps the old mapper then.
Reload ==
    /\ RenewAt("reload")
    /\ \/ /\ rnServed' = [rnServed EXCEPT !.traits = rnDisk.traits]
          /\ GoTo("swap") /\ UNCHANGED rnFailed
       \/ RenewalFails /\ UNCHANGED rnServed
    /\ UNCHANGED <<rnUpstream, rnDisk, rnLoaded, rnPinned, rnChanged, rnStarts>>

\* The new resources go into the handle.
Swap ==
    /\ RenewAt("swap") /\ GoTo("serving")
    /\ rnServed' = [rnServed EXCEPT !.models = rnLoaded]
    /\ UNCHANGED <<rnUpstream, rnDisk, rnLoaded, rnPinned, rnChanged, rnStarts, rnFailed>>

Renewal ==
    \/ RenewalDue \/ UpdateModels \/ UpdateTraits \/ Decide
    \/ Validate \/ Load \/ Reload \/ Swap

StartUp == Refresh \/ StartValidates \/ StartLoads

RenewalNext == (\E kind \in Installed : NewVersion(kind)) \/ StartUp \/ GoDown \/ Renewal

RenewalSpec == RenewalInit /\ [][RenewalNext]_renewalVars

\* The interval comes round and the blocking task runs to its end.
RenewalFairness == WF_renewalVars(Renewal)

----------------------------------------------------------------------------
(* Properties                                                              *)

\* Whenever no renewal is between its last two steps, the model and the traits a
\* worker serves with passed the validation together, whichever steps of the
\* renewals before failed: "a failure keeps the last-known-good resources".
ServedIsWhole ==
    rnPc \notin {"down", "refreshed", "validated", "swap"} => rnServed \notin Broken

\* Nothing new is forgotten while no step fails: what is installed and not served was
\* changed by the renewal under way, which therefore goes on to hand it over, and
\* between two renewals there is no such thing.  The safety half of NewsIsServed.
InstalledIsServed ==
    rnPc \notin {"down", "refreshed", "validated"} /\ ~rnFailed =>
        /\ RenewAt("serving") => rnServed = rnDisk
        /\ \A kind \in Installed : rnDisk[kind] # rnServed[kind] => kind \in rnChanged

\* A renewal hands over a validated pair, and all of what it found new.
RenewalIsWhole == ServedIsWhole /\ InstalledIsServed

\* A worker that renews, is not stopped and meets no failure ends up serving what is
\* newest, once upstream rests, whichever of the two changed and in which renewal.
NewsIsServed ==
    [](rnPc \notin {"down", "refreshed", "validated"} /\ ~rnPinned /\ ~rnFailed
        => <>(rnServed = rnUpstream \/ rnFailed \/ RenewAt("down")))

\* The comment at renew_resources_once: after a failure the worker keeps what it
\* has "until the next successful renewal or a restart".  A renewal that finds
\* everything in order leaves nothing installed that is not served.
NothingNewIsServed == [][RenewAt("updated") /\ RenewAt("serving")' => rnServed = rnDisk]_renewalVars
=============================================================================
