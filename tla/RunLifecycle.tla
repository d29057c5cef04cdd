---------------------------- MODULE RunLifecycle ----------------------------
(***************************************************************************)
(* A planned hunt from its first prompt to its exit code                   *)
(* (_runner/analyze.py, the gates and population preparation of            *)
(* _runner/planning.py, common/output.py and main of cli.py).  What can    *)
(* fail fails here: a preparation, a load, a finish, the report's target,  *)
(* a detector, the rendering; and the operator can decline or press ^C.    *)
(***************************************************************************)
EXTENDS RunPlan

CONSTANTS Terms     \* [yes, gate, quiet : BOOLEAN, target : "file" | "final" | "stdout"]

(* Detectors with a PREPARED_POPULATION, and those whose failed            *)
(* preparation is recovered on the full frame.                             *)
Prepared == {"syslog", "dnsblock"}
Recoverable == {"syslog"}

VARIABLES
    terms,      \* --yes, warn_above, -q and the kind of report target
    prompts,    \* confirmations asked
    prepared,   \* the preparation of each declared detector, by name
    noted,      \* detectors with a preparation note in the report
    failed,     \* detectors_failed
    ran,        \* detectors that returned findings
    report,     \* what the target holds: "old" | "begun" | "torn" | "complete"
    claimed,    \* "wrote report to" was printed
    exit        \* "none" or the exit code

runVars == <<terms, prompts, prepared, noted, failed, ran, report, claimed, exit>>
lifeVars == <<planVars, runVars>>

RunInit ==
    /\ prompts = 0 /\ prepared = <<>> /\ noted = {} /\ failed = {} /\ ran = {}
    /\ report = "old" /\ claimed = FALSE /\ exit = "none"
LifeInit == PlanInit /\ terms \in Terms /\ RunInit

Exit(code) == stage' = "exited" /\ exit' = code
KeepPlan == UNCHANGED <<call, dry, real, terms>>

(* What main makes of an escaping exception. *)
Raise == Exit("1")
Interrupted == Exit("130")
Declined == Exit("0")

-----------------------------------------------------------------------------
(* A plan that failed, or one with nothing to run. *)
EndUnplanned ==
    /\ \/ stage \in {"refused", "failed"} /\ Raise
       \/ /\ stage = "planned" /\ real.willRun = {}
          /\ IF real.skipped # {} THEN Exit("1") ELSE Exit("0")
    /\ KeepPlan /\ UNCHANGED <<prompts, prepared, noted, failed, ran, report, claimed>>

(* _confirm_large_dataset: EOF and ^C at the prompt are a decline. *)
GateAsks(large) == large /\ terms.gate /\ ~ terms.yes
Confirm(large, next) ==
    IF ~ GateAsks(large) THEN stage' = next /\ UNCHANGED <<prompts, exit>>
    ELSE /\ prompts' = prompts + 1
         /\ \/ stage' = next /\ UNCHANGED exit
            \/ Declined

(* The gate before the load, over the estimate. *)
GateBeforeLoad ==
    /\ stage = "planned" /\ real.willRun # {}
    /\ \E large \in BOOLEAN : Confirm(large, "preparing")
    /\ KeepPlan /\ UNCHANGED <<prepared, noted, failed, ran, report, claimed>>

(* _record_preparation_disposition. *)
Dispose(d, unrecovered, ineligible) ==
    IF unrecovered \/ d \notin Recoverable
    THEN failed' = failed \cup {d} /\ UNCHANGED noted
    ELSE /\ noted' = IF ineligible THEN noted ELSE noted \cup {d}
         /\ UNCHANGED failed

(* One declaration: its configuration, then its prepare. *)
Prepare(d) ==
    /\ stage = "preparing" /\ d \in (real.willRun \cap Prepared) \ DOMAIN prepared
    /\ \E outcome \in {"committed", "ineligible", "declined", "bad config"} :
          /\ prepared' = [n \in DOMAIN prepared \cup {d} |-> IF n = d THEN outcome ELSE prepared[n]]
          /\ IF outcome = "committed" THEN UNCHANGED <<failed, noted>>
             ELSE Dispose(d, outcome = "bad config", outcome = "ineligible")
    /\ KeepPlan /\ UNCHANGED <<stage, prompts, ran, report, claimed, exit>>

Committed == {d \in DOMAIN prepared : prepared[d] = "committed"}

(* The load, and the reload in full of every population whose final        *)
(* admission, coverage or committed files did not hold.                    *)
Load ==
    /\ stage = "preparing" /\ (real.willRun \cap Prepared) \subseteq DOMAIN prepared
    /\ \/ /\ \E lost \in SUBSET Committed :
                /\ prepared' = [d \in DOMAIN prepared |->
                                   IF d \in lost THEN "reloaded" ELSE prepared[d]]
                /\ failed' = failed \cup (lost \ Recoverable)
                /\ noted' = noted \cup (lost \cap Recoverable)
          /\ stage' = "loaded" /\ UNCHANGED exit
       \/ Raise /\ UNCHANGED <<prepared, failed, noted>>
    /\ KeepPlan /\ UNCHANGED <<prompts, ran, report, claimed>>

(* A mutant: the flag of the first prompt is lost. *)
GateAfterLoadAgain ==
    /\ stage = "loaded"
    /\ \E denied, large \in BOOLEAN :
          IF denied THEN Raise /\ UNCHANGED prompts
          ELSE Confirm(large, "finishing")
    /\ KeepPlan /\ UNCHANGED <<prepared, noted, failed, ran, report, claimed>>

(* Total permission denial is an error; then the gate over the real count, *)
(* unless the operator has already answered.                               *)
GateAfterLoad ==
    /\ stage = "loaded"
    /\ \E denied, large \in BOOLEAN :
          IF denied THEN Raise /\ UNCHANGED prompts
          ELSE IF prompts > 0 THEN stage' = "finishing" /\ UNCHANGED <<prompts, exit>>
          ELSE Confirm(large, "finishing")
    /\ KeepPlan /\ UNCHANGED <<prepared, noted, failed, ran, report, claimed>>

(* _finish_populations: a finish that raises has nothing to fall back on. *)
Finish ==
    /\ stage = "finishing"
    /\ \E bad \in SUBSET Committed : failed' = failed \cup bad
    /\ stage' = "opening"
    /\ KeepPlan /\ UNCHANGED <<prompts, prepared, noted, ran, report, claimed, exit>>

(* _build_output_handler and begin.  Text, json and csv files are opened,  *)
(* and emptied, here; html and pdf are written at the end.                 *)
OpenReport ==
    /\ stage = "opening"
    /\ \/ /\ stage' = "detecting" /\ UNCHANGED exit
          /\ report' = IF terms.target = "final" THEN "old" ELSE "begun"
       \/ Raise /\ report' \in {"old", IF terms.target = "file" THEN "begun" ELSE "old"}
    /\ KeepPlan /\ UNCHANGED <<prompts, prepared, noted, failed, ran, claimed>>

(* The loop: prep and run of each detector that has not failed already. *)
Detect(d) ==
    /\ stage = "detecting" /\ d \in real.willRun \ (failed \cup ran)
    /\ \/ ran' = ran \cup {d} /\ UNCHANGED failed
       \/ failed' = failed \cup {d} /\ UNCHANGED ran
    /\ KeepPlan /\ UNCHANGED <<stage, prompts, prepared, noted, report, claimed, exit>>

(* write, end and the close of the stream. *)
Render ==
    /\ stage = "detecting" /\ real.willRun \subseteq failed \cup ran
    /\ \/ report' = "complete" /\ stage' = "rendered" /\ UNCHANGED exit
       \/ report' = "torn" /\ Raise
       \/ report' = "torn" /\ terms.target = "stdout" /\ Exit("141")
    /\ KeepPlan /\ UNCHANGED <<prompts, prepared, noted, failed, ran, claimed>>

Announce ==
    /\ stage = "rendered"
    /\ claimed' = (terms.target # "stdout" /\ ~ terms.quiet)
    /\ IF failed # {} THEN Exit("1") ELSE Exit("0")
    /\ KeepPlan /\ UNCHANGED <<prompts, prepared, noted, failed, ran, report>>

(* ^C outside the prompts. *)
Interrupt ==
    /\ stage \in {"preparing", "loaded", "finishing", "opening", "detecting", "rendered"}
    /\ Interrupted
    /\ KeepPlan /\ UNCHANGED <<prompts, prepared, noted, failed, ran, report, claimed>>

RunNext ==
    \/ (Refuse \/ DryRun \/ PlanRun) /\ UNCHANGED runVars
    \/ EndUnplanned \/ GateBeforeLoad \/ Load \/ GateAfterLoad \/ Finish
    \/ OpenReport \/ Render \/ Announce \/ Interrupt
    \/ \E d \in Detectors : Prepare(d) \/ Detect(d)

LifeSpec == LifeInit /\ [][RunNext]_lifeVars

-----------------------------------------------------------------------------
(* Exit 0 means that the operator declined, that the selection was empty,  *)
(* or that every planned detector returned into a complete report; exit 1  *)
(* after a complete report names a detector that failed; no detector is    *)
(* both run and failed, or in the plan and in neither; and a preparation   *)
(* that was lost costs no detector that can be recovered, and leaves a     *)
(* note unless it was ineligible.                                          *)
RunExitIsEarned ==
    stage = "exited" =>
        /\ exit = "0" => \/ prompts > 0 /\ report = "old"
                         \/ Selected = {}
                         \/ report = "complete" /\ ran = real.willRun /\ failed = {}
        /\ exit = "1" /\ report = "complete" => failed # {}
        /\ report = "complete" =>
              /\ ran \cup failed = real.willRun /\ ran \cap failed = {}
              /\ real.willRun \cup {s.detector : s \in real.skipped} = Selected
              /\ \A d \in DOMAIN prepared \cap ran :
                    prepared[d] \in {"declined", "reloaded"} => d \in noted

(* A report is announced only when it is complete in its file; a run that  *)
(* the operator declined, or that was refused or denied every file, leaves *)
(* the target as it was; and the operator is asked at most once.           *)
RunClaimIsTrue ==
    /\ claimed => report = "complete" /\ terms.target # "stdout"
    /\ (exit # "none" /\ report = "begun") => exit \in {"1", "130"}
    /\ (exit = "0" /\ report # "complete") => report = "old"
    /\ prompts <= 1 /\ (terms.yes \/ ~ terms.gate => prompts = 0)
=============================================================================
