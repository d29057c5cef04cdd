------------------------------- MODULE FanOut -------------------------------
(***************************************************************************)
(* The two verbs that attempt several inputs and end with one exit code:   *)
(* graph writes one artifact per kind, digest one card per path into one   *)
(* shared file that is opened when the first card is about to be drawn     *)
(* (cli.py, _runner/graph.py, _runner/digest.py).                          *)
(***************************************************************************)
EXTENDS Naturals, FiniteSets

CONSTANTS Kinds,    \* the graph kinds the probe may find
          Paths     \* the positional paths of a digest

VARIABLES
    verb,       \* "idle", "graph" or "digest"
    issues,     \* graph: what the probe refused, a set of "denied" and "refused"
    todo,       \* the kinds or paths not attempted yet
    ledger,     \* the result of each attempt, by kind or path
    retried,    \* graph: kinds reloaded without the date directory's window
    target,     \* each artifact, or the shared file: "old", "open", "torn", "whole"
    said,       \* the targets announced as written
    code        \* "none" or the exit code

fanVars == <<verb, issues, todo, ledger, retried, target, said, code>>

Results(kind) == {i \in DOMAIN ledger : ledger[i] = kind}
Put(f, i, v) == [j \in DOMAIN f \cup {i} |-> IF j = i THEN v ELSE f[j]]
Code(c) == code' = c

FanInit ==
    /\ verb \in {"graph", "digest"}
    /\ issues \in (IF verb = "graph" THEN SUBSET {"denied", "refused"} ELSE {{}})
    /\ todo \in (IF verb = "graph" THEN SUBSET Kinds ELSE (SUBSET Paths) \ {{}})
    /\ ledger = <<>> /\ retried = {} /\ said = {} /\ code = "none"
    /\ target \in [IF verb = "graph" THEN Kinds ELSE {"out"} -> {"old"}]

(* run_graph: strict about denied files, before and after the one reload   *)
(* without the window of a date-named directory; the target is touched     *)
(* only when load, build and render have succeeded.                        *)
Attempt(k, result) == /\ ledger' = Put(ledger, k, result) /\ todo' = todo \ {k}
                      /\ UNCHANGED <<verb, issues, retried, code>>

GraphDenied(k) == Attempt(k, "denied") /\ UNCHANGED <<target, said>>
GraphRetry(k) == /\ k \notin retried /\ retried' = retried \cup {k}
                 /\ UNCHANGED <<verb, issues, todo, ledger, target, said, code>>
GraphEmpty(k) == Attempt(k, "empty") /\ UNCHANGED <<target, said>>
GraphBroken(k) == /\ Attempt(k, "error") /\ UNCHANGED said
                  /\ \E t \in {"old", "torn"} : target' = [target EXCEPT ![k] = t]
GraphDrawn(k) == /\ Attempt(k, "rendered")
                 /\ target' = [target EXCEPT ![k] = "whole"] /\ said' = said \cup {k}

GraphKind(k) ==
    /\ verb = "graph" /\ code = "none" /\ k \in todo
    /\ GraphDenied(k) \/ GraphRetry(k) \/ GraphEmpty(k) \/ GraphBroken(k) \/ GraphDrawn(k)

(* Denial outranks a sibling artifact; ordinary failures do not. *)
GraphExit ==
    /\ verb = "graph" /\ code = "none" /\ todo = {}
    /\ LET denied == "denied" \in issues \/ Results("denied") # {}
           errors == "refused" \in issues \/ Results("error") # {}
       IN  CASE ledger = <<>>             -> Code("1")
             [] ledger # <<>> /\ denied   -> Code("1")
             [] OTHER -> IF \/ Results("rendered") # {}
                            \/ Results("empty") # {} /\ ~ errors
                         THEN Code("0") ELSE Code("1")
    /\ UNCHANGED <<verb, issues, todo, ledger, retried, target, said>>

-----------------------------------------------------------------------------
Lone == Cardinality(todo \cup DOMAIN ledger) = 1

(* What needs no stream: a missing path, a directory (an error only when   *)
(* it is alone), an empty file, a file the sniffer cannot open.            *)
DigestSkip(p) ==
    /\ \E r \in {"missing", "directory", "empty", "denied", "error"} :
          ledger' = Put(ledger, p, IF r = "directory" /\ ~ Lone THEN "skipped"
                                   ELSE IF r \in {"missing", "directory"} THEN "error" ELSE r)
    /\ UNCHANGED <<target, code>>

(* run_digest, given the stream: the gates, the load, the summary or the   *)
(* byte profile that replaces it, the drawing.                             *)
DigestCard(p) ==
    \E r \in {"rendered", "empty", "denied", "error", "declined"} :
        /\ target' = [target EXCEPT !["out"] = "open"]
        /\ ledger' = Put(ledger, p, r)
        /\ IF r = "declined" THEN Code("0") ELSE UNCHANGED code

DigestPath(p) ==
    /\ verb = "digest" /\ code = "none" /\ p \in todo
    /\ todo' = todo \ {p}
    /\ DigestSkip(p) \/ DigestCard(p)
    /\ UNCHANGED <<verb, issues, retried, said>>

DigestExit ==
    /\ verb = "digest" /\ code = "none" /\ todo = {}
    /\ said' = IF Results("rendered") # {} THEN {"out"} ELSE {}
    /\ IF \/ Results("denied") # {}
          \/ Results("rendered") = {} /\ Results("error") # {}
       THEN Code("1") ELSE Code("0")
    /\ UNCHANGED <<verb, issues, todo, ledger, retried, target>>

FanNext ==
    \/ \E k \in Kinds : GraphKind(k)
    \/ \E p \in Paths : DigestPath(p)
    \/ GraphExit \/ DigestExit

-----------------------------------------------------------------------------
(* A fan-out that exits 0 denied the operator nothing: no input it was     *)
(* given was unreadable, unless the operator declined, and it drew         *)
(* something or failed at nothing; and one that exits 1 has a cause.       *)
FanOutExitIsEarned ==
    /\ (code = "0" /\ Results("declined") = {}) =>
          /\ "denied" \notin issues /\ Results("denied") = {}
          /\ Results("rendered") # {} \/ (Results("error") = {} /\ "refused" \notin issues)
    /\ code = "1" => issues # {} \/ ledger = <<>> \/ Results("denied") \cup Results("error") # {}

(* What is announced was written, and a graph artifact that is not         *)
(* announced and not torn is the one of the run before.                    *)
FanOutClaimIsTrue ==
    /\ \A k \in said : target[k] # "old"
    /\ verb = "graph" => \A k \in DOMAIN target :
          /\ k \in said <=> target[k] = "whole"
          /\ target[k] = "torn" => k \in Results("error")
    /\ verb = "digest" /\ code # "none" /\ said = {} =>
          Results("rendered") = {} \/ Results("declined") # {}
=============================================================================
