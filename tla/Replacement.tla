---------------------------- MODULE Replacement ----------------------------
(* What every replacement worker of Nox Yard promises, whatever it          *)
(* replaces: the containers of one target by Engine calls                   *)
(* (internal/recreate), a Compose project (internal/managed), or Yard       *)
(* itself (internal/selfupdate).  A result that claims something is only    *)
(* recorded when it is so; what is needed to go back is kept until a result *)
(* is durable; nothing is touched after a result other than a request for   *)
(* host review.                                                             *)
VARIABLES
    target,  \* what the Engine holds: the original, a mixture, the replacement
    kept,    \* whether the original can still be put back
    result   \* the result on the job row

vars == <<target, kept, result>>

Targets == {"original", "between", "replaced"}
Results == {"none", "replaced", "kept_original", "review", "reviewed"}

TypeOK ==
    /\ target \in Targets
    /\ kept \in BOOLEAN
    /\ result \in Results

Init ==
    /\ target = "original"
    /\ kept = TRUE
    /\ result = "none"

(* The worker, or a command it started, changes the Engine.                 *)
Change ==
    /\ result \in {"none", "review", "reviewed"}
    /\ target' \in Targets
    /\ UNCHANGED <<kept, result>>

(* A verified result is recorded; the metadata of the project, a part of    *)
(* the target, may be committed with it.                                    *)
Record ==
    /\ result = "none"
    /\ \/ target' = "replaced" /\ result' = "replaced"
       \/ target' = "original" /\ result' = "kept_original"
    /\ UNCHANGED kept

(* The outcome is not known: the host is asked to look.                     *)
AskReview ==
    /\ result = "none"
    /\ result' = "review"
    /\ UNCHANGED <<target, kept>>

(* The host has looked.                                                     *)
Acknowledge ==
    /\ result = "review"
    /\ result' = "reviewed"
    /\ UNCHANGED <<target, kept>>

(* What was kept is removed once the result is durable, or reviewed.        *)
Release ==
    /\ result \in {"replaced", "kept_original", "reviewed"}
    /\ kept' = FALSE
    /\ UNCHANGED <<target, result>>

(* The next request begins with what it finds.                              *)
Renew ==
    /\ result \in {"replaced", "kept_original", "reviewed"}
    /\ target' = "original" /\ kept' = TRUE /\ result' = "none"

Next == Change \/ Record \/ AskReview \/ Acknowledge \/ Release \/ Renew

Spec == Init /\ [][Next]_vars
=============================================================================
