----------------------------- MODULE UploadSpec -----------------------------
(***************************************************************************)
(* What the image load framework promises its user: uploads are accepted   *)
(* one at a time, and each accepted upload is reported once, before the    *)
(* next is accepted.                                                       *)
(***************************************************************************)
EXTENDS Naturals

VARIABLES
  state,     \* "idle", or "active" while an upload is under way
  accepted,  \* uploads accepted so far
  reported   \* uploads whose completion was signalled

absVars == <<state, accepted, reported>>

Init == state = "idle" /\ accepted = 0 /\ reported = 0

Accept ==
  /\ state = "idle" /\ reported = accepted
  /\ state' = "active"
  /\ accepted' = accepted + 1
  /\ UNCHANGED reported

Report ==
  /\ state = "active"
  /\ state' = "idle"
  /\ reported' = accepted
  /\ UNCHANGED accepted

Next == Accept \/ Report

Spec == Init /\ [][Next]_absVars

\* An upload that was accepted is reported.
FairSpec == Spec /\ WF_absVars(Report)
=============================================================================
