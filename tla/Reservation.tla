---------------------------- MODULE Reservation ----------------------------
(***************************************************************************)
(* What a multi-step creation of a repository promises of the name it      *)
(* reserved: the name is published over whole contents, once, or it is     *)
(* released; and while it is published the contents stay.  CONTEXT.md:     *)
(* "Only a ready repository may serve its Git data."                       *)
(***************************************************************************)
VARIABLES
    status,     \* "reserved", "ready" or "released"
    whole       \* does the object hold everything the name should serve?

vars == <<status, whole>>

Init == status = "reserved" /\ whole = FALSE

\* Contents come and go while nobody is served from them.
Work == status # "ready" /\ whole' \in BOOLEAN /\ UNCHANGED status

Publish == status = "reserved" /\ whole /\ status' = "ready" /\ UNCHANGED whole

\* The creation gives up, or somebody deletes the name.
Free == status # "released" /\ status' = "released" /\ UNCHANGED whole

Next == Work \/ Publish \/ Free

Spec == Init /\ [][Next]_vars
=============================================================================
