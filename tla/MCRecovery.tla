---- MODULE MCRecovery ----
(* The operators' choices for the runs of Recovery. *)
EXTENDS Recovery

All == {"lose", "crash", "recover", "forget", "reset", "wipe", "unignore"}
Wipe == {"crash", "wipe"}
ForgetOnly == {"forget"}
====
