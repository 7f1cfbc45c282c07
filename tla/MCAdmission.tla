------------------------------ MODULE MCAdmission ------------------------------
(* A process with fewer downloads than calls of Telegram, as Room asks, and one *)
(* with more, as the defaults have it (config/config.go:197-199).               *)
EXTENDS Admission

MCLimits == {[uploads |-> 0, downloads |-> 1, telegramSem |-> 2],
             [uploads |-> 1, downloads |-> 2, telegramSem |-> 1]}
================================================================================
