------------------------------ MODULE MCDocFeed ------------------------------
(* Instances of DocFeed for TLC. *)
EXTENDS DocFeed, TLC

\* Nothing goes wrong, or one kind of trouble at a time.
OneFault == {{}, {"loss"}, {"subscribe"}, {"delay"}}
NoFault == {{}}
=============================================================================
