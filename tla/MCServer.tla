------------------------------ MODULE MCServer ------------------------------
(* A public connection and an administrator's, two requests between them;  *)
(* one configuration has a retention and two sinks, the other has neither. *)
EXTENDS Server

MCObservability ==
  [loud |-> [sinks |-> <<"loki", "http_json">>, retention |-> TRUE],
   quiet |-> [sinks |-> <<>>, retention |-> FALSE]]
=============================================================================
