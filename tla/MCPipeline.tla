------------------------------ MODULE MCPipeline ------------------------------
(* Values for the constants of Pipeline: each target, and each kind of     *)
(* client id, at least once.                                               *)
EXTENDS Pipeline

MCInputs ==
    {[target |-> "livez", client |-> "junk"], [target |-> "healthz", client |-> "none"],
     [target |-> "readyz", client |-> "sane"], [target |-> "docs", client |-> "sane"],
     [target |-> "docs_page", client |-> "junk"], [target |-> "openapi", client |-> "none"],
     [target |-> "docs_wrong_method", client |-> "none"],
     [target |-> "handler", client |-> "junk"], [target |-> "unknown", client |-> "none"],
     [target |-> "wrong_method", client |-> "sane"]}

=============================================================================
