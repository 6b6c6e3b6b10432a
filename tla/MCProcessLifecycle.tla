------------------------- MODULE MCProcessLifecycle -------------------------
(***************************************************************************)
(* An image check beside the warm-up, in each kind of process.             *)
(***************************************************************************)
EXTENDS ProcessLifecycle

CONSTANTS one, warmup

Settings(checkOnly, web, bot, alerts) ==
    [checkOnly |-> checkOnly, web |-> web, bot |-> bot, alerts |-> alerts]

Deployments ==
    {Settings(TRUE, TRUE, TRUE, TRUE), Settings(FALSE, FALSE, FALSE, FALSE),
     Settings(FALSE, TRUE, FALSE, FALSE), Settings(FALSE, FALSE, TRUE, TRUE),
     Settings(FALSE, TRUE, TRUE, FALSE)}

FaultKinds == {"ocr"}

=============================================================================
