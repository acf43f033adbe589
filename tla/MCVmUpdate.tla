------------------------------- MODULE MCVmUpdate -------------------------------
(***************************************************************************)
(* VmUpdate for TLC: a qube for each batch, two independent ones.          *)
(***************************************************************************)
EXTENDS VmUpdate, TLC

CONSTANTS dom0, tmpl, alone, app

MCClass == (dom0 :> "AdminVM") @@ (tmpl :> "TemplateVM")
             @@ (alone :> "StandaloneVM") @@ (app :> "AppVM")

\* Updated, nothing to update, a transfer that failed under a stale agent, an
\* agent that failed, an exception, a cancel.
Ends == {[status |-> "success", code |-> OK], [status |-> "no updates", code |-> OK],
         [status |-> "success", code |-> ERR], [status |-> "error", code |-> ERR_VM_UPDATE],
         [status |-> "error", code |-> ERR_VM_UNHANDLED],
         [status |-> "cancelled", code |-> SIGINT]}
================================================================================
