-------------------------- MODULE MCWorkerServices --------------------------
(***************************************************************************)
(* Two services of the worker that share nothing, checked one or the       *)
(* other: a behaviour is one of the webhook sender or one of the dialog    *)
(* observer.                                                               *)
(***************************************************************************)
EXTENDS WebhookSender, DialogObserver, TLC

VARIABLE focus

serviceVars == <<webhookVars, dialogVars, focus>>

ServiceInit ==
    /\ focus \in {"webhook", "dialog"}
    /\ WebhookInit
    /\ DialogInit

ServiceNext ==
    /\ UNCHANGED focus
    /\ \/ focus = "webhook" /\ WebhookNext /\ UNCHANGED dialogVars
       \/ focus = "dialog" /\ DialogNext /\ UNCHANGED webhookVars

ServiceSpec == ServiceInit /\ [][ServiceNext]_serviceVars /\ DialogFairness

=============================================================================
