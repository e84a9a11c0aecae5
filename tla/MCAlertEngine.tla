---------------------------- MODULE MCAlertEngine ----------------------------
(***************************************************************************)
(* AlertEngine on a small estate: an identity provider with two dependents *)
(* of other tiers, and single services.                                    *)
(***************************************************************************)
EXTENDS AlertEngine, TLC

Estate        == {"idp", "mail", "wiki"}
EstateDepends == {<<"idp", "mail">>, <<"idp", "wiki">>, <<"mail", "wiki">>}
EstateTiers   == "idp" :> "critical" @@ "mail" :> "important" @@ "wiki" :> "informational"

Alone       == {"mail"}
NoDepends   == {}
AloneTiers  == "mail" :> "important"

(* All that any step, or any of the runs' properties, reads: impact        *)
(* statements and reports are written only.                                *)
Watched == <<status, events, log, clock, messages, locals, finished>>
=============================================================================
