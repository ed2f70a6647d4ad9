--------------------------- MODULE MCAgentSession ---------------------------
(***************************************************************************)
(* AgentSession for TLC.  The messages are interchangeable, and no guard   *)
(* or property tells epochs apart by more than how far behind the present  *)
(* one they are: a notice is current or it is not, and abandon_running     *)
(* looks one entry back.                                                   *)
(***************************************************************************)
EXTENDS AgentSession

Sym == Permutations(Msg)

Behind(e) == IF e = None THEN None ELSE IF epoch - e > 2 THEN 3 ELSE epoch - e

InboxView == [i \in DOMAIN inbox |->
  IF inbox[i].kind \in {"idle", "busy"} THEN [kind |-> inbox[i].kind, late |-> inbox[i].epoch # epoch]
                                        ELSE inbox[i]]

View ==
  <<residence, actor, status, Behind(idleEpoch), meta, trayVars, line,
    [delivery EXCEPT !.from = IF delivery.phase = "meta" THEN Behind(@) ELSE 0], wire, InboxView,
    [processor EXCEPT !.epoch = processor.at = "settling" /\ @ = epoch], cliVars, lives, logVars>>
=============================================================================
