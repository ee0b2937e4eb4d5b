------------------------------ MODULE MCServices ------------------------------
(* Universe, Totals, Holders, Preflight and LedgerPage, checked side by side: *)
(* they share neither state nor calls, so every behaviour is one of one of    *)
(* them.                                                                      *)
EXTENDS Universe, Totals, Holders, Preflight, LedgerPage

CONSTANTS ann, bob

VARIABLE watched

vars == <<watched, universeVars, totalsVars, holdersVars, preflightVars, pageVars>>

MCOwners == <<ann, bob, ann>>
MCPlain  == {1, 2}
MCParts  == <<{bob}, {ann}>>

\* The four that are not watched stay where one of their behaviours begins.
Still(name, state) == watched # name => state

SomeFacts == CHOOSE f \in Facts : f.defects = {} /\ ~f.proveGuard

MCInit ==
  /\ watched \in {"universe", "totals", "holders", "preflight", "page"}
  /\ UniverseInit /\ Still("universe", ~jupiterOk /\ seedOk /\ kv = NoList)
  /\ TotalsInit
  /\ HoldersInit /\ Still("holders", helius /\ classic /\ balance = [a \in Account |-> 1])
  /\ PreflightInit /\ Still("preflight", facts = SomeFacts)
  /\ PageInit /\ Still("page", hidden)

OnlyUniverse(action) ==
  /\ watched = "universe" /\ action
  /\ UNCHANGED <<watched, totalsVars, holdersVars, preflightVars, pageVars>>
OnlyPage(action) ==
  /\ watched = "page" /\ action
  /\ UNCHANGED <<watched, universeVars, totalsVars, holdersVars, preflightVars>>

MCNext ==
  \/ OnlyUniverse(UniverseNext)
  \/ watched = "totals" /\ TotalsNext
     /\ UNCHANGED <<watched, universeVars, holdersVars, preflightVars, pageVars>>
  \/ watched = "holders" /\ HoldersNext
     /\ UNCHANGED <<watched, universeVars, totalsVars, preflightVars, pageVars>>
  \/ watched = "preflight" /\ PreflightNext
     /\ UNCHANGED <<watched, universeVars, totalsVars, holdersVars, pageVars>>
  \/ OnlyPage(PageNext)

\* Universe: calls and timers go on.  The page: rounds end, requests are answered, timers run.
MCSpec ==
  /\ MCInit /\ [][MCNext]_vars
  /\ WF_vars(OnlyUniverse(AskAny)) /\ WF_vars(OnlyUniverse(KvReadAny))
  /\ WF_vars(OnlyUniverse(RefreshStep)) /\ WF_vars(OnlyUniverse(UniverseTick))
  /\ WF_vars(OnlyPage(RoundEndsAny))
  /\ \A k \in Wants : WF_vars(OnlyPage(Answered(k)))
  /\ \A k \in Polls : WF_vars(OnlyPage(Poll(k)))
  /\ WF_vars(OnlyPage(Booted)) /\ WF_vars(OnlyPage(CountdownTicks)) /\ WF_vars(OnlyPage(SoonConfig))

TypeOK == UniverseTypeOK /\ TotalsTypeOK /\ HoldersTypeOK /\ PreflightTypeOK /\ PageTypeOK
=============================================================================
